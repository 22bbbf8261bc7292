----------------------------- MODULE HttpServing -----------------------------
(***************************************************************************)
(* One connection of HttpServer and its HttpHandle, in the thread of its   *)
(* loop: requests that arrive in reads cut anywhere and the responses they *)
(* get, the upgrade to a WebSocket, and the frames and the calls of the    *)
(* WebSocketService after it (src/src/http/HttpServer.cpp, HttpHandle.cpp, *)
(* HttpParser.cpp, HttpRouter.cpp, WebSocketParser.cpp).                   *)
(*                                                                         *)
(* A request is a sequence of tokens, the places where a read can end with *)
(* a different effect. http_parser is external: what of it calls which     *)
(* callback is taken from its header and its state machine. All requests   *)
(* are for one path, which is routed for GET and POST.                     *)
(***************************************************************************)
EXTENDS WsFrames, FiniteSets

CONSTANTS
    Kinds,       \* subset of {"get", "post", "upgrade", "last"}
    MaxRequests, \* BOUND: requests the client sends
    Ops,         \* BOUND: the opcodes of its frames
    Lengths,     \* BOUND: the lengths of their payloads
    MaxFrames    \* BOUND: frames it sends

ASSUME KnownKinds == Kinds \subseteq {"get", "post", "upgrade", "last"}
ASSUME KnownOps == Ops \subseteq DOMAIN Opcode
ASSUME LengthsFit == Lengths \subseteq 0 .. MaxPayload /\ MaxFrames \in Nat /\ MaxRequests \in Nat \ {0}

VARIABLES
    requests,    \* the kinds of the requests the client sends
    at,          \* how many of their tokens are read
    parser,      \* the HttpParser
    serviceType, \* m_serviceType
    closed,      \* the io is closed and the handle deleted
    fault,       \* the handle, its parser or its channel was used after that
    answers,     \* ghost: the responses sent, as [request, whole]
    calls,       \* ghost: the calls of the WebSocketService, in order
    shared,      \* ghost: requests that had a read in common with the next
    frames,      \* the frames the client has sent
    fed,         \* bytes of them that are read
    base,        \* and that have left m_buffer: it holds the bytes between
    parsing,     \* WebSocketParser::feedRecvData is running
    delivered    \* the frames given to onMessage

http == <<requests, at, parser, answers, shared>>
ws == <<frames, fed, base, parsing, delivered>>
vars == <<http, serviceType, closed, fault, calls, ws>>

-----------------------------------------------------------------------------
(* HttpParser. A read ends in a halt when http_parser_execute does not go  *)
(* to its end: after an upgrade, or at an error.                           *)

Tokens(kind) ==
    CASE kind = "upgrade" -> <<"line", "Upg", "rade", "end">>
      [] kind = "post" -> <<"line", "end", "body", "tail">>
      [] OTHER -> <<"line", "end">>

Wire == FlattenSeq([r \in DOMAIN requests |->
            [t \in DOMAIN Tokens(requests[r]) |-> [request |-> r, token |-> Tokens(requests[r])[t]]]])

NewParser ==
    [state |-> "start",    \* HttpParser::state
     urls |-> 0,           \* how many urls are in HttpParser::url
     method |-> FALSE,     \* HttpParser::method is set
     field |-> "none",     \* header_field: "none", "Upg", "Upgrade", or "rade" alone
     upgrade |-> FALSE,    \* the request's headers have Upgrade: websocket
     request |-> 0,        \* the request it is in
     halt |-> "no",        \* "upgrade" or "error" ends the read
     short |-> FALSE,      \* not all of the read was parsed
     dead |-> FALSE]       \* http_parser takes no more requests

Kind(p) == requests[p.request]

\* on_message_begin, on_url: the url goes to the end of those before it.
OnLine(p) ==
    IF p.dead THEN [p EXCEPT !.halt = "error", !.short = TRUE]
    ELSE [p EXCEPT !.state = "url", !.urls = @ + 1, !.request = @ + 1, !.field = "none"]

\* on_header_field, once for each read that has a part of the name: every
\* call stores the header before it, if that is not yet done.
OnField(p, part) ==
    [p EXCEPT !.state = "field",
              !.field = IF part = "rade" /\ @ = "Upg" THEN "Upgrade" ELSE part]

\* Mutant: a request with a body is complete only when its headers are.
OnMessageComplete_KeepsState(p) ==
    [p EXCEPT !.method = TRUE, !.dead = Kind(p) = "last",
              !.halt = IF Kind(p) = "upgrade" THEN "upgrade" ELSE @]

OnMessageComplete(p) ==
    [p EXCEPT !.state = "complete", !.method = TRUE,
              !.dead = Kind(p) = "last",
              !.halt = IF Kind(p) = "upgrade" THEN "upgrade" ELSE @]

\* on_headers_complete: the message counts as complete from here on.
OnHeadersComplete(p) ==
    LET q == [p EXCEPT !.state = "complete", !.upgrade = p.field = "Upgrade"]
    IN  IF Kind(p) = "post" THEN q ELSE OnMessageComplete(q)

Token(p, t) ==
    IF p.halt # "no" THEN [p EXCEPT !.short = TRUE]
    ELSE CASE t.token = "line" -> OnLine(p)
           [] t.token \in {"Upg", "rade"} -> OnField(p, t.token)
           [] t.token = "end" -> OnHeadersComplete(p)
           [] t.token = "body" -> [p EXCEPT !.state = "body"]
           [] t.token = "tail" -> OnMessageComplete([p EXCEPT !.state = "body"])

\* A name of which an earlier read had the first part is cut: handle_header
\* stores that part, and the rest is a name of its own.
StartOfRead(p) ==
    [p EXCEPT !.halt = IF @ = "upgrade" THEN "no" ELSE @,
              !.field = IF @ = "Upg" THEN "none" ELSE @]

HttpParser_feedRecvData(p, tokens) ==
    LET after[k \in 0 .. Len(tokens)] ==
            IF k = 0 THEN StartOfRead(p) ELSE Token(after[k - 1], tokens[k])
    IN  after[Len(tokens)]

\* m_router->getHandleFunc: nothing is routed for two urls in a row. The
\* method is one of the routed ones when it is set, and any if it is not.
Routed(p) == IF p.urls # 1 THEN {FALSE} ELSE IF p.method THEN {TRUE} ELSE BOOLEAN

-----------------------------------------------------------------------------
(* HttpHandle.                                                             *)

\* Mutant: the service learns of the end of the connection when it is
\* closed, and again when the handle is deleted.
Close_Twice(service, told) ==
    /\ closed' = TRUE
    /\ calls' = IF service = "ws" THEN told \o <<"onclose", "onclose">> ELSE told

\* io_close: on_close deletes the handle, whose destructor calls close(), and
\* that tells the service, if there was an upgrade. service: its
\* m_serviceType; told: the service's calls before it.
Close(service, told) ==
    /\ closed' = TRUE
    /\ calls' = IF service = "ws" THEN Append(told, "onclose") ELSE told

\* sendHttpResponse of a request; a failing io_send_data closes.
SendHttpResponse(p) ==
    /\ UNCHANGED <<serviceType, fault>>
    /\ \E found \in Routed(p) :
        IF found
        THEN /\ answers' = Append(answers, [request |-> p.request, whole |-> p.method])
             /\ \/ closed' = FALSE /\ calls' = calls
                \/ Close(serviceType, calls)
        ELSE UNCHANGED <<answers, closed, calls>>

\* switchWSProtocol. When the 101 fails, or onopen closes the channel, it
\* goes on with a deleted handle; onclose is then called with no channel or
\* before onopen has returned.
SwitchWSProtocol ==
    /\ serviceType' = "ws"
    /\ answers' = answers
    /\ \/ Close("ws", calls) /\ fault' = TRUE
       \/ Close("ws", Append(calls, "onopen")) /\ fault' = TRUE
       \/ calls' = Append(calls, "onopen") /\ UNCHANGED <<closed, fault>>

\* on_recv and HttpHandle::feedRecvData before the upgrade.
RecvHttp ==
    /\ ~closed /\ serviceType = "http"
    /\ \E n \in 1 .. Len(Wire) - at :
        LET p == HttpParser_feedRecvData(parser, SubSeq(Wire, at + 1, at + n))
            in == {Wire[k].request : k \in at + 1 .. at + n}
        IN  /\ at' = at + n
            /\ parser' = [p EXCEPT !.short = FALSE]
            /\ shared' = shared \cup {r \in in : r + 1 \in in}
            /\ \/ /\ p.short
                  /\ Close(serviceType, calls)
                  /\ UNCHANGED <<serviceType, fault, answers>>
               \/ /\ ~p.short /\ p.state = "complete" /\ p.upgrade
                  /\ SwitchWSProtocol
               \/ /\ ~p.short /\ p.state = "complete" /\ ~p.upgrade
                  /\ SendHttpResponse(p)
               \/ /\ ~p.short /\ p.state # "complete"
                  /\ UNCHANGED <<serviceType, closed, calls, fault, answers>>
    /\ UNCHANGED <<requests, ws>>

-----------------------------------------------------------------------------
(* After the upgrade. Byte number k of what the client has sent is ByteAt(k);*)
(* those of masks and payloads are 0.                                      *)

BytesBefore(fs, k) ==
    LET before[j \in 0 .. Len(fs)] == IF j = 0 THEN 0 ELSE before[j - 1] + fs[j].size
    IN  before[k - 1]

Start(k) == BytesBefore(frames, k)

Sent == Start(Len(frames) + 1)

ByteAt(k) ==
    LET f == CHOOSE j \in DOMAIN frames : Start(j) < k /\ k <= Start(j) + frames[j].size
        b == k - Start(f)
    IN  IF b <= Len(frames[f].head) THEN frames[f].head[b] ELSE 0

\* The first bytes of m_buffer, as many as a header can have.
Header == LET size == IF fed - base < 10 THEN fed - base ELSE 10
         IN  [k \in 1 .. size |-> ByteAt(base + k)]

\* The client sends a frame, now that it is served; masked, as it should be, or not.
ClientFrame ==
    /\ ~closed /\ serviceType = "ws" /\ Len(frames) < MaxFrames
    /\ \E op \in Ops, len \in Lengths, masked \in BOOLEAN :
        frames' = Append(frames, Frame(op, len, masked))
    /\ UNCHANGED <<http, serviceType, closed, fault, calls, fed, base, parsing, delivered>>

\* Where a read may end: in a header, before its last byte, after it, in the
\* mask, before the last byte of the frame, after it.
Ends == UNION {{Start(k) + d : d \in {1, Len(frames[k].head) - 1, Len(frames[k].head),
                                     Len(frames[k].head) + MaskSize - 1,
                                     frames[k].size - 1, frames[k].size}} : k \in DOMAIN frames}

\* on_recv after the upgrade: the bytes go to the end of m_buffer.
RecvWs ==
    /\ ~closed /\ serviceType = "ws" /\ ~parsing
    /\ \E end \in Ends : fed < end /\ end <= Sent /\ fed' = end
    /\ parsing' = TRUE
    /\ UNCHANGED <<http, serviceType, closed, fault, calls, frames, base, delivered>>

\* One turn of feedRecvData: it ends, or a frame goes to onMessage and out
\* of m_buffer. If the channel is closed on the way, by the service, for a
\* close frame, or because an answer cannot be sent, the handle and the parser
\* are deleted under it.
ParseTurn ==
    LET frame == TakeFrame(Header, fed - base)
        data == IF frame.whole /\ frame.op \in {Opcode.text, Opcode.binary}
                THEN Append(calls, "onmessage") ELSE calls
        mayClose == {Opcode.text, Opcode.binary, Opcode.close, Opcode.ping}
        mayStay == (0 .. 15) \ {Opcode.close}
    IN  /\ parsing /\ ~closed
        /\ \/ /\ ~frame.whole /\ parsing' = FALSE
              /\ UNCHANGED <<closed, fault, calls, base, delivered>>
           \/ /\ frame.whole /\ frame.op \in mayStay
              /\ delivered' = Append(delivered, <<frame.op, frame.len>>)
              /\ calls' = data
              /\ base' = base + frame.size
              /\ UNCHANGED <<closed, fault, parsing>>
           \/ /\ frame.whole /\ frame.op \in mayClose
              /\ delivered' = Append(delivered, <<frame.op, frame.len>>)
              /\ Close("ws", data)
              /\ fault' = TRUE /\ parsing' = FALSE
              /\ UNCHANGED base
        /\ UNCHANGED <<http, serviceType, frames, fed>>

\* The connection ends while none of the handle's functions runs: the client
\* closes it, a timeout does, or the service closes its channel from elsewhere.
End ==
    /\ ~closed /\ ~parsing
    /\ UNCHANGED <<http, serviceType, fault, ws>>
    /\ Close(serviceType, calls)

Init ==
    /\ requests \in UNION {[1 .. n -> Kinds] : n \in 1 .. MaxRequests}
    /\ at = 0 /\ parser = NewParser /\ serviceType = "http"
    /\ closed = FALSE /\ fault = FALSE
    /\ answers = <<>> /\ calls = <<>> /\ shared = {}
    /\ frames = <<>> /\ fed = 0 /\ base = 0 /\ parsing = FALSE /\ delivered = <<>>

Next == RecvHttp \/ ClientFrame \/ RecvWs \/ ParseTurn \/ End

Spec == Init /\ [][Next]_vars

-----------------------------------------------------------------------------
(* Properties.                                                             *)

Whole(r) == {k \in DOMAIN answers : answers[k] = [request |-> r, whole |-> TRUE]}

\* The request's last token is read.
Arrived(r) == at >= Len(FlattenSeq([k \in 1 .. r |-> Tokens(requests[k])]))

\* A client is not answered for what it has not asked: only the first request
\* of a connection is answered (the urls of later ones are put behind it), at
\* most once in whole, and before it is whole only if its body comes in a
\* later read than its head (on_headers_complete calls the message complete).
\* And it does get its answer, or its upgrade, unless one read has parts of it
\* and of the next: an upgrade of which a read has cut a header's name (on_header_field
\* takes each part for a name) is answered as any other request.
AnswersAreEarned ==
    /\ Cardinality(Whole(1)) <= 1
    /\ \A k \in DOMAIN answers :
        /\ answers[k].request = 1
        /\ ~answers[k].whole => k = 1 /\ requests[1] = "post"
    /\ Whole(1) # {} => Arrived(1)
    /\ Arrived(1) /\ 1 \notin shared /\ ~closed =>
        Whole(1) # {} \/ (requests[1] = "upgrade" /\ serviceType = "ws")

\* What a WebSocketService is told makes sense to it: the opening, the
\* messages, the end, each where it belongs, the end once for every
\* connection that was opened. Only a 101 that could not be sent is an end
\* without an opening.
WsLifecycle ==
    /\ \A k \in DOMAIN calls :
        /\ calls[k] = "onopen" => k = 1
        /\ calls[k] = "onmessage" => k > 1 /\ calls[1] = "onopen"
        /\ calls[k] = "onclose" => k = Len(calls) /\ closed
    /\ closed /\ serviceType = "ws" => calls[Len(calls)] = "onclose"
    /\ serviceType = "ws" /\ calls[1] = "onclose" => fault /\ frames = <<>>

\* However the reads cut them, and whichever of the two functions has built
\* them, the frames are given on one by one, whole and in order, and between
\* two reads what is left in the buffer is less than a frame.
FramesArriveWhole ==
    LET count == Len(delivered)
    IN  /\ count <= Len(frames)
        /\ \A k \in 1 .. count : delivered[k] = <<Opcode[frames[k].op], frames[k].len>>
        /\ ~closed => base = Start(count + 1)
        /\ ~parsing /\ ~closed /\ count < Len(frames) => fed < Start(count + 2)
==============================================================================
