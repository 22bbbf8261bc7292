------------------------------- MODULE Clients -------------------------------
(***************************************************************************)
(* A program with a WebSocketClient and an HttpClient that share an        *)
(* EventLoopThread: the program's thread, which calls open, send, close,   *)
(* async_send, stop and the destructor, and the thread of the loop, which  *)
(* runs the posted tasks and reads                                         *)
(* (src/src/http/WebSocketClient.cpp, HttpClient.cpp, src/src/Channel.cpp).*)
(*                                                                         *)
(* Sockets of the clients block, so connect is over when it returns. A     *)
(* step of the loop's thread is what comes between two uses of the state   *)
(* it shares with the program's.                                           *)
(***************************************************************************)
EXTENDS LoopThread, Integers, Sequences, FiniteSets

CONSTANTS
    Tasks,      \* the requests given to async_send
    MaxOpens,   \* BOUND: connections the WebSocketClient makes
    MaxFrames,  \* BOUND: frames its server sends on each
    Pings       \* whether there is a ping interval: a subset of BOOLEAN

ASSUME BoundsAreNatural == {MaxOpens, MaxFrames} \subseteq Nat
ASSUME PingsAreBoolean == Pings \subseteq BOOLEAN

VARIABLES
    ping,       \* m_pingInterVal > 0
    m_wsState,
    io,         \* m_channel's io: "none", "new", "up" or "closed"
    reading,    \* it is registered for EVENT_READ
    inbox,      \* what the server has sent and the loop has not read
    sent,       \* how much that was
    gone,       \* the server has closed
    pingTimer,  \* m_pingTimer is set
    sendBuffer, \* who filled m_sendBuffer last
    opens,      \* connections made
    appPc,      \* where the program's thread is
    loopPc,     \* where the loop's thread is
    rest,       \* frames of the read that are not given to onmessage yet
    queue,      \* the posted tasks
    task,       \* per task: where it is
    cbs,        \* ghost: calls of its callback
    calls,      \* ghost: the callbacks of this connection, in order
    failed,     \* ghost: what failed in open(): "no", "connect" or "request"
    raced,      \* the program closed or opened within a handler of the loop
    hung,       \* ghost: the program's callback closed, and the handler went on
    garbled     \* ghost: a frame was sent that the other thread had overwritten

shared == <<m_wsState, io, reading, pingTimer>>
server == <<inbox, sent, gone>>
tasks == <<queue, task, cbs>>
ghosts == <<failed, raced, hung, garbled>>
vars == <<lvars, ping, shared, server, sendBuffer, opens, appPc, loopPc, rest, tasks, calls, ghosts>>

CInit ==
    /\ LInit
    /\ ping \in Pings
    /\ m_wsState = "closed" /\ io = "none" /\ reading = FALSE
    /\ inbox = <<>> /\ sent = 0 /\ gone = FALSE
    /\ pingTimer = FALSE /\ sendBuffer = "nobody" /\ opens = 0
    /\ appPc = "idle" /\ loopPc = "idle" /\ rest = 0
    /\ queue = <<>> /\ task = [t \in Tasks |-> "new"] /\ cbs = [t \in Tasks |-> 0]
    /\ calls = <<>>
    /\ failed = "no" /\ raced = FALSE /\ hung = FALSE /\ garbled = FALSE

\* The loop's thread is in a handler of the WebSocketClient; of its channel.
InHandler == loopPc # "idle"
InChannel == loopPc \notin {"idle", "ping"}

-----------------------------------------------------------------------------
(* io_close of m_channel's io, which ends in the onclose of the channel.   *)

\* Mutant: a connection that is not open yet leaves the state as it is.
OnClose_OnlyOpened(before) ==
    /\ m_wsState' = IF m_wsState = "opened" THEN "closed" ELSE m_wsState
    /\ pingTimer' = FALSE
    /\ calls' = Append(before, "onclose")

\* m_channel->onclose; before: the callbacks so far.
OnClose(before) ==
    /\ m_wsState' = "closed" /\ pingTimer' = FALSE
    /\ calls' = Append(before, "onclose")

\* Mutant: io->closed is not looked at.
IoClose_Again(before) ==
    /\ reading' = FALSE
    /\ io' = "closed" /\ OnClose(before)

\* The whole of io_close, and nothing if another call has been there before.
IoClose(before) ==
    /\ reading' = FALSE
    /\ IF io \in {"new", "up"} THEN io' = "closed" /\ OnClose(before)
       ELSE calls' = before /\ UNCHANGED <<io, m_wsState, pingTimer>>

-----------------------------------------------------------------------------
(* The program's thread.                                                   *)

\* m_loop_thread is made by the first call that needs it.
NeedThread(next) ==
    IF initPc = "no" THEN initPc' = "new" /\ appPc' = "init" ELSE UNCHANGED initPc /\ appPc' = next

InitReturns ==
    /\ appPc = "init" /\ initPc = "done" /\ appPc' = "idle"
    /\ UNCHANGED <<lvars, ping, shared, server, sendBuffer, opens, loopPc, rest, tasks, calls, ghosts>>

\* open(), up to the connect: a channel takes the place of the last one.
Open ==
    /\ appPc = "idle" /\ m_wsState = "closed" /\ opens < MaxOpens
    /\ NeedThread("connect")
    /\ IF initPc = "no" THEN UNCHANGED <<shared, server, opens, calls, failed, raced, hung>>
       ELSE /\ m_wsState' = "connecting" /\ io' = "new" /\ reading' = FALSE
            /\ inbox' = <<>> /\ sent' = 0 /\ gone' = FALSE
            /\ opens' = opens + 1 /\ calls' = <<>> /\ failed' = "no"
            /\ raced' = (raced \/ InHandler)
            /\ UNCHANGED <<hung, pingTimer>>
    /\ UNCHANGED <<threadPc, mutex, started, signalled, deletes, quit>>
    /\ UNCHANGED <<ping, sendBuffer, loopPc, rest, tasks, garbled>>

\* startConnect: the result of io_connect is not looked at. When there is a
\* connection, onconnect is called in it, unless the peer has already gone and
\* it is closed at once.
Connect ==
    /\ appPc = "connect"
    /\ \/ /\ failed' = "connect" /\ appPc' = "idle"
          /\ UNCHANGED <<shared, calls>>
       \/ /\ io' = "up" /\ m_wsState' = "connected" /\ appPc' = "request"
          /\ UNCHANGED <<reading, pingTimer, calls, failed>>
       \/ /\ IoClose(calls) /\ appPc' = "idle"
          /\ UNCHANGED failed
    /\ UNCHANGED <<lvars, ping, server, sendBuffer, opens, loopPc, rest, tasks, raced, hung, garbled>>

\* sendHttpRequest: an io_write that fails has closed.
SendHttpRequest ==
    /\ appPc = "request" /\ appPc' = "upgrading"
    /\ \/ UNCHANGED <<shared, calls, failed>>
       \/ IoClose(calls) /\ failed' = "request"
    /\ UNCHANGED <<lvars, ping, server, sendBuffer, opens, loopPc, rest, tasks, raced, hung, garbled>>

Upgrading ==
    /\ appPc = "upgrading" /\ appPc' = "enable"
    /\ m_wsState' = "upgrading"
    /\ UNCHANGED <<lvars, ping, io, reading, pingTimer, server, sendBuffer, opens>>
    /\ UNCHANGED <<loopPc, rest, tasks, calls, ghosts>>

\* io_read_enable, as io_connect_cb ends. A closed io has no fd to register.
ReadEnable ==
    /\ appPc = "enable" /\ appPc' = "idle"
    /\ reading' = (io = "up")
    /\ UNCHANGED <<lvars, ping, m_wsState, io, pingTimer, server, sendBuffer, opens>>
    /\ UNCHANGED <<loopPc, rest, tasks, calls, ghosts>>

\* send(): buildFrame, then sendData, which may fail and close.
Send ==
    /\ \/ /\ appPc = "idle" /\ m_wsState = "opened"
          /\ appPc' = "send" /\ sendBuffer' = "app"
          /\ UNCHANGED <<shared, calls, raced, garbled>>
       \/ /\ appPc = "send" /\ appPc' = "idle"
          /\ garbled' = (garbled \/ sendBuffer # "app")
          /\ \/ UNCHANGED <<shared, calls, raced>>
             \/ IoClose(calls) /\ raced' = (raced \/ (InChannel /\ io = "up"))
          /\ UNCHANGED sendBuffer
    /\ UNCHANGED <<lvars, ping, server, opens, loopPc, rest, tasks, failed, hung>>

\* close(), and the destructor, which also deletes the loop's thread.
CloseOrDelete ==
    /\ appPc = "idle" /\ io # "none"
    /\ IoClose(calls) /\ raced' = (raced \/ (InChannel /\ io = "up"))
    /\ appPc' \in {"close", "join"}
    /\ UNCHANGED <<lvars, ping, server, sendBuffer, opens, loopPc, rest, tasks, failed, hung, garbled>>

CloseReturns ==
    /\ appPc = "close" /\ appPc' = "idle"
    /\ m_wsState' = "closed"
    /\ UNCHANGED <<lvars, ping, io, reading, pingTimer, server, sendBuffer, opens>>
    /\ UNCHANGED <<loopPc, rest, tasks, calls, ghosts>>

\* ~EventLoopThread: the loop is not told to stop.
Join ==
    /\ appPc = "join" /\ threadPc = "ended" /\ appPc' = "end"
    /\ UNCHANGED <<lvars, ping, shared, server, sendBuffer, opens, loopPc, rest, tasks, calls, ghosts>>

AsyncSend(t) ==
    /\ appPc = "idle" /\ task[t] = "new"
    /\ NeedThread("idle")
    /\ IF initPc = "no" THEN UNCHANGED <<queue, task>>
       ELSE queue' = Append(queue, t) /\ task' = [task EXCEPT ![t] = "posted"]
    /\ UNCHANGED <<threadPc, mutex, started, signalled, deletes, quit>>
    /\ UNCHANGED <<ping, shared, server, sendBuffer, opens, loopPc, rest, cbs, calls, ghosts>>

-----------------------------------------------------------------------------
(* The servers.                                                            *)

\* The answer to the request, then frames: "accept" is a 101 with its accept
\* header, whose name is not cut by a read; "refuse" any other response, and
\* what does not parse.
ServerSends ==
    /\ io = "up" /\ ~gone
    /\ \/ /\ sent = 0 /\ failed = "no" /\ appPc \notin {"connect", "request"}
          /\ \E answer \in {"accept", "refuse"} : inbox' = <<answer>>
       \/ /\ sent > 0 /\ sent <= MaxFrames
          /\ inbox' = Append(inbox, "frame")
    /\ sent' = sent + 1
    /\ UNCHANGED <<lvars, ping, shared, gone, sendBuffer, opens, appPc, loopPc, rest, tasks, calls, ghosts>>

ServerCloses ==
    /\ io = "up" /\ ~gone /\ gone' = TRUE
    /\ UNCHANGED <<lvars, ping, shared, inbox, sent, sendBuffer, opens, appPc, loopPc, rest, tasks, calls, ghosts>>

\* The HTTP server answers, in whole or with the body in a later segment; or
\* with what does not parse; or closes. A request that was not sent is not answered.
HttpServerActs(t) ==
    /\ \/ task[t] = "asked" /\ \E a \in {"whole", "head", "garbage", "gone"} : task' = [task EXCEPT ![t] = a]
       \/ task[t] = "silent" /\ task' = [task EXCEPT ![t] = "gone"]
    /\ UNCHANGED <<lvars, ping, shared, server, sendBuffer, opens, appPc, loopPc, rest, queue, cbs, calls, ghosts>>

-----------------------------------------------------------------------------
(* The loop's thread: the WebSocketClient.                                 *)

LoopIdle == threadPc = "run" /\ loopPc = "idle"

Loop == UNCHANGED <<lvars, ping, gone, sent, opens, appPc, tasks, failed>>

\* on_read, with all that has come. Before the request is sent nothing is
\* registered; what comes in another state than these two is dropped.
OnRead ==
    /\ LoopIdle /\ reading /\ inbox # <<>>
    /\ inbox' = <<>>
    /\ \/ /\ m_wsState = "upgrading" /\ inbox[1] = "accept"
          /\ loopPc' = "accepted" /\ rest' = Len(inbox) - 1
       \/ /\ m_wsState = "upgrading" /\ inbox[1] # "accept"
          /\ loopPc' = "close" /\ rest' = 0
       \/ /\ m_wsState = "opened"
          /\ loopPc' = "feed" /\ rest' = Len(inbox)
       \/ /\ m_wsState \notin {"upgrading", "opened"}
          /\ UNCHANGED <<loopPc, rest>>
    /\ Loop /\ UNCHANGED <<shared, sendBuffer, calls, raced, hung, garbled>>

OnReadEnd ==
    /\ LoopIdle /\ reading /\ inbox = <<>> /\ gone
    /\ loopPc' = "close"
    /\ Loop /\ UNCHANGED <<shared, inbox, sendBuffer, rest, calls, raced, hung, garbled>>

\* io_close in the loop's thread, up to where io->closed is set, then its
\* close_cb; after that the program's thread can see that it is closed.
Closing ==
    /\ loopPc = "close"
    /\ reading' = FALSE
    /\ loopPc' = IF io = "up" THEN "onclose" ELSE "idle"
    /\ io' = IF io = "up" THEN "closed" ELSE io
    /\ Loop /\ UNCHANGED <<m_wsState, pingTimer, inbox, sendBuffer, rest, calls, raced, hung, garbled>>

ClosingCallback ==
    /\ loopPc = "onclose" /\ loopPc' = "closed"
    /\ OnClose(calls)
    /\ Loop /\ UNCHANGED <<io, reading, inbox, sendBuffer, rest, raced, hung, garbled>>

Closed ==
    /\ loopPc = "closed" /\ loopPc' = "idle"
    /\ Loop /\ UNCHANGED <<shared, inbox, sendBuffer, rest, calls, raced, hung, garbled>>

Opened ==
    /\ loopPc = "accepted" /\ loopPc' = "onopen"
    /\ m_wsState' = "opened"
    /\ Loop /\ UNCHANGED <<io, reading, pingTimer, inbox, sendBuffer, rest, calls, raced, hung, garbled>>

\* A callback of the program, which may call close() in it. The handler goes on.
Callback(name) ==
    \/ calls' = Append(calls, name) /\ UNCHANGED <<shared, hung>>
    \/ IoClose(Append(calls, name)) /\ hung' = TRUE

OnOpen ==
    /\ loopPc = "onopen" /\ loopPc' = "timer"
    /\ Callback("onopen")
    /\ Loop /\ UNCHANGED <<inbox, sendBuffer, rest, raced, garbled>>

AddPingTimer ==
    /\ loopPc = "timer"
    /\ pingTimer' = (ping \/ pingTimer)
    /\ loopPc' = IF m_wsState = "opened" THEN "feed" ELSE "idle"
    /\ Loop /\ UNCHANGED <<m_wsState, io, reading, inbox, sendBuffer, rest, calls, raced, hung, garbled>>

\* A turn of WebSocketParser::feedRecvData: every frame is a message.
Feed ==
    /\ loopPc = "feed"
    /\ IF rest = 0 THEN loopPc' = "idle" /\ UNCHANGED <<rest, shared, calls, hung>>
       ELSE Callback("onmessage") /\ rest' = rest - 1 /\ UNCHANGED loopPc
    /\ Loop /\ UNCHANGED <<inbox, sendBuffer, raced, garbled>>

\* The ping timer: send() in the loop's thread.
Ping ==
    /\ \/ /\ LoopIdle /\ pingTimer /\ m_wsState = "opened"
          /\ loopPc' = "ping" /\ sendBuffer' = "loop"
          /\ UNCHANGED garbled
       \/ /\ loopPc = "ping"
          /\ garbled' = (garbled \/ sendBuffer # "loop")
          /\ loopPc' \in {"idle", "close"}
          /\ UNCHANGED sendBuffer
    /\ Loop /\ UNCHANGED <<shared, inbox, rest, calls, raced, hung>>

-----------------------------------------------------------------------------
(* The loop's thread: the HttpClient.                                      *)

Http == UNCHANGED <<lvars, ping, shared, server, sendBuffer, opens, appPc, loopPc, rest, calls, ghosts>>

\* doTask: the connect may fail, and nobody is told; the request may be too
\* late, and is not sent; or sending it fails, and onclose removes the channel.
DoTask ==
    /\ LoopIdle /\ queue # <<>>
    /\ queue' = Tail(queue)
    /\ \E to \in {"unconnected", "silent", "asked", "removed"} :
        task' = [task EXCEPT ![Head(queue)] = to]
    /\ UNCHANGED cbs /\ Http

\* Mutant: the channel is kept for another response.
HttpOnRead_KeepsChannel(t) ==
    /\ LoopIdle
    /\ \/ /\ task[t] = "head"
          /\ cbs' = [cbs EXCEPT ![t] = @ + 1]
          /\ task' = [task EXCEPT ![t] = "whole"]
       \/ /\ task[t] = "whole"
          /\ cbs' = [cbs EXCEPT ![t] = @ + 1]
          /\ task' = [task EXCEPT ![t] = "removed"]
       \/ /\ task[t] \in {"garbage", "gone"}
          /\ task' = [task EXCEPT ![t] = "removed"]
          /\ UNCHANGED cbs
    /\ UNCHANGED queue /\ Http

\* onread: the callback, as soon as the headers are there, and the end of the
\* connection, or only that.
HttpOnRead(t) ==
    /\ LoopIdle
    /\ \/ /\ task[t] \in {"whole", "head"}
          /\ cbs' = [cbs EXCEPT ![t] = @ + 1]
       \/ /\ task[t] \in {"garbage", "gone"}
          /\ UNCHANGED cbs
    /\ task' = [task EXCEPT ![t] = "removed"]
    /\ UNCHANGED queue /\ Http

-----------------------------------------------------------------------------
OfApp ==
    \/ InitReturns \/ Open \/ Connect \/ SendHttpRequest \/ Upgrading \/ ReadEnable
    \/ Send \/ CloseOrDelete \/ CloseReturns \/ Join
    \/ \E t \in Tasks : AsyncSend(t)

OfServers == ServerSends \/ ServerCloses \/ \E t \in Tasks : HttpServerActs(t)

OfLoop ==
    \/ OnRead \/ OnReadEnd \/ Closing \/ ClosingCallback \/ Closed
    \/ Opened \/ OnOpen \/ AddPingTimer \/ Feed \/ Ping
    \/ DoTask \/ \E t \in Tasks : HttpOnRead(t)

OfThread ==
    /\ LNext \/ (Stop /\ appPc = "idle") \/ (ThreadEnd /\ loopPc = "idle")
    /\ UNCHANGED <<ping, shared, server, sendBuffer, opens, appPc, loopPc, rest, tasks, calls, ghosts>>

\* What is deleted twice ends the program, and after a race nothing is claimed.
CNext == deletes < 2 /\ ~raced /\ (OfApp \/ OfServers \/ OfLoop \/ OfThread)

CSpec == CInit /\ [][CNext]_vars

\* The loop's thread runs, and a pass handles everything that is there, so a
\* task and a response have their turn; servers answer or close.
Fairness ==
    /\ WF_vars(OfLoop)
    /\ SF_vars(DoTask)
    /\ \A t \in Tasks : SF_vars(HttpOnRead(t)) /\ WF_vars(HttpServerActs(t))

FairSpec == CSpec /\ Fairness

-----------------------------------------------------------------------------
(* Properties.                                                             *)

\* What the program can read off a WebSocketClient when no thread is in it is
\* true: it is opened while its connection is up and was announced, waits for
\* an upgrade that has not been answered, or is closed. The exceptions are
\* named: it stays "connecting" when the connect has failed and "upgrading"
\* when the request could not be sent, for ever; and all of it may be untrue
\* once the program has closed or opened while the loop's thread was in a
\* handler.
ClientStateIsTrue ==
    appPc = "idle" /\ loopPc = "idle" /\ ~raced =>
        /\ m_wsState = "connecting" <=> failed = "connect" /\ io = "new"
        /\ m_wsState = "upgrading" =>
            \/ io = "up" /\ calls = <<>> /\ (sent > 0 => inbox # <<>>)
            \/ failed = "request" /\ io = "closed"
        /\ m_wsState = "opened" => io = "up" /\ calls # <<>> /\ calls[1] = "onopen"
        /\ m_wsState # "connected"
        /\ pingTimer => m_wsState = "opened" \/ hung
        /\ garbled => ping

\* The program hears of a connection's end once, and of nothing after it but
\* the messages of the read in which it closed the connection itself.
EndIsLast ==
    ~raced =>
        /\ Cardinality({k \in DOMAIN calls : calls[k] = "onclose"}) <= 1
        /\ \A k \in DOMAIN calls : calls[k] = "onopen" => k = 1
        /\ ~hung => \A k \in DOMAIN calls : calls[k] = "onclose" => k = Len(calls)

\* A request that is given to async_send is over one day, unless the loop is
\* stopped: its callback is called, or its connect, its sending or its answer
\* has failed; and the callback is not called twice.
TaskEndsOnce ==
    /\ [](\A t \in Tasks : cbs[t] <= 1)
    /\ \A t \in Tasks : task[t] = "posted" ~> task[t] \in {"removed", "unconnected"} \/ quit \/ deletes > 1 \/ raced
==============================================================================
