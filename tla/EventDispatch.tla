---------------------------- MODULE EventDispatch ----------------------------
(***************************************************************************)
(* One loop and the connections it watches: what the back end reports      *)
(* (Dispatchers), the list of pending events, handle_event, and io_array,  *)
(* in which get_io puts the io of a new fd (src/src/event_loop.c, io.c,    *)
(* event.c). A second thread creates and closes connections of this loop,  *)
(* as io_accept_cb of the main loop, create_tcp_client and io_close do.    *)
(* The kernel gives out the fd of a closed connection again.               *)
(*                                                                         *)
(* What is sent and received, and its locks, are in IoConn; here a         *)
(* connection has something to read or not, and io_write is the case that  *)
(* leaves something in the buffer.                                         *)
(***************************************************************************)
EXTENDS Dispatchers, FiniteSets

CONSTANTS
    MaxIo,      \* BOUND: connections ever made, by the loop alone
    MaxShared,  \* BOUND: connections ever made, with the second thread
    MaxFd,      \* BOUND: fds are 1 .. MaxFd
    BackEnd     \* the back ends to look at, of BackEnds

ASSUME BoundsArePositive == {MaxIo, MaxFd} \subseteq Nat \ {0} /\ MaxShared \in 1 .. MaxIo
ASSUME KnownBackEnds == BackEnd \subseteq BackEnds

Io == 1 .. MaxIo
Fd == 1 .. MaxFd
NoFd == 0
NoIo == 0

VARIABLES
    shared,     \* whether the second thread does anything
    kind,       \* loop->disp
    table,      \* its table
    made,       \* get_io has returned the ios 1 .. made
    fd,         \* io->fd; NoFd: not made yet, or -1
    cb,         \* io->cb; "none": NULL
    events,     \* io->events
    revents,    \* io->revents
    pending,    \* io->pending
    closed,     \* io->closed
    connect,    \* io->connect
    io_array,   \* loop->io_array
    peer,       \* kernel: "none", "syn" (no answer yet), "up", "gone"
    unread,     \* kernel: there is something to read
    report,     \* what epoll_wait, poll or select returned, with the owner
                \* of each fd at that moment
    list,       \* the events of loop->pending
    cur,        \* the io that process_pending_event is at
    pc,         \* where the loop is
    after,      \* what follows the program's callback
    otherPc,    \* where the second thread is, and the io it is about
    otherIo,
    raced,      \* ghost: ios that were given the report of another one or of a
                \* stale fd, or that io_read_enable found closed
    stale       \* ghost: fds registered by io_read_enable on a closed io

ios == <<made, fd, cb, events, revents, pending, closed, connect>>
kernel == <<peer, unread>>
setting == <<shared, kind>>
other == <<otherPc, otherIo>>
vars == <<setting, table, ios, io_array, kernel, report, list, cur, pc, after,
          other, raced, stale>>

Init ==
    /\ shared \in BOOLEAN /\ kind \in BackEnd
    /\ table = <<>>
    /\ made = 0
    /\ fd = [i \in Io |-> NoFd]
    /\ cb = [i \in Io |-> "none"]
    /\ events = [i \in Io |-> {}]
    /\ revents = [i \in Io |-> {}]
    /\ pending = [i \in Io |-> FALSE]
    /\ closed = [i \in Io |-> FALSE]
    /\ connect = [i \in Io |-> FALSE]
    /\ io_array = [f \in Fd |-> NoIo]
    /\ peer = [i \in Io |-> "none"]
    /\ unread = [i \in Io |-> FALSE]
    /\ report = <<>> /\ list = <<>> /\ cur = NoIo
    /\ pc = "wait" /\ after = "done"
    /\ otherPc = "idle" /\ otherIo = NoIo
    /\ raced = {} /\ stale = {}

OpenFds == {fd[i] : i \in Io} \ {NoFd}

OwnerOf(f) == CHOOSE i \in Io : fd[i] = f

\* The kernel has data of the peer, or its end or refusal.
Readable(i) == unread[i] \/ peer[i] = "gone"

-----------------------------------------------------------------------------
(* Operations both threads use.                                            *)

\* get_io for an fd the kernel has just given out.
GetIo(f, state) ==
    /\ made < (IF shared THEN MaxShared ELSE MaxIo) /\ f \notin OpenFds
    /\ made' = made + 1
    /\ fd' = [fd EXCEPT ![made + 1] = f]
    /\ io_array' = [io_array EXCEPT ![f] = made + 1]
    /\ peer' = [peer EXCEPT ![made + 1] = state]
    /\ UNCHANGED <<revents, pending, closed, unread>>

\* io_add. The fd of a closed io is -1, which epoll and poll refuse.
IoAdd(i, f, callback, e) ==
    /\ cb' = [cb EXCEPT ![i] = callback]
    /\ events' = [events EXCEPT ![i] = @ \cup {e}]
    /\ table' = IF e \in events[i] \/ f = NoFd THEN table
                ELSE AddEvent(kind, table, f, e)

\* The table after io_del of an event, and of both.
Deleted(t, i, e) == IF e \in events[i] THEN DelEvent(kind, t, fd[i], e) ELSE t

DeletedBoth(i) == Deleted(Deleted(table, i, "read"), i, "write")

IoDel(i, e) ==
    /\ events' = [events EXCEPT ![i] = @ \ {e}]
    /\ table' = Deleted(table, i, e)

\* close(2): nothing is read from the fd any more.
CloseSocket(i) ==
    /\ fd' = [fd EXCEPT ![i] = NoFd]
    /\ peer' = [peer EXCEPT ![i] = "none"]
    /\ unread' = [unread EXCEPT ![i] = FALSE]

\* Mutant: io->events is not cleared.
IoClose_KeepsEvents(i) ==
    /\ closed' = [closed EXCEPT ![i] = TRUE]
    /\ table' = CloseFd(kind, DeletedBoth(i), fd[i])
    /\ CloseSocket(i)
    /\ UNCHANGED events

\* io_close of an open connection in the loop's thread.
IoClose(i) ==
    /\ closed' = [closed EXCEPT ![i] = TRUE]
    /\ events' = [events EXCEPT ![i] = {}]
    /\ table' = CloseFd(kind, DeletedBoth(i), fd[i])
    /\ CloseSocket(i)

-----------------------------------------------------------------------------
(* The program: callbacks of this loop's connections ("user"), of its      *)
(* timers and of posted functions ("wait").                                *)

InUserCode == pc \in {"user", "wait"}

\* io_close, from a callback of any connection.
Close(i) ==
    /\ InUserCode /\ i <= made /\ ~closed[i] /\ cb[i] # "none"
    /\ IoClose(i)
    /\ UNCHANGED <<setting, made, cb, revents, pending, connect, io_array, report, list,
                   cur, pc, after, other, raced, stale>>

\* io_accept_cb for a loop without workers.
Accept(f) ==
    /\ InUserCode
    /\ GetIo(f, "up")
    /\ cb' = [cb EXCEPT ![made + 1] = "handle_event"]
    /\ events' = [events EXCEPT ![made + 1] = {"read"}]
    /\ table' = AddEvent(kind, table, f, "read")
    /\ UNCHANGED <<setting, connect, report, list, cur, pc, after, other, raced, stale>>

\* create_tcp_client.
Connect(f) ==
    /\ InUserCode
    /\ GetIo(f, "syn")
    /\ connect' = [connect EXCEPT ![made + 1] = TRUE]
    /\ cb' = [cb EXCEPT ![made + 1] = "handle_event"]
    /\ events' = [events EXCEPT ![made + 1] = {"write"}]
    /\ table' = AddEvent(kind, table, f, "write")
    /\ UNCHANGED <<setting, report, list, cur, pc, after, other, raced, stale>>

\* An io_write that the socket does not take whole.
WriteRest(i) ==
    /\ InUserCode /\ fd[i] # NoFd /\ ~closed[i]
    /\ peer[i] = "up" /\ ~connect[i] /\ "write" \notin events[i] /\ cb[i] # "none"
    /\ IoAdd(i, fd[i], "io_write_cb", "write")
    /\ UNCHANGED <<setting, made, fd, revents, pending, closed, connect, io_array,
                   kernel, report, list, cur, pc, after, other, raced, stale>>

Return ==
    /\ pc = "user" /\ pc' = after
    /\ UNCHANGED <<setting, table, ios, io_array, kernel, report, list, cur, after,
                   other, raced, stale>>

-----------------------------------------------------------------------------
(* One pass of the loop.                                                   *)

\* What the kernel finds, when the sockets in room can take data.
Ready(room) ==
    [f \in Fd |->
        IF f \notin OpenFds THEN {}
        ELSE LET i == OwnerOf(f)
             IN  (IF Readable(i) THEN {"read"} ELSE {})
                 \cup (IF f \in room \/ peer[i] = "gone" THEN {"write"} ELSE {})]

\* The back end waits. What is reported is there when it returns.
Wait ==
    /\ pc = "wait"
    /\ \E room \in SUBSET {f \in OpenFds : peer[OwnerOf(f)] = "up"} :
        \E found \in Reports(kind, table, Ready(room)) :
            /\ report' = IF IsBlind(kind, table, OpenFds) THEN <<>>
                         ELSE [k \in DOMAIN found |->
                                 [fd |-> found[k].fd, evs |-> found[k].evs,
                                  owner |-> OwnerOf(found[k].fd)]]
            /\ pc' = IF report' = <<>> THEN "wait" ELSE "report"
    /\ UNCHANGED <<setting, table, ios, io_array, kernel, list, cur, after, other,
                   raced, stale>>

\* One turn of the loop over the reports: io_array[fd] gets the event, and
\* event_pending puts it at the head of the list if it is not in it.
Mark(i, evs) ==
    /\ revents' = [revents EXCEPT ![i] = evs]
    /\ pending' = [pending EXCEPT ![i] = TRUE]
    /\ list' = IF pending[i] THEN list ELSE <<i>> \o list

Report ==
    /\ pc = "report"
    /\ LET hit == Head(report)
           i == io_array[hit.fd]
       IN  /\ Mark(i, hit.evs)
           /\ raced' = IF i = hit.owner /\ hit.fd \notin stale THEN raced
                       ELSE raced \cup {i}
    /\ report' = Tail(report)
    /\ pc' = IF report' = <<>> THEN "pass" ELSE "report"
    /\ UNCHANGED <<setting, table, made, fd, cb, events, closed, connect, io_array,
                   kernel, cur, after, other, stale>>

\* Mutant: the event stays marked as pending.
Unmark_KeepsMark(i) ==
    /\ revents' = [revents EXCEPT ![i] = {}]
    /\ UNCHANGED pending

\* process_pending_event leaves the event i. From here its revents are not
\* looked at before they are written again.
Unmark(i) ==
    /\ pending' = [pending EXCEPT ![i] = FALSE]
    /\ revents' = [revents EXCEPT ![i] = {}]

IsReported(i, e) == e \in events[i] /\ e \in revents[i]

\* process_pending_event goes to the next event: handle_event, of which this
\* is the half for writing, or io_write_cb, which only sends what is buffered.
\* An event without a callback stays marked as pending.
Take ==
    /\ pc = "pass" /\ list # <<>>
    /\ list' = Tail(list)
    /\ LET i == Head(list)
       IN  \/ /\ cb[i] = "none"
              /\ UNCHANGED <<table, ios, io_array, kernel, cur, pc, after>>
           \/ /\ cb[i] = "io_write_cb"
              /\ Unmark(i)
              /\ UNCHANGED <<table, made, fd, cb, events, closed, connect, io_array,
                             kernel, cur, pc, after>>
           \/ /\ cb[i] = "handle_event" /\ ~(IsReported(i, "write") /\ connect[i])
              /\ cur' = i /\ pc' = "read"
              /\ UNCHANGED <<table, ios, io_array, kernel, after>>
           \/ /\ cb[i] = "handle_event" /\ IsReported(i, "write") /\ connect[i]
              /\ cur' = i
              /\ connect' = [connect EXCEPT ![i] = FALSE]
              /\ IF peer[i] = "up"
                 THEN /\ IoDel(i, "write")
                      /\ pc' = "user" /\ after' = "enable"
                      /\ UNCHANGED <<fd, closed, kernel>>
                 ELSE /\ IoClose(i)
                      /\ pc' = "read" /\ UNCHANGED after
              /\ UNCHANGED <<made, cb, revents, pending, io_array>>
    /\ UNCHANGED <<setting, report, other, raced, stale>>

EndPass ==
    /\ pc = "pass" /\ list = <<>> /\ pc' = "wait"
    /\ UNCHANGED <<setting, table, ios, io_array, kernel, report, list, cur, after,
                   other, raced, stale>>

\* io_connect_cb after the program's connect_cb, which may have closed the io.
ReadEnable ==
    /\ pc = "enable" /\ pc' = "read"
    /\ IoAdd(cur, fd[cur], "handle_event", "read")
    /\ stale' = IF closed[cur] THEN stale \cup ({fd[cur]} \ {NoFd}) ELSE stale
    /\ raced' = IF closed[cur] THEN raced \cup {cur} ELSE raced
    /\ UNCHANGED <<setting, made, fd, revents, pending, closed, connect, io_array,
                   kernel, report, list, cur, after, other>>

\* The half for reading: io_read_cb reads all there is and calls the program,
\* finds nothing (EAGAIN; an error if the fd is -1), or the end.
ReadSome ==
    /\ pc = "read" /\ IsReported(cur, "read")
    /\ fd[cur] # NoFd /\ unread[cur]
    /\ unread' = [unread EXCEPT ![cur] = FALSE]
    /\ pc' = "user" /\ after' = "done"
    /\ UNCHANGED <<setting, table, ios, io_array, peer, report, list, cur, other,
                   raced, stale>>

ReadNothing ==
    /\ pc = "read" /\ IsReported(cur, "read")
    /\ ~unread[cur] /\ (peer[cur] = "gone" => closed[cur])
    /\ Unmark(cur) /\ cur' = NoIo /\ pc' = "pass"
    /\ UNCHANGED <<setting, table, made, fd, cb, events, closed, connect, io_array,
                   kernel, report, list, after, other, raced, stale>>

ReadEnd ==
    /\ pc = "read" /\ IsReported(cur, "read")
    /\ ~unread[cur] /\ peer[cur] = "gone" /\ ~closed[cur]
    /\ IoClose(cur)
    /\ Unmark(cur) /\ cur' = NoIo /\ pc' = "pass"
    /\ UNCHANGED <<setting, made, cb, connect, io_array, report, list, after, other, raced, stale>>

\* Back in process_pending_event, from the program or without a read.
Done ==
    /\ pc = "done" \/ (pc = "read" /\ ~IsReported(cur, "read"))
    /\ Unmark(cur) /\ cur' = NoIo /\ pc' = "pass" /\ after' = "done"
    /\ UNCHANGED <<setting, table, made, fd, cb, events, closed, connect, io_array,
                   kernel, report, list, other, raced, stale>>

-----------------------------------------------------------------------------
(* The second thread.                                                      *)

\* get_io in io_accept_cb, with this loop as the next one, or in
\* create_tcp_client.
OtherGetIo(f) ==
    /\ shared /\ otherPc = "idle"
    /\ \/ GetIo(f, "up") /\ otherPc' = "accepted"
       \/ GetIo(f, "syn") /\ otherPc' = "connecting"
    /\ otherIo' = made + 1
    /\ UNCHANGED <<setting, table, cb, events, connect, report, list, cur, pc, after,
                   raced, stale>>

\* The io_add that follows.
OtherAdd ==
    /\ otherPc \in {"accepted", "connecting"}
    /\ IF otherPc = "accepted"
       THEN /\ IoAdd(otherIo, fd[otherIo], "handle_event", "read")
            /\ UNCHANGED connect
       ELSE /\ IoAdd(otherIo, fd[otherIo], "handle_event", "write")
            /\ connect' = [connect EXCEPT ![otherIo] = TRUE]
    /\ otherPc' = "idle" /\ otherIo' = NoIo
    /\ UNCHANGED <<setting, made, fd, revents, pending, closed, io_array, kernel,
                   report, list, cur, pc, after, raced, stale>>

\* io_close: the flag, the two io_del, close.
OtherClose(i) ==
    /\ shared /\ otherPc = "idle"
    /\ i <= made /\ ~closed[i] /\ cb[i] # "none"
    /\ closed' = [closed EXCEPT ![i] = TRUE]
    /\ otherPc' = "delete" /\ otherIo' = i
    /\ UNCHANGED <<setting, table, made, fd, cb, events, revents, pending, connect,
                   io_array, kernel, report, list, cur, pc, after, raced, stale>>

OtherDelete ==
    /\ otherPc = "delete" /\ otherPc' = "close"
    /\ events' = [events EXCEPT ![otherIo] = {}]
    /\ table' = DeletedBoth(otherIo)
    /\ UNCHANGED <<setting, made, fd, cb, revents, pending, closed, connect, io_array,
                   kernel, report, list, cur, pc, after, otherIo, raced, stale>>

OtherCloseFd ==
    /\ otherPc = "close" /\ otherPc' = "idle" /\ otherIo' = NoIo
    /\ table' = CloseFd(kind, table, fd[otherIo])
    /\ CloseSocket(otherIo)
    /\ UNCHANGED <<setting, made, cb, events, revents, pending, closed, connect,
                   io_array, report, list, cur, pc, after, raced, stale>>

-----------------------------------------------------------------------------
(* The peers.                                                              *)

PeerAnswers(i) ==
    /\ i <= made /\ fd[i] # NoFd /\ peer[i] = "syn"
    /\ \E answer \in {"up", "gone"} : peer' = [peer EXCEPT ![i] = answer]
    /\ UNCHANGED <<setting, table, ios, io_array, unread, report, list, cur, pc, after,
                   other, raced, stale>>

PeerSends(i) ==
    /\ i <= made /\ fd[i] # NoFd /\ peer[i] = "up" /\ ~unread[i]
    /\ unread' = [unread EXCEPT ![i] = TRUE]
    /\ UNCHANGED <<setting, table, ios, io_array, peer, report, list, cur, pc, after,
                   other, raced, stale>>

PeerCloses(i) ==
    /\ i <= made /\ fd[i] # NoFd /\ peer[i] = "up" /\ ~connect[i]
    /\ peer' = [peer EXCEPT ![i] = "gone"]
    /\ UNCHANGED <<setting, table, ios, io_array, unread, report, list, cur, pc, after,
                   other, raced, stale>>

LoopStep ==
    \/ Return \/ Wait \/ Report \/ Take \/ EndPass
    \/ ReadEnable \/ ReadSome \/ ReadEnd \/ ReadNothing \/ Done

OtherStep == OtherAdd \/ OtherDelete \/ OtherCloseFd

Next ==
    \/ LoopStep \/ OtherStep
    \/ \E i \in Io : \/ Close(i) \/ WriteRest(i) \/ OtherClose(i)
                    \/ PeerAnswers(i) \/ PeerSends(i) \/ PeerCloses(i)
    \/ \E f \in Fd : Accept(f) \/ Connect(f) \/ OtherGetIo(f)

Spec == Init /\ [][Next]_vars

-----------------------------------------------------------------------------
(* Properties.                                                             *)

\* An event marked as pending is in the list, once, or is the one being
\* handled: event_pending would never list it again. The exception is an io
\* that was given the report of the fd's former owner between get_io and
\* io_add, when it has no callback yet.
MarkedIsListed ==
    /\ \A k, l \in DOMAIN list : list[k] = list[l] => k = l
    /\ \A i \in Io : pending[i] => \/ i \in ToSet(list)
                                  \/ i = cur
                                  \/ i \in raced
    /\ cur # NoIo => cur \notin ToSet(list)

\* io_read_cb runs only for a connection that is open and has something to
\* read, and a connection attempt ends only when the peer has answered: no io
\* gets an event that was another's, although fds are given out again and
\* callbacks close connections whose events are pending. Only an io made by
\* another thread, while reports for its fd were on their way, is not safe.
OwnEventsOnly ==
    [][/\ ReadSome \/ ReadNothing \/ ReadEnd =>
            cur \in raced \/ (fd[cur] # NoFd /\ Readable(cur))
       /\ \A i \in Io : connect[i] /\ ~connect'[i] =>
            i \in raced \/ peer[i] # "syn"]_vars

\* What the back end watches is what the ios ask for. epoll watches for less
\* once two events were added; an fd of nobody is watched only after a race of
\* io_read_enable with io_close.
WatchedAsAsked ==
    \A f \in Fd \ stale :
        LET asked == IF f \in OpenFds THEN events[OwnerOf(f)] ELSE {}
            got == Watched(table, f)
        IN  /\ got \subseteq asked
            /\ IF kind = "epoll" THEN got = {} => asked = {} ELSE got = asked
            /\ Cardinality(EntriesOf(table, f)) <= Cardinality(asked)
==============================================================================
