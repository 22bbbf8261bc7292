------------------------------- MODULE IoConn -------------------------------
(***************************************************************************)
(* One connection (src/src/io.c, io_close of src/src/event_loop.c) between *)
(* the loop's thread, which handles its events, and other threads, which   *)
(* call io_send_data and io_close: the write buffer under write_mutex, the *)
(* registration with epoll, and the end of the connection.                 *)
(*                                                                         *)
(* A byte is a number: the bytes of the calls that io_write takes on are   *)
(* numbered 1, 2, 3, ... in the order of its critical sections.            *)
(* A change of io->events is taken to be one step.                         *)
(***************************************************************************)
EXTENDS Integers, Sequences

CONSTANTS
    Sender,     \* the threads other than the loop's
    Loop,       \* the loop's thread
    Nobody,     \* no thread
    Roles,      \* which ends of a connection: "client", "server"
    Protocols,  \* "tcp", "ssl"
    Lengths,    \* BOUND: the lengths of the messages
    BufSize,    \* write_buf->maxSize
    SockCap,    \* BOUND: bytes the kernel takes before the peer reads
    MaxBytes,   \* BOUND: bytes ever given to io_write
    MaxIn,      \* BOUND: messages the peer sends
    ReadSize,   \* messages that fill read_buf
    CanReset    \* whether the peer may reset the connection

Thread == Sender \cup {Loop}

ASSUME LoopIsNoSender == Loop \notin Sender
ASSUME NobodyIsNoThread == Nobody \notin Thread
ASSUME SizesAreNatural ==
    /\ {BufSize, SockCap, MaxBytes, MaxIn} \subseteq Nat /\ ReadSize \in Nat \ {0}
    /\ Lengths \subseteq Nat \ {0}

VARIABLES
    protocol,   \* io->type
    connecting, \* io->connect
    closed,     \* io->closed
    freed,      \* free_io has run: no buffers, and write_mutex destroyed
    events,     \* io->events
    revents,    \* io->revents
    cb,         \* io->cb
    epoll,      \* the events the fd is registered for; {}: not registered
    fdOpen,     \* io->fd is open
    mutex,      \* holder of write_mutex
    wbuf,       \* the bytes from head to tail of write_buf
    tail,       \* write_buf->tail
    accepted,   \* ghost: bytes io_write has taken on
    wire,       \* bytes given to the socket
    unread,     \* how many of them the peer has not read
    inbox,      \* messages of the peer that are not read
    sent,       \* messages of the peer
    peer,       \* "syn" (it has not accepted), "up", "closed" or "reset"
    pc,         \* where each thread is
    home,       \* where io_write or io_close returns to
    len,        \* the length io_write was called with
    closes,     \* ghost: calls of close_cb
    closer      \* ghost: the thread that closed the connection

kernel == <<epoll, fdOpen, wire, unread, inbox, sent, peer>>
buffer == <<wbuf, tail, accepted>>
state == <<protocol, connecting, closed, freed, events, revents, cb>>
calls == <<home, len>>
ghosts == <<closes, closer>>
vars == <<state, kernel, buffer, mutex, pc, calls, ghosts>>

Init ==
    /\ protocol \in Protocols
    /\ \/ /\ "server" \in Roles
          /\ connecting = FALSE /\ events = {"read"} /\ peer = "up"
       \/ /\ "client" \in Roles /\ protocol = "tcp"
          /\ connecting = TRUE /\ events = {"write"} /\ peer = "syn"
    /\ epoll = events /\ fdOpen = TRUE
    /\ cb = "handle_event" /\ revents = {}
    /\ closed = FALSE /\ freed = FALSE
    /\ mutex = Nobody
    /\ wbuf = <<>> /\ tail = 0 /\ accepted = 0
    /\ wire = <<>> /\ unread = 0
    /\ inbox = 0 /\ sent = 0
    /\ pc = [t \in Thread |-> "idle"]
    /\ home = [t \in Thread |-> "idle"]
    /\ len = [t \in Thread |-> 0]
    /\ closes = 0 /\ closer = Nobody

Alive == pc[Loop] # "crashed"

At(t, l) == Alive /\ pc[t] = l

Goto(t, l) == pc' = [pc EXCEPT ![t] = l]

\* Once free_io has destroyed write_mutex pthread_mutex_lock fails at once and
\* its caller goes on: it finds the connection closed, or its buffer gone. A
\* mutex that is held is not destroyed.
CanLock == mutex = Nobody

Numbers(m, n) == [a \in 1 .. n - m |-> m + a]

-----------------------------------------------------------------------------
(* epoll.c: adding a registered fd fails (EEXIST), and deleting one event  *)
(* deletes the fd.                                                         *)
EpollAdd(e) == epoll' = IF fdOpen /\ epoll = {} THEN {e} ELSE epoll

IoAdd(callback, e) ==
    /\ cb' = callback
    /\ events' = events \cup {e}
    /\ IF e \in events THEN UNCHANGED epoll ELSE EpollAdd(e)

\* io_del of each event in es that is set.
IoDel(es) ==
    /\ events' = events \ es
    /\ epoll' = IF events \cap es = {} THEN epoll ELSE {}

-----------------------------------------------------------------------------
(* The program: callbacks in the loop's thread, anything in the others.    *)

\* The loop's thread is in a callback of this connection, or (idle, dispatch)
\* in one of a timer, of a posted function or of another connection.
InUserCode(t) == Alive /\ pc[t] \in {"idle", "dispatch", "on_connect", "on_read"}

\* A call of io_send_data.
Send(t, n) ==
    /\ InUserCode(t)
    /\ accepted + n <= MaxBytes /\ ~closed
    /\ Goto(t, "lock")
    /\ home' = [home EXCEPT ![t] = pc[t]]
    /\ len' = [len EXCEPT ![t] = n]
    /\ UNCHANGED <<state, kernel, buffer, mutex, ghosts>>

\* A call of io_close.
Close(t) ==
    /\ InUserCode(t)
    /\ ~closed
    /\ Goto(t, "close")
    /\ home' = [home EXCEPT ![t] = pc[t]]
    /\ UNCHANGED <<state, kernel, buffer, mutex, len, ghosts>>

-----------------------------------------------------------------------------
(* io_write.                                                               *)

\* The lock and the test of closed.
WriteLock(t) ==
    /\ At(t, "lock")
    /\ CanLock
    /\ IF closed THEN Goto(t, home[t]) /\ UNCHANGED mutex
                 ELSE Goto(t, "write") /\ mutex' = t
    /\ UNCHANGED <<state, kernel, buffer, calls, ghosts>>

\* Mutant: the size of the buffer is not tested.
WriteBehind_NoTest(t) ==
    /\ At(t, "write")
    /\ wbuf # <<>>
    /\ wbuf' = wbuf \o Numbers(accepted, accepted + len[t])
    /\ tail' = tail + len[t]
    /\ accepted' = accepted + len[t]
    /\ mutex' = Nobody /\ Goto(t, home[t])
    /\ UNCHANGED <<state, kernel, calls, ghosts>>

\* Mutant: write_mutex stays locked.
WriteBehind_NoUnlock(t) ==
    /\ At(t, "write")
    /\ wbuf # <<>> /\ tail + len[t] <= BufSize
    /\ wbuf' = wbuf \o Numbers(accepted, accepted + len[t])
    /\ tail' = tail + len[t]
    /\ accepted' = accepted + len[t]
    /\ Goto(t, home[t])
    /\ UNCHANGED <<state, kernel, mutex, calls, ghosts>>

\* Bytes are waiting: the new ones go behind them.
WriteBehind(t) ==
    /\ At(t, "write")
    /\ wbuf # <<>> /\ tail + len[t] <= BufSize
    /\ wbuf' = wbuf \o Numbers(accepted, accepted + len[t])
    /\ tail' = tail + len[t]
    /\ accepted' = accepted + len[t]
    /\ mutex' = Nobody /\ Goto(t, home[t])
    /\ UNCHANGED <<state, kernel, calls, ghosts>>

\* Mutant: io_close is called with write_mutex locked.
WriteOverflow_NoUnlock(t) ==
    /\ At(t, "write")
    /\ wbuf # <<>> /\ tail + len[t] > BufSize
    /\ Goto(t, "close")
    /\ UNCHANGED <<state, kernel, buffer, mutex, calls, ghosts>>

\* Mutant: closed is set before io_close is called.
WriteOverflow_Marks(t) ==
    /\ At(t, "write")
    /\ wbuf # <<>> /\ tail + len[t] > BufSize
    /\ closed' = TRUE
    /\ mutex' = Nobody /\ Goto(t, "close")
    /\ UNCHANGED <<protocol, connecting, freed, events, revents, cb, kernel, buffer,
                   calls, ghosts>>

\* The buffer is full: the connection is closed.
WriteOverflow(t) ==
    /\ At(t, "write")
    /\ wbuf # <<>> /\ tail + len[t] > BufSize
    /\ mutex' = Nobody /\ Goto(t, "close")
    /\ UNCHANGED <<state, kernel, buffer, calls, ghosts>>

\* What the socket takes now; nothing before it is connected (EAGAIN).
Room == IF peer = "syn" THEN 0 ELSE SockCap - unread

Transmit(bytes) ==
    /\ wire' = wire \o bytes
    /\ unread' = unread + Len(bytes)
    /\ UNCHANGED <<epoll, fdOpen, inbox, sent, peer>>

\* Mutant: it is not tested whether bytes are waiting.
WriteAll_Overtakes(t) ==
    /\ At(t, "write")
    /\ peer # "reset" /\ Room >= len[t]
    /\ Transmit(Numbers(accepted, accepted + len[t]))
    /\ accepted' = accepted + len[t]
    /\ mutex' = Nobody /\ Goto(t, home[t])
    /\ UNCHANGED <<state, wbuf, tail, calls, ghosts>>

\* The socket takes all.
WriteAll(t) ==
    /\ At(t, "write")
    /\ wbuf = <<>> /\ peer # "reset" /\ Room >= len[t]
    /\ Transmit(Numbers(accepted, accepted + len[t]))
    /\ accepted' = accepted + len[t]
    /\ mutex' = Nobody /\ Goto(t, home[t])
    /\ UNCHANGED <<state, wbuf, tail, calls, ghosts>>

\* The socket takes some, or none (EAGAIN): the rest goes into the buffer.
WriteSome(t) ==
    /\ At(t, "write") /\ protocol = "tcp"
    /\ wbuf = <<>> /\ peer # "reset" /\ Room < len[t] /\ len[t] - Room <= BufSize
    /\ Transmit(Numbers(accepted, accepted + Room))
    /\ accepted' = accepted + len[t]
    /\ wbuf' = Numbers(accepted + Room, accepted + len[t])
    /\ tail' = len[t] - Room
    /\ Goto(t, "add")
    /\ UNCHANGED <<state, mutex, calls, ghosts>>

\* The rest does not fit: the connection is closed, and the message cut off.
WriteTooLong(t) ==
    /\ At(t, "write") /\ protocol = "tcp"
    /\ wbuf = <<>> /\ peer # "reset" /\ len[t] - Room > BufSize
    /\ Transmit(Numbers(accepted, accepted + Room))
    /\ accepted' = accepted + Room
    /\ mutex' = Nobody /\ Goto(t, "close")
    /\ UNCHANGED <<state, wbuf, tail, calls, ghosts>>

\* ... and io_write_cb is to be called when the socket takes more.
WriteAdd(t) ==
    /\ At(t, "add")
    /\ IoAdd("io_write_cb", "write")
    /\ mutex' = Nobody /\ Goto(t, home[t])
    /\ UNCHANGED <<protocol, connecting, closed, freed, revents, fdOpen, wire, unread,
                   inbox, sent, peer, buffer, calls, ghosts>>

\* SSL_write wants to be called again: io_write returns as it is, write_mutex
\* locked.
WriteWant(t) ==
    /\ At(t, "write") /\ protocol = "ssl"
    /\ wbuf = <<>> /\ peer # "reset" /\ Room < len[t]
    /\ Goto(t, home[t])
    /\ UNCHANGED <<state, kernel, buffer, mutex, calls, ghosts>>

WriteError(t) ==
    /\ At(t, "write")
    /\ wbuf = <<>> /\ peer = "reset"
    /\ mutex' = Nobody /\ Goto(t, "close")
    /\ UNCHANGED <<state, kernel, buffer, calls, ghosts>>

-----------------------------------------------------------------------------
(* io_close.                                                               *)

\* Mutant: closed is not tested.
CloseMark_NoTest(t) ==
    /\ At(t, "close")
    /\ CanLock
    /\ Goto(t, "unregister") /\ closed' = TRUE /\ closer' = t
    /\ UNCHANGED <<protocol, connecting, freed, events, revents, cb, kernel, buffer,
                   mutex, calls, closes>>

CloseMark(t) ==
    /\ At(t, "close")
    /\ CanLock
    /\ IF closed
         THEN Goto(t, home[t]) /\ UNCHANGED <<closed, closer>>
         ELSE Goto(t, "unregister") /\ closed' = TRUE /\ closer' = t
    /\ UNCHANGED <<protocol, connecting, freed, events, revents, cb, kernel, buffer,
                   mutex, calls, closes>>

CloseUnregister(t) ==
    /\ At(t, "unregister")
    /\ IoDel({"read", "write"})
    /\ Goto(t, "close_cb")
    /\ UNCHANGED <<protocol, connecting, closed, freed, revents, cb, fdOpen, wire, unread,
                   inbox, sent, peer, buffer, mutex, calls, ghosts>>

CloseCallback(t) ==
    /\ At(t, "close_cb")
    /\ closes' = closes + 1
    /\ Goto(t, "release")
    /\ UNCHANGED <<state, kernel, buffer, mutex, calls, closer>>

\* close_socket and free_io.
CloseRelease(t) ==
    /\ At(t, "release")
    /\ fdOpen' = FALSE /\ epoll' = {}
    /\ freed' = TRUE
    /\ wbuf' = <<>> /\ tail' = 0
    /\ Goto(t, home[t])
    /\ UNCHANGED <<protocol, connecting, closed, events, revents, cb, wire, unread, inbox,
                   sent, peer, accepted, mutex, calls, ghosts>>

-----------------------------------------------------------------------------
(* The loop's thread.                                                      *)

\* What epoll_wait reports of the fd, whatever it is registered for.
Ready == (IF inbox > 0 \/ peer \in {"closed", "reset"} THEN {"read"} ELSE {})
         \cup (IF Room > 0 \/ peer = "reset" THEN {"write"} ELSE {})

\* epoll_run: revents, and event_pending.
Poll ==
    /\ At(Loop, "idle")
    /\ Ready \cap epoll # {}
    /\ revents' = Ready \cap epoll
    /\ Goto(Loop, "dispatch")
    /\ UNCHANGED <<protocol, connecting, closed, freed, events, cb, kernel, buffer,
                   mutex, calls, ghosts>>

\* Mutant: closed is not tested.
FlushThen_NoTest(label) ==
    /\ home' = [home EXCEPT ![Loop] = label]
    /\ Goto(Loop, "flush_lock")

\* io_write_cb, up to its test of closed, without the lock.
FlushThen(label) ==
    /\ home' = [home EXCEPT ![Loop] = label]
    /\ Goto(Loop, IF closed THEN label ELSE "flush_lock")

\* process_pending_event calls io->cb.
Dispatch ==
    /\ At(Loop, "dispatch")
    /\ \/ cb = "io_write_cb" /\ FlushThen("idle")
       \/ cb = "handle_event" /\ Goto(Loop, "he_write") /\ UNCHANGED home
    /\ UNCHANGED <<state, kernel, buffer, mutex, len, ghosts>>

\* handle_event: a write event.
WriteEvent == {"write"} \subseteq events \cap revents

HeNoWrite ==
    /\ At(Loop, "he_write")
    /\ ~WriteEvent
    /\ Goto(Loop, "he_read")
    /\ UNCHANGED <<state, kernel, buffer, mutex, calls, ghosts>>

HeWrite ==
    /\ At(Loop, "he_write")
    /\ WriteEvent /\ ~connecting
    /\ FlushThen("he_read")
    /\ UNCHANGED <<state, kernel, buffer, mutex, len, ghosts>>

\* ... io_connect_cb: no connection.
HeRefused ==
    /\ At(Loop, "he_write")
    /\ WriteEvent /\ connecting
    /\ peer = "reset" \/ ~fdOpen
    /\ connecting' = FALSE
    /\ home' = [home EXCEPT ![Loop] = "he_read"]
    /\ Goto(Loop, "close")
    /\ UNCHANGED <<protocol, closed, freed, events, revents, cb, kernel, buffer, mutex,
                   len, ghosts>>

\* ... io_connect_cb, up to connect_cb.
HeConnected ==
    /\ At(Loop, "he_write")
    /\ WriteEvent /\ connecting
    /\ peer # "reset" /\ fdOpen
    /\ connecting' = FALSE
    /\ IoDel({"write"})
    /\ Goto(Loop, "on_connect")
    /\ UNCHANGED <<protocol, closed, freed, revents, cb, fdOpen, wire, unread, inbox,
                   sent, peer, buffer, mutex, calls, ghosts>>

\* connect_cb returns: io_read_enable.
ConnectReturn ==
    /\ At(Loop, "on_connect")
    /\ IoAdd("handle_event", "read")
    /\ Goto(Loop, "he_read")
    /\ UNCHANGED <<protocol, connecting, closed, freed, revents, fdOpen, wire, unread,
                   inbox, sent, peer, buffer, mutex, calls, ghosts>>

\* handle_event: a read event.
HeRead ==
    /\ At(Loop, "he_read")
    /\ Goto(Loop, IF {"read"} \subseteq events \cap revents THEN "read" ELSE "idle")
    /\ UNCHANGED <<state, kernel, buffer, mutex, calls, ghosts>>

\* io_read_cb: the end of the stream, an error, or a full read_buf. (EAGAIN does
\* not happen: only this thread reads.)
ReadEnd ==
    /\ At(Loop, "read")
    /\ ~freed
    /\ peer = "reset" \/ (inbox = 0 /\ peer = "closed") \/ inbox >= ReadSize
    /\ home' = [home EXCEPT ![Loop] = "idle"]
    /\ Goto(Loop, "close")
    /\ UNCHANGED <<state, kernel, buffer, mutex, len, ghosts>>

\* ... data, for read_cb.
ReadData ==
    /\ At(Loop, "read")
    /\ ~freed /\ peer # "reset" /\ inbox \in 1 .. ReadSize - 1
    /\ inbox' = 0
    /\ Goto(Loop, "on_read")
    /\ UNCHANGED <<state, epoll, fdOpen, wire, unread, sent, peer, buffer, mutex,
                   calls, ghosts>>

ReadReturn ==
    /\ At(Loop, "on_read")
    /\ Goto(Loop, "idle")
    /\ UNCHANGED <<state, kernel, buffer, mutex, calls, ghosts>>

\* io_write_cb after its test of closed.
FlushLock ==
    /\ At(Loop, "flush_lock")
    /\ ~freed
    /\ CanLock
    /\ mutex' = Loop
    /\ Goto(Loop, "flush")
    /\ UNCHANGED <<state, kernel, buffer, calls, ghosts>>

\* ... nothing to write, or nothing can be written (EAGAIN).
FlushNothing ==
    /\ At(Loop, "flush")
    /\ ~freed
    /\ wbuf = <<>> \/ (peer # "reset" /\ Room = 0)
    /\ mutex' = Nobody
    /\ Goto(Loop, home[Loop])
    /\ UNCHANGED <<state, kernel, buffer, calls, ghosts>>

\* ... the socket takes all or some of the buffer.
FlushBytes ==
    /\ At(Loop, "flush")
    /\ ~freed /\ wbuf # <<>> /\ peer # "reset" /\ Room > 0
    /\ LET n == IF Room < Len(wbuf) THEN Room ELSE Len(wbuf)
       IN /\ Transmit(SubSeq(wbuf, 1, n))
          /\ wbuf' = SubSeq(wbuf, n + 1, Len(wbuf))
          /\ tail' = IF n = Len(wbuf) THEN 0 ELSE tail
    /\ mutex' = Nobody
    /\ Goto(Loop, home[Loop])
    /\ UNCHANGED <<state, accepted, calls, ghosts>>

\* ... an error: io_close, with write_mutex locked.
FlushError ==
    /\ At(Loop, "flush")
    /\ ~freed /\ wbuf # <<>> /\ peer = "reset"
    /\ Goto(Loop, "close")
    /\ UNCHANGED <<state, kernel, buffer, mutex, calls, ghosts>>

\* A buffer is used that free_io has released: the program ends.
UseAfterFree ==
    /\ freed
    /\ \/ pc[Loop] = "read"
       \/ pc[Loop] = "flush_lock" /\ CanLock
       \/ pc[Loop] = "flush"
    /\ Goto(Loop, "crashed")
    /\ UNCHANGED <<state, kernel, buffer, mutex, calls, ghosts>>

-----------------------------------------------------------------------------
(* The peer.                                                               *)

PeerDoes(p) ==
    /\ fdOpen
    /\ peer' = p
    /\ UNCHANGED <<state, epoll, fdOpen, wire, buffer, mutex, pc, calls, ghosts>>

PeerAccept == peer = "syn" /\ PeerDoes("up") /\ UNCHANGED <<unread, inbox, sent>>

PeerSend == /\ peer = "up" /\ sent < MaxIn
            /\ PeerDoes("up")
            /\ inbox' = inbox + 1 /\ sent' = sent + 1
            /\ UNCHANGED unread

PeerRead == /\ peer = "up" /\ unread > 0
            /\ PeerDoes("up")
            /\ unread' = unread - 1
            /\ UNCHANGED <<inbox, sent>>

PeerClose == peer = "up" /\ PeerDoes("closed") /\ UNCHANGED <<unread, inbox, sent>>

PeerReset == /\ CanReset /\ peer # "reset" /\ PeerDoes("reset")
             /\ UNCHANGED <<unread, inbox, sent>>

-----------------------------------------------------------------------------
WriteStep(t) == \/ WriteLock(t) \/ WriteBehind(t) \/ WriteOverflow(t) \/ WriteAll(t)
                \/ WriteSome(t) \/ WriteTooLong(t) \/ WriteAdd(t) \/ WriteWant(t)
                \/ WriteError(t)

CloseStep(t) == \/ CloseMark(t) \/ CloseUnregister(t) \/ CloseCallback(t)
                \/ CloseRelease(t)

LoopStep == \/ Poll \/ Dispatch
            \/ HeNoWrite \/ HeWrite \/ HeRefused \/ HeConnected \/ ConnectReturn
            \/ HeRead \/ ReadEnd \/ ReadData \/ ReadReturn
            \/ FlushLock \/ FlushNothing \/ FlushBytes \/ FlushError
            \/ UseAfterFree

Peer == PeerAccept \/ PeerSend \/ PeerRead \/ PeerClose \/ PeerReset

Next ==
    \/ \E t \in Thread : \E n \in Lengths : Send(t, n)
    \/ \E t \in Thread : Close(t) \/ WriteStep(t) \/ CloseStep(t)
    \/ LoopStep
    \/ Peer

Spec == Init /\ [][Next]_vars

\* Each thread runs, and pthread_mutex_lock returns when the mutex is free again
\* and again (a call waits for nothing else, so strong fairness of its steps
\* says both); a peer that is up accepts and reads.
FairSpec ==
    /\ Spec
    /\ \A t \in Thread : SF_vars(WriteStep(t) \/ CloseStep(t))
    /\ WF_vars(LoopStep) /\ SF_vars(FlushLock)
    /\ WF_vars(PeerAccept) /\ WF_vars(PeerRead)

-----------------------------------------------------------------------------
Labels == {"idle", "lock", "write", "add", "close", "unregister", "close_cb", "release"}

LoopLabels == {"dispatch", "he_write", "he_read", "read", "flush_lock", "flush",
               "on_connect", "on_read", "crashed"}

\* The type invariant; the write buffer stays within its size, and the socket
\* within what it takes.
TypeOK ==
    /\ protocol \in Protocols
    /\ {connecting, closed, freed, fdOpen} \subseteq BOOLEAN
    /\ {events, revents, epoll} \subseteq SUBSET {"read", "write"}
    /\ cb \in {"handle_event", "io_write_cb"}
    /\ mutex \in Thread \cup {Nobody}
    /\ wbuf \in Seq(Nat) /\ wire \in Seq(Nat)
    /\ tail \in 0 .. BufSize /\ Len(wbuf) <= tail
    /\ unread \in 0 .. SockCap
    /\ {accepted, inbox, sent, closes} \subseteq Nat
    /\ peer \in {"syn", "up", "closed", "reset"}
    /\ pc \in [Thread -> Labels \cup LoopLabels]
    /\ \A t \in Sender : pc[t] \in Labels
    /\ home \in [Thread -> {"idle", "dispatch", "he_read", "on_connect", "on_read"}]
    /\ len \in [Thread -> Nat]
    /\ closer \in Thread \cup {Nobody}

\* What io_write has taken on reaches the socket in order, without loss or
\* repetition, whichever threads send: it is the bytes on the wire, then those
\* in the buffer. Once the connection is released the wire has a prefix.
StreamIntact ==
    /\ wire = Numbers(0, Len(wire))
    /\ ~freed => wire \o wbuf = Numbers(0, accepted)

\* However many threads call io_close, and whatever else fails, the connection
\* is released once, after one call of close_cb.
ClosedOnce ==
    /\ closes <= 1
    /\ freed => closes = 1
    /\ closes = 1 => closed /\ events \subseteq {"read"}

\* The loop's thread has write_mutex and waits for it: io_write_cb met an error
\* of the socket and called io_close (io.c:240).
LoopWaitsForItself == mutex = Loop /\ pc[Loop] = "close"

\* There were bytes enough to fill the socket.
CanFillSocket == \E n \in Lengths : Len(wire) + n > SockCap

\* write_mutex is held inside io_write and io_write_cb only. Two ways of
\* leaving keep it for ever: SSL_write wants to be called again (io.c:346), and
\* io_write_cb closes the connection on an error with the mutex locked
\* (io.c:240). The first takes more bytes than the socket holds, the second a
\* reset while bytes wait in the buffer (which another thread may then free).
LockIsReturned ==
    mutex # Nobody =>
        \/ pc[mutex] \in {"write", "add", "flush"} \/ ~Alive
        \/ protocol = "ssl" /\ CanFillSocket
        \/ LoopWaitsForItself /\ peer = "reset" /\ (wbuf # <<>> \/ freed)

\* While the loop's thread alone closes the connection, from whichever
\* callback, no callback of handle_event or io_write_cb meets a released
\* buffer: the tests of closed, events and read_buf are enough. (They are not
\* when another thread closes.)
OnlyRacesCrash == pc[Loop] = "crashed" => closer \in Sender

\* TCP: a call of io_send_data or io_close by another thread returns, and the
\* loop's thread, which makes such calls from its callbacks and locks
\* write_mutex in io_write_cb, comes back from them to its events. All of them
\* do, unless the loop's thread waits for itself.
CallReturns ==
    \A t \in Thread : pc[t] # "idle" ~> pc[t] = "idle" \/ ~Alive \/ LoopWaitsForItself

\* A connection that is marked closed is unregistered, announced by close_cb and
\* released.
ClosedIsReleased == closed ~> freed \/ ~Alive

\* src/README.md:101-140: the server answers each message with io_send_data and
\* keeps the connection open. What io_send_data has taken on is sent, as long as
\* the peer reads and neither side closes.
BufferedDataIsSent == wbuf # <<>> ~> wbuf = <<>> \/ peer # "up"
=============================================================================
