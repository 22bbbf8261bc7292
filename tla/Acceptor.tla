------------------------------ MODULE Acceptor ------------------------------
(***************************************************************************)
(* A server: its main loop starts a pool of workers, each a thread with a  *)
(* loop of its own (src/src/thread_pool.c, event_loop_thread.c), accepts   *)
(* connections and gives them to the workers in turn (io_accept_cb and     *)
(* ssl_server_handshake of src/src/io.c). The program is HttpServer, whose *)
(* on_accept gives a connection its handle and callbacks                   *)
(* (src/src/http/HttpServer.cpp). Without workers the main loop serves.    *)
(*                                                                         *)
(* A message is what one read takes. How the events of a loop come about   *)
(* is in EventDispatch, what becomes of the messages in HttpServing.       *)
(***************************************************************************)
EXTENDS Integers, Sequences, SequencesExt, FiniteSets

CONSTANTS
    Conn,       \* the connections of the clients
    NoConn,     \* no connection
    Workers,    \* the numbers of workers to look at
    Protocols,  \* subset of {"tcp", "ssl"}
    MaxSent,    \* BOUND: messages each client sends
    BufSize,    \* messages that fill read_buf
    Flights,    \* messages of the client in a handshake
    MaxWakeups  \* BOUND: spurious wakeups of pthread_cond_wait

ASSUME SizesAreNatural ==
    /\ Workers \subseteq Nat /\ {MaxSent, MaxWakeups} \subseteq Nat
    /\ {BufSize, Flights} \subseteq Nat \ {0, 1}
ASSUME NoConnIsNone == NoConn \notin Conn
ASSUME ConnsAreFinite == IsFiniteSet(Conn)
ASSUME WorkersAreBounded == \E n \in Workers : \A m \in Workers : m <= n
ASSUME KnownProtocols == Protocols \subseteq {"tcp", "ssl"}

VARIABLES
    workers,    \* threadPool->thread_number, 0 if there is no pool
    protocol,   \* the listening io's type
    mainPc,     \* where the main thread is
    starting,   \* the worker it starts
    workerPc,   \* where each worker is
    mutex,      \* per worker: "free", "main" or "worker"
    waiting,    \* the main thread waits for this worker's cond
    wakeups,    \* spurious wakeups so far
    eventLoop,  \* per worker: eventLoop # NULL
    pos,        \* threadPool->pos
    thread_count, \* per worker
    backlog,    \* connections that wait for accept
    cur,        \* the connection io_accept_cb is about
    loopOf,     \* its worker, or 0: the main loop
    registered, \* its io has EVENT_READ
    cb,         \* its io->cb
    userdata,   \* its io->userdata
    read_cb,    \* io->read_cb is set
    close_cb,   \* io->close_cb is set
    closed,     \* io->closed
    flights,    \* handshake messages that SSL_accept has taken
    inbox,      \* messages that are not read yet
    sent,       \* messages the client has sent
    gone,       \* the client has closed
    buffered,   \* messages in read_buf that were given to nobody
    delivered,  \* messages given to the handle
    accepts,    \* ghost: calls of accept_cb
    deleted,    \* ghost: the handle was deleted
    early       \* ghost: an event was handled before accept_cb had ended

pool == <<mainPc, starting, workerPc, mutex, waiting, wakeups, eventLoop>>
robin == <<pos, thread_count>>
io == <<loopOf, registered, cb, userdata, read_cb, close_cb, closed>>
stream == <<flights, inbox, sent, gone, buffered, delivered>>
ghosts == <<accepts, deleted, early>>
vars == <<workers, protocol, pool, robin, backlog, cur, io, stream, ghosts>>

NoLoop == -1

MaxWorkers == CHOOSE n \in Workers : \A m \in Workers : m <= n

Worker == 1 .. MaxWorkers

All(v) == [c \in Conn |-> v]

Init ==
    /\ workers \in Workers /\ protocol \in Protocols
    /\ mainPc = "create" /\ starting = 1
    /\ workerPc = [w \in Worker |-> "none"]
    /\ mutex = [w \in Worker |-> "free"]
    /\ waiting = FALSE /\ wakeups = 0
    /\ eventLoop = [w \in Worker |-> FALSE]
    /\ pos = 0
    /\ thread_count = [w \in Worker |-> 0]
    /\ backlog = <<>> /\ cur = NoConn
    /\ loopOf = All(NoLoop) /\ registered = All(FALSE) /\ cb = All("none")
    /\ userdata = All("none") /\ read_cb = All(FALSE) /\ close_cb = All(FALSE)
    /\ closed = All(FALSE)
    /\ flights = All(0) /\ inbox = All(0) /\ sent = All(0) /\ gone = All(FALSE)
    /\ buffered = All(0) /\ delivered = All(0)
    /\ accepts = All(0) /\ deleted = All(FALSE) /\ early = All(FALSE)

-----------------------------------------------------------------------------
(* thread_pool_start: workers are started one after the other.             *)

\* event_loop_thread_init and pthread_create.
CreateThread ==
    /\ mainPc = "create" /\ starting <= workers
    /\ workerPc' = [workerPc EXCEPT ![starting] = "start"]
    /\ mainPc' = "lock"
    /\ UNCHANGED <<workers, protocol, starting, mutex, waiting, wakeups, eventLoop,
                   robin, backlog, cur, io, stream, ghosts>>

\* The main thread locks, tests, and leaves or waits; again after each wakeup.
TestStarted ==
    /\ mainPc = "lock" /\ mutex[starting] = "free"
    /\ IF eventLoop[starting]
       THEN /\ mainPc' = "create" /\ starting' = starting + 1
            /\ UNCHANGED waiting
       ELSE /\ mainPc' = "wait" /\ waiting' = TRUE
            /\ UNCHANGED starting
    /\ UNCHANGED <<workers, protocol, workerPc, mutex, wakeups, eventLoop, robin,
                   backlog, cur, io, stream, ghosts>>

Awake ==
    /\ waiting' = FALSE /\ mainPc' = "lock"
    /\ UNCHANGED <<workers, protocol, starting, workerPc, mutex, eventLoop, robin,
                   backlog, cur, io, stream, ghosts>>

Wakeup == mainPc = "wait" /\ ~waiting /\ Awake /\ UNCHANGED wakeups

SpuriousWakeup ==
    /\ mainPc = "wait" /\ waiting /\ wakeups < MaxWakeups
    /\ Awake /\ wakeups' = wakeups + 1

\* event_loop_thread_run.
WorkerLock(w) ==
    /\ workerPc[w] = "start" /\ mutex[w] = "free"
    /\ mutex' = [mutex EXCEPT ![w] = "worker"]
    /\ workerPc' = [workerPc EXCEPT ![w] = "init"]
    /\ UNCHANGED <<workers, protocol, mainPc, starting, waiting, wakeups, eventLoop,
                   robin, backlog, cur, io, stream, ghosts>>

\* Mutant: the worker does not signal.
WorkerSignal_Silent(w) ==
    /\ workerPc[w] = "init"
    /\ eventLoop' = [eventLoop EXCEPT ![w] = TRUE]
    /\ mutex' = [mutex EXCEPT ![w] = "free"]
    /\ workerPc' = [workerPc EXCEPT ![w] = "run"]
    /\ UNCHANGED <<workers, protocol, mainPc, starting, waiting, wakeups, robin,
                   backlog, cur, io, stream, ghosts>>

WorkerSignal(w) ==
    /\ workerPc[w] = "init"
    /\ eventLoop' = [eventLoop EXCEPT ![w] = TRUE]
    /\ waiting' = IF starting = w THEN FALSE ELSE waiting
    /\ mutex' = [mutex EXCEPT ![w] = "free"]
    /\ workerPc' = [workerPc EXCEPT ![w] = "run"]
    /\ UNCHANGED <<workers, protocol, mainPc, starting, wakeups, robin, backlog,
                   cur, io, stream, ghosts>>

\* create_tcp_server and create_ssl_server after the pool: listen, io_accept;
\* then event_loop_run.
Listen ==
    /\ mainPc = "create" /\ starting > workers
    /\ mainPc' = "loop"
    /\ UNCHANGED <<workers, protocol, starting, workerPc, mutex, waiting, wakeups,
                   eventLoop, robin, backlog, cur, io, stream, ghosts>>

-----------------------------------------------------------------------------
(* io_accept_cb, in the main loop.                                         *)

\* Mutant: the last worker is left out.
NextPos_Short == (pos + 1) % (IF workers > 1 THEN workers - 1 ELSE 1)

\* The worker that thread_pool_get_next_loop returns, from pos.
NextPos == (pos + 1) % workers

\* accept, make_noblock_fd, the worker, get_io.
TakeConn ==
    /\ mainPc = "loop" /\ backlog # <<>>
    /\ cur' = Head(backlog) /\ backlog' = Tail(backlog)
    /\ IF workers = 0
       THEN /\ loopOf' = [loopOf EXCEPT ![cur'] = 0]
            /\ UNCHANGED robin
       ELSE /\ loopOf' = [loopOf EXCEPT ![cur'] = pos + 1]
            /\ thread_count' = [thread_count EXCEPT ![pos + 1] = @ + 1]
            /\ pos' = NextPos
    /\ userdata' = [userdata EXCEPT ![cur'] = "server"]

\* The connection is registered with its loop, and only then accept_cb runs.
AcceptTcp ==
    /\ protocol = "tcp" /\ TakeConn
    /\ registered' = [registered EXCEPT ![cur'] = TRUE]
    /\ cb' = [cb EXCEPT ![cur'] = "handle_event"]
    /\ accepts' = [accepts EXCEPT ![cur'] = @ + 1]
    /\ mainPc' = "userdata"
    /\ UNCHANGED <<workers, protocol, starting, workerPc, mutex, waiting, wakeups,
                   eventLoop, read_cb, close_cb, closed, stream, deleted, early>>

\* on_accept, when another thread may look: a new HttpHandle takes the place
\* of the server, then the callbacks.
SetUserdata ==
    /\ mainPc = "userdata" /\ mainPc' = "read_cb"
    /\ userdata' = [userdata EXCEPT ![cur] = "handle"]
    /\ UNCHANGED <<workers, protocol, starting, workerPc, mutex, waiting, wakeups,
                   eventLoop, robin, backlog, cur, loopOf, registered, cb, read_cb,
                   close_cb, closed, stream, ghosts>>

SetReadCb ==
    /\ mainPc = "read_cb" /\ mainPc' = "close_cb"
    /\ read_cb' = [read_cb EXCEPT ![cur] = TRUE]
    /\ UNCHANGED <<workers, protocol, starting, workerPc, mutex, waiting, wakeups,
                   eventLoop, robin, backlog, cur, loopOf, registered, cb, userdata,
                   close_cb, closed, stream, ghosts>>

SetCloseCb ==
    /\ mainPc = "close_cb" /\ mainPc' = "loop"
    /\ close_cb' = [close_cb EXCEPT ![cur] = TRUE]
    /\ cur' = NoConn
    /\ UNCHANGED <<workers, protocol, starting, workerPc, mutex, waiting, wakeups,
                   eventLoop, robin, backlog, loopOf, registered, cb, userdata,
                   read_cb, closed, stream, ghosts>>

\* The first ssl_accept, on a socket that does not block. The client's first
\* message may be there, its last one cannot.
AcceptSsl ==
    /\ protocol = "ssl" /\ TakeConn /\ UNCHANGED mainPc
    /\ \/ /\ flights' = [flights EXCEPT ![cur'] = @ + inbox[cur']]
          /\ inbox' = [inbox EXCEPT ![cur'] = 0]
          /\ ~(gone[cur'] /\ inbox[cur'] = 0)
          /\ registered' = [registered EXCEPT ![cur'] = TRUE]
          /\ cb' = [cb EXCEPT ![cur'] = "ssl_server_handshake"]
          /\ UNCHANGED closed
       \/ /\ closed' = [closed EXCEPT ![cur'] = TRUE]
          /\ UNCHANGED <<flights, inbox, registered, cb>>
    /\ UNCHANGED <<workers, protocol, starting, workerPc, mutex, waiting, wakeups,
                   eventLoop, read_cb, close_cb, sent, gone, buffered, delivered,
                   ghosts>>

-----------------------------------------------------------------------------
(* The loop of a connection: a worker's, or the main one.                  *)

LoopOf(c, w) == loopOf[c] = w /\ registered[c]

CloseConn(c) ==
    /\ closed' = [closed EXCEPT ![c] = TRUE]
    /\ registered' = [registered EXCEPT ![c] = FALSE]
    /\ deleted' = [deleted EXCEPT ![c] = close_cb[c]]

\* io_read_cb with a message. Without a read_cb it stays in read_buf; once
\* there is one it gets the new bytes only. The buffer that is full closes.
ReadMessage(c) ==
    /\ cb[c] = "handle_event" /\ inbox[c] > 0
    /\ inbox' = [inbox EXCEPT ![c] = @ - 1]
    /\ early' = [early EXCEPT ![c] = @ \/ ~close_cb[c]]
    /\ IF buffered[c] + 1 = BufSize
       THEN CloseConn(c) /\ UNCHANGED <<buffered, delivered>>
       ELSE IF read_cb[c]
       THEN /\ delivered' = [delivered EXCEPT ![c] = @ + 1]
            /\ UNCHANGED buffered
            /\ \/ UNCHANGED <<closed, registered, deleted>>
               \/ CloseConn(c)
       ELSE /\ buffered' = [buffered EXCEPT ![c] = @ + 1]
            /\ UNCHANGED <<delivered, closed, registered, deleted>>
    /\ UNCHANGED <<flights, cb, userdata, read_cb, close_cb, accepts>>

\* io_read_cb at the end of the stream.
ReadEnd(c) ==
    /\ cb[c] = "handle_event" /\ inbox[c] = 0 /\ gone[c]
    /\ CloseConn(c)
    /\ early' = [early EXCEPT ![c] = @ \/ ~close_cb[c]]
    /\ UNCHANGED <<flights, inbox, buffered, delivered, cb, userdata, read_cb,
                   close_cb, accepts>>

\* Mutant: accept_cb is forgotten when the handshake ends in the loop.
Established_NoAccept(c) ==
    /\ cb' = [cb EXCEPT ![c] = "handle_event"]
    /\ UNCHANGED <<accepts, userdata, read_cb, close_cb>>

\* What ssl_server_handshake does at its end: accept_cb, then io_read_enable.
Established(c) ==
    /\ accepts' = [accepts EXCEPT ![c] = @ + 1]
    /\ userdata' = [userdata EXCEPT ![c] = "handle"]
    /\ read_cb' = [read_cb EXCEPT ![c] = TRUE]
    /\ close_cb' = [close_cb EXCEPT ![c] = TRUE]
    /\ cb' = [cb EXCEPT ![c] = "handle_event"]

\* ssl_server_handshake as the callback: it goes on, ends, or fails, be it at
\* the end of the stream or with SSL_ERROR_WANT_WRITE.
Handshake(c) ==
    /\ cb[c] = "ssl_server_handshake" /\ (inbox[c] > 0 \/ gone[c])
    /\ \/ /\ inbox[c] > 0
          /\ flights' = [flights EXCEPT ![c] = IF @ < Flights THEN @ + 1 ELSE @]
          /\ inbox' = [inbox EXCEPT ![c] = IF flights[c] < Flights THEN @ - 1 ELSE @]
          /\ IF flights'[c] = Flights THEN Established(c)
             ELSE UNCHANGED <<accepts, userdata, read_cb, close_cb, cb>>
          /\ UNCHANGED <<closed, registered, deleted>>
       \/ /\ CloseConn(c)
          /\ UNCHANGED <<flights, inbox, accepts, userdata, read_cb, close_cb, cb>>
    /\ UNCHANGED <<buffered, delivered, early>>

Serve(c) ==
    /\ ReadMessage(c) \/ ReadEnd(c) \/ Handshake(c)
    /\ UNCHANGED <<workers, protocol, pool, robin, backlog, cur, loopOf, sent, gone>>

MainServe == mainPc = "loop" /\ \E c \in Conn : LoopOf(c, 0) /\ Serve(c)

WorkerServe(w) == workerPc[w] = "run" /\ \E c \in Conn : LoopOf(c, w) /\ Serve(c)

-----------------------------------------------------------------------------
(* The clients.                                                            *)

IsQueued(c) == c \in ToSet(backlog)

Connected(c) == ~gone[c] /\ ~closed[c] /\ (IsQueued(c) \/ loopOf[c] # NoLoop)

ClientConnects(c) ==
    /\ mainPc \notin {"create", "lock", "wait"}
    /\ ~IsQueued(c) /\ loopOf[c] = NoLoop
    /\ backlog' = Append(backlog, c)
    /\ UNCHANGED <<workers, protocol, pool, robin, cur, io, stream, ghosts>>

\* The next message of the handshake, when the last one was taken.
ClientShakesHands(c) ==
    /\ protocol = "ssl" /\ Connected(c)
    /\ flights[c] < Flights /\ inbox[c] = 0
    /\ inbox' = [inbox EXCEPT ![c] = 1]
    /\ UNCHANGED <<workers, protocol, pool, robin, backlog, cur, io, flights, sent,
                   gone, buffered, delivered, ghosts>>

ClientSends(c) ==
    /\ protocol = "tcp" \/ flights[c] = Flights
    /\ Connected(c) /\ sent[c] < MaxSent
    /\ sent' = [sent EXCEPT ![c] = @ + 1]
    /\ inbox' = [inbox EXCEPT ![c] = @ + 1]
    /\ UNCHANGED <<workers, protocol, pool, robin, backlog, cur, io, flights, gone,
                   buffered, delivered, ghosts>>

ClientCloses(c) ==
    /\ Connected(c)
    /\ gone' = [gone EXCEPT ![c] = TRUE]
    /\ UNCHANGED <<workers, protocol, pool, robin, backlog, cur, io, flights, inbox,
                   sent, buffered, delivered, ghosts>>

MainStep ==
    \/ CreateThread \/ TestStarted \/ Wakeup \/ Listen
    \/ AcceptTcp \/ SetUserdata \/ SetReadCb \/ SetCloseCb \/ AcceptSsl
    \/ MainServe

WorkerStep(w) == WorkerLock(w) \/ WorkerSignal(w) \/ WorkerServe(w)

Next ==
    \/ MainStep \/ SpuriousWakeup
    \/ \E w \in Worker : WorkerStep(w)
    \/ \E c \in Conn : \/ ClientConnects(c) \/ ClientShakesHands(c)
                       \/ ClientSends(c) \/ ClientCloses(c)

Spec == Init /\ [][Next]_vars

\* Threads are scheduled, and a loop does not forget one of its connections
\* for another (EventDispatch): it serves each that goes on being readable.
FairSpec ==
    /\ Spec
    /\ WF_vars(MainStep)
    /\ \A c \in Conn : WF_vars(mainPc = "loop" /\ LoopOf(c, 0) /\ Serve(c))
    /\ \A w \in Worker : WF_vars(WorkerLock(w) \/ WorkerSignal(w))
    /\ \A w \in Worker, c \in Conn :
            WF_vars(workerPc[w] = "run" /\ LoopOf(c, w) /\ Serve(c))

-----------------------------------------------------------------------------
(* Properties.                                                             *)

\* What a client sends reaches its handle, which accept_cb makes once and the
\* end of the connection deletes. Only a TCP connection that a worker served
\* before the main thread had set its callbacks loses messages or its handle.
DataReachesHandle ==
    \A c \in Conn :
        /\ early[c] => protocol = "tcp" /\ workers > 0
        /\ accepts[c] <= 1
        /\ ~early[c] =>
            /\ buffered[c] = 0
            /\ sent[c] > 0 /\ ~closed[c] => sent[c] = inbox[c] + delivered[c]
            /\ delivered[c] > 0 => accepts[c] = 1 /\ userdata[c] = "handle"
            /\ closed[c] => deleted[c] = (accepts[c] = 1)

Given(w) == Cardinality({c \in Conn : loopOf[c] = w})

\* thread_pool_get_next_loop shares the connections out evenly, counts them,
\* and never returns the NULL loop of a worker that has not started.
WorkersShareEvenly ==
    \A v, w \in 1 .. workers :
        /\ Given(w) - Given(v) \in {-1, 0, 1}
        /\ thread_count[w] = Given(w)
        /\ Given(w) > 0 => eventLoop[w]

\* thread_pool_start returns, whatever wakeups are spurious and however late a
\* worker locks; and then everything a client sends is taken in the end.
StartsAndServes ==
    /\ <>(mainPc = "loop")
    /\ \A c \in Conn :
        (sent[c] > delivered[c]) ~> \/ delivered[c] = sent[c]
                                    \/ closed[c]
                                    \/ early[c]
==============================================================================
