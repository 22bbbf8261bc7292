--------------------------- MODULE AcceptorProofs ---------------------------
(***************************************************************************)
(* Theorems about Acceptor, for any number of workers, any finite set of   *)
(* connections, any sizes, and both protocols.                             *)
(***************************************************************************)
EXTENDS Acceptor, FiniteSetTheorems, SequenceTheorems, TLAPS

\* The steps of thread_pool_start, and those of on_accept.
StartingPool == {"create", "lock", "wait"}
Accepting == {"userdata", "read_cb", "close_cb"}

TypeOK ==
    /\ workers \in Workers /\ protocol \in {"tcp", "ssl"}
    /\ mainPc \in StartingPool \cup Accepting \cup {"loop"}
    /\ starting \in 1 .. workers + 1
    /\ workerPc \in [Worker -> {"none", "start", "init", "run"}]
    /\ mutex \in [Worker -> {"free", "main", "worker"}]
    /\ waiting \in BOOLEAN /\ wakeups \in Nat
    /\ eventLoop \in [Worker -> BOOLEAN]
    /\ pos \in Nat /\ pos <= workers /\ (workers > 0 => pos < workers)
    /\ thread_count \in [Worker -> Nat]
    /\ backlog \in Seq(Conn) /\ cur \in Conn \cup {NoConn}
    /\ loopOf \in [Conn -> {NoLoop} \cup 0 .. workers]
    /\ cb \in [Conn -> {"none", "handle_event", "ssl_server_handshake"}]
    /\ userdata \in [Conn -> {"none", "server", "handle"}]
    /\ registered \in [Conn -> BOOLEAN] /\ read_cb \in [Conn -> BOOLEAN]
    /\ close_cb \in [Conn -> BOOLEAN] /\ closed \in [Conn -> BOOLEAN]
    /\ gone \in [Conn -> BOOLEAN] /\ deleted \in [Conn -> BOOLEAN]
    /\ early \in [Conn -> BOOLEAN]
    /\ flights \in [Conn -> Nat] /\ inbox \in [Conn -> Nat] /\ sent \in [Conn -> Nat]
    /\ buffered \in [Conn -> Nat] /\ delivered \in [Conn -> Nat]
    /\ accepts \in [Conn -> Nat]

\* The workers before the one that the main thread starts have a loop.
PoolOK ==
    /\ \A w \in 1 .. workers : w < starting => eventLoop[w]
    /\ mainPc \notin StartingPool => starting > workers
    /\ mainPc \in {"lock", "wait"} => starting <= workers
    /\ mainPc \in StartingPool => \A c \in Conn : loopOf[c] = NoLoop

\* A connection waits once for accept, and not any more once it has a loop.
BacklogOK ==
    /\ \A a \in 1 .. Len(backlog) : loopOf[backlog[a]] = NoLoop
    /\ \A a, b \in 1 .. Len(backlog) : backlog[a] = backlog[b] => a = b

\* In each round the workers up to pos have one connection more than the others.
Ahead(w) == IF w <= pos THEN 1 ELSE 0

RobinOK ==
    /\ \A w \in 1 .. workers : thread_count[w] = Given(w)
    /\ \A v, w \in 1 .. workers :
           thread_count[v] - Ahead(v) = thread_count[w] - Ahead(w)

\* A connection that was not accepted is as get_io leaves it.
FreshOf(c) ==
    loopOf[c] = NoLoop =>
        /\ cb[c] = "none" /\ accepts[c] = 0
        /\ ~registered[c] /\ ~closed[c] /\ ~early[c] /\ ~deleted[c]
        /\ flights[c] = 0 /\ delivered[c] = 0 /\ buffered[c] = 0
        /\ ~read_cb[c] /\ ~close_cb[c]

\* How far accept_cb has come: the events of a connection whose close_cb is not
\* set are enabled for another thread only while the main thread is in on_accept.
MainOK ==
    /\ mainPc \in Accepting =>
           cur \in Conn /\ protocol = "tcp" /\ cb[cur] = "handle_event"
    /\ mainPc \in {"read_cb", "close_cb"} => userdata[cur] = "handle"
    /\ mainPc = "close_cb" => read_cb[cur]

CallbacksOf(c) ==
    /\ accepts[c] = IF cb[c] = "handle_event" THEN 1 ELSE 0
    /\ cb[c] = "ssl_server_handshake" => protocol = "ssl"
    /\ close_cb[c] => read_cb[c] /\ userdata[c] = "handle" /\ cb[c] = "handle_event"
    /\ cb[c] = "handle_event" /\ ~close_cb[c] => mainPc \in Accepting /\ c = cur
    /\ registered[c] => ~closed[c]

\* Where the messages of a connection are: the handshake takes its own before
\* the client sends the first.
DataOf(c) ==
    /\ cb[c] = "ssl_server_handshake" => flights[c] < Flights
    /\ protocol = "ssl" /\ cb[c] = "handle_event" => flights[c] = Flights
    /\ early[c] => protocol = "tcp" /\ workers > 0
    /\ ~early[c] =>
        /\ buffered[c] = 0
        /\ delivered[c] > 0 => close_cb[c]
        /\ closed[c] => deleted[c] = (accepts[c] = 1)
        /\ ~closed[c] =>
             IF protocol = "tcp" \/ flights[c] = Flights
               THEN sent[c] = inbox[c] + delivered[c]
               ELSE sent[c] = 0 /\ delivered[c] = 0 /\ inbox[c] <= 1

ConnOK == MainOK /\ \A c \in Conn : FreshOf(c) /\ CallbacksOf(c) /\ DataOf(c)

\* All that the model keeps of one connection.
Fields(c) ==
    <<loopOf[c], registered[c], cb[c], userdata[c], read_cb[c], close_cb[c],
      closed[c], flights[c], inbox[c], sent[c], buffered[c], delivered[c],
      accepts[c], deleted[c], early[c]>>

\* A loop, the main one or a worker's, handles an event of c.
Served(c) ==
    /\ registered[c] /\ Serve(c)
    /\ mainPc = "loop" \/ loopOf[c] \in Nat \ {0}

-----------------------------------------------------------------------------
(* The constants.                                                          *)

LEMMA WorkersInPool == workers \in Workers => workers \in Nat /\ 1 .. workers \subseteq Worker
<1>1. MaxWorkers \in Workers /\ \A m \in Workers : m <= MaxWorkers
  BY WorkersAreBounded DEF MaxWorkers
<1> QED
  BY <1>1, SizesAreNatural DEF Worker

LEMMA MaxWorkersType == MaxWorkers \in Nat
BY WorkersAreBounded, SizesAreNatural DEF MaxWorkers

LEMMA ServesServed ==
    /\ MainServe => \E c \in Conn : Served(c)
    /\ \A w \in Worker : WorkerServe(w) => \E c \in Conn : Served(c)
BY MaxWorkersType DEF MainServe, WorkerServe, Served, LoopOf, Worker

-----------------------------------------------------------------------------
(* Type correctness.                                                       *)

\* A count that goes up or down, and a flag that is set.
LEMMA Counting ==
    ASSUME NEW S, NEW f \in [S -> Nat], NEW x \in S
    PROVE  /\ [f EXCEPT ![x] = @ + 1] \in [S -> Nat]
           /\ f[x] > 0 => [f EXCEPT ![x] = @ - 1] \in [S -> Nat]
           /\ \A n \in Nat : [f EXCEPT ![x] = n] \in [S -> Nat]
OBVIOUS

LEMMA Setting ==
    ASSUME NEW S, NEW R, NEW f \in [S -> R], NEW x \in S, NEW r \in R
    PROVE  [f EXCEPT ![x] = r] \in [S -> R]
OBVIOUS

LEMMA TypeInit == Init => TypeOK
<1> SUFFICES ASSUME Init PROVE TypeOK
  OBVIOUS
<1>1. workers \in Nat /\ 1 .. workers \subseteq Worker
  BY WorkersInPool DEF Init
<1>2. workers \in Workers /\ protocol \in {"tcp", "ssl"} /\ mainPc = "create"
  BY KnownProtocols DEF Init
<1>7. waiting \in BOOLEAN /\ wakeups \in Nat /\ pos = 0
  BY DEF Init
<1>8. starting \in 1 .. workers + 1
  <2>1. workers \in Nat
    BY <1>1
  <2>2. starting = 1
    BY DEF Init
  <2> QED BY <2>1, <2>2
<1>6. /\ workerPc \in [Worker -> {"none", "start", "init", "run"}]
      /\ mutex \in [Worker -> {"free", "main", "worker"}]
      /\ eventLoop \in [Worker -> BOOLEAN] /\ thread_count \in [Worker -> Nat]
  BY DEF Init
<1>3. backlog \in Seq(Conn) /\ cur \in Conn \cup {NoConn}
  BY EmptySeq DEF Init
<1>4. /\ loopOf \in [Conn -> {NoLoop} \cup 0 .. workers]
      /\ cb \in [Conn -> {"none", "handle_event", "ssl_server_handshake"}]
      /\ userdata \in [Conn -> {"none", "server", "handle"}]
      /\ registered \in [Conn -> BOOLEAN] /\ read_cb \in [Conn -> BOOLEAN]
      /\ close_cb \in [Conn -> BOOLEAN] /\ closed \in [Conn -> BOOLEAN]
      /\ gone \in [Conn -> BOOLEAN] /\ deleted \in [Conn -> BOOLEAN]
      /\ early \in [Conn -> BOOLEAN]
  BY DEF Init, All
<1>5. /\ flights \in [Conn -> Nat] /\ inbox \in [Conn -> Nat] /\ sent \in [Conn -> Nat]
      /\ buffered \in [Conn -> Nat] /\ delivered \in [Conn -> Nat]
      /\ accepts \in [Conn -> Nat]
  BY DEF Init, All
<1> QED
  BY <1>1, <1>2, <1>3, <1>4, <1>5, <1>6, <1>7, <1>8 DEF TypeOK, StartingPool

\* What io_accept_cb does before the protocols part: the first connection of
\* the backlog gets a loop, and userdata.
LEMMA Taken ==
    ASSUME TypeOK, TakeConn
    PROVE  /\ backlog # << >> /\ cur' = Head(backlog) /\ backlog' = Tail(backlog)
           /\ cur' \in Conn /\ backlog' \in Seq(Conn)
           /\ mainPc = "loop"
           /\ \E l \in 0 .. workers :
                /\ loopOf' = [loopOf EXCEPT ![cur'] = l]
                /\ workers > 0 => /\ l = pos + 1
                                  /\ thread_count' = [thread_count EXCEPT ![l] = @ + 1]
                                  /\ pos' = IF l = workers THEN 0 ELSE l
                /\ workers = 0 => thread_count' = thread_count /\ pos' = pos /\ l = 0
           /\ userdata' = [userdata EXCEPT ![cur'] = "server"]
<1>1. /\ backlog # << >> /\ cur' = Head(backlog) /\ backlog' = Tail(backlog)
      /\ mainPc = "loop" /\ userdata' = [userdata EXCEPT ![cur'] = "server"]
  BY DEF TakeConn
<1>2. cur' \in Conn /\ backlog' \in Seq(Conn)
  BY <1>1, HeadTailProperties DEF TypeOK
<1>3. workers \in Nat /\ pos \in Nat /\ (workers > 0 => pos < workers)
  BY WorkersInPool DEF TypeOK
<1>4. CASE workers = 0
  <2>1. /\ loopOf' = [loopOf EXCEPT ![cur'] = 0]
        /\ thread_count' = thread_count /\ pos' = pos
    BY <1>4 DEF TakeConn, robin
  <2>2. 0 \in 0 .. workers
    BY <1>4
  <2> QED BY <1>1, <1>2, <1>4, <2>1, <2>2
<1>5. CASE workers > 0
  <2>1. pos + 1 \in 1 .. workers
    BY <1>3, <1>5
  <2>2. (pos + 1) % workers = IF pos + 1 = workers THEN 0 ELSE pos + 1
    BY <1>3, <1>5
  <2>3. /\ loopOf' = [loopOf EXCEPT ![cur'] = pos + 1]
        /\ thread_count' = [thread_count EXCEPT ![pos + 1] = @ + 1]
        /\ pos' = IF pos + 1 = workers THEN 0 ELSE pos + 1
    BY <1>5, <2>2 DEF TakeConn, NextPos
  <2>4. pos + 1 \in 0 .. workers
    BY <2>1
  <2>6. \E l \in 0 .. workers :
            /\ loopOf' = [loopOf EXCEPT ![cur'] = l]
            /\ workers > 0 => /\ l = pos + 1
                              /\ thread_count' = [thread_count EXCEPT ![l] = @ + 1]
                              /\ pos' = IF l = workers THEN 0 ELSE l
            /\ workers = 0 => thread_count' = thread_count /\ pos' = pos /\ l = 0
    <3> WITNESS pos + 1 \in 0 .. workers
    <3> QED BY <1>5, <2>3
  <2> QED BY <1>1, <1>2, <2>6
<1> QED
  BY <1>1, <1>3, <1>4, <1>5

LEMMA TakenTypes ==
    ASSUME TypeOK, TakeConn
    PROVE  /\ loopOf' \in [Conn -> {NoLoop} \cup 0 .. workers]
           /\ thread_count' \in [Worker -> Nat]
           /\ pos' \in Nat /\ pos' <= workers /\ (workers > 0 => pos' < workers)
           /\ userdata' \in [Conn -> {"none", "server", "handle"}]
<1>1. PICK l \in 0 .. workers :
        /\ loopOf' = [loopOf EXCEPT ![cur'] = l]
        /\ workers > 0 => /\ l = pos + 1
                          /\ thread_count' = [thread_count EXCEPT ![l] = @ + 1]
                          /\ pos' = IF l = workers THEN 0 ELSE l
        /\ workers = 0 => thread_count' = thread_count /\ pos' = pos /\ l = 0
  BY Taken
<1>2. workers \in Nat /\ pos \in Nat /\ pos <= workers /\ (workers > 0 => pos < workers)
  BY WorkersInPool DEF TypeOK
<1>3. loopOf' \in [Conn -> {NoLoop} \cup 0 .. workers]
  BY <1>1 DEF TypeOK
<1>4. thread_count' \in [Worker -> Nat]
  <2>1. CASE workers = 0
    BY <1>1, <2>1 DEF TypeOK
  <2>2. CASE workers > 0
    <3>1. l \in Worker /\ thread_count \in [Worker -> Nat]
      BY <1>1, <1>2, <2>2, WorkersInPool DEF TypeOK
    <3> QED BY <1>1, <2>2, <3>1, Counting
  <2> QED BY <1>2, <2>1, <2>2
<1>5. pos' \in Nat /\ pos' <= workers /\ (workers > 0 => pos' < workers)
  BY <1>1, <1>2
<1>6. userdata' \in [Conn -> {"none", "server", "handle"}]
  BY Taken DEF TypeOK
<1> QED
  BY <1>3, <1>4, <1>5, <1>6

LEMMA TypeStep == TypeOK /\ PoolOK /\ [Next]_vars => TypeOK'
<1> SUFFICES ASSUME TypeOK, PoolOK, [Next]_vars
             PROVE  TypeOK'
  OBVIOUS
<1> USE WorkersInPool
        DEF TypeOK, StartingPool, Accepting, pool, robin, io, stream, ghosts
<1>1. CASE CreateThread
  BY <1>1 DEF CreateThread
<1>2. CASE TestStarted
  <2>1. starting \in 1 .. workers /\ starting + 1 \in 1 .. workers + 1
    BY <1>2 DEF TestStarted, PoolOK
  <2>2. CASE eventLoop[starting]
    BY <1>2, <2>1, <2>2 DEF TestStarted
  <2>3. CASE ~eventLoop[starting]
    BY <1>2, <2>3 DEF TestStarted
  <2> QED BY <2>2, <2>3
<1>3. CASE Wakeup
  BY <1>3 DEF Wakeup, Awake
<1>4. CASE SpuriousWakeup
  <2>1. wakeups' \in Nat
    BY <1>4 DEF SpuriousWakeup
  <2> QED BY <1>4, <2>1 DEF SpuriousWakeup, Awake
<1>5. CASE Listen
  BY <1>5 DEF Listen
<1>6. CASE AcceptTcp
  <2>1. TakeConn
    BY <1>6 DEF AcceptTcp
  <2>2. cur' \in Conn /\ backlog' \in Seq(Conn)
    BY <2>1, Taken
  <2>3. /\ loopOf' \in [Conn -> {NoLoop} \cup 0 .. workers]
        /\ thread_count' \in [Worker -> Nat]
        /\ pos' \in Nat /\ pos' <= workers /\ (workers > 0 => pos' < workers)
        /\ userdata' \in [Conn -> {"none", "server", "handle"}]
    BY <2>1, TakenTypes
  <2>4. /\ registered' \in [Conn -> BOOLEAN]
        /\ cb' \in [Conn -> {"none", "handle_event", "ssl_server_handshake"}]
    BY <1>6, <2>2 DEF AcceptTcp
  <2>5. accepts' \in [Conn -> Nat]
    BY <1>6, <2>2, Counting DEF AcceptTcp
  <2> QED BY <1>6, <2>2, <2>3, <2>4, <2>5 DEF AcceptTcp
<1>7. CASE SetUserdata
  BY <1>7 DEF SetUserdata
<1>8. CASE SetReadCb
  BY <1>8 DEF SetReadCb
<1>9. CASE SetCloseCb
  BY <1>9 DEF SetCloseCb
<1>10. CASE AcceptSsl
  <2>1. TakeConn
    BY <1>10 DEF AcceptSsl
  <2>2. cur' \in Conn /\ backlog' \in Seq(Conn)
    BY <2>1, Taken
  <2>3. /\ loopOf' \in [Conn -> {NoLoop} \cup 0 .. workers]
        /\ thread_count' \in [Worker -> Nat]
        /\ pos' \in Nat /\ pos' <= workers /\ (workers > 0 => pos' < workers)
        /\ userdata' \in [Conn -> {"none", "server", "handle"}]
    BY <2>1, TakenTypes
  <2>4. /\ registered' \in [Conn -> BOOLEAN] /\ closed' \in [Conn -> BOOLEAN]
        /\ cb' \in [Conn -> {"none", "handle_event", "ssl_server_handshake"}]
    BY <1>10 DEF AcceptSsl
  <2>5. flights' \in [Conn -> Nat] /\ inbox' \in [Conn -> Nat]
    <3>1. \/ /\ flights' = [flights EXCEPT ![cur'] = flights[cur'] + inbox[cur']]
             /\ inbox' = [inbox EXCEPT ![cur'] = 0]
          \/ flights' = flights /\ inbox' = inbox
      BY <1>10 DEF AcceptSsl
    <3>2. flights \in [Conn -> Nat] /\ inbox \in [Conn -> Nat]
      OBVIOUS
    <3> HIDE DEF TypeOK
    <3>3. flights[cur'] + inbox[cur'] \in Nat /\ 0 \in Nat
      BY <2>2, <3>2
    <3>4. /\ [flights EXCEPT ![cur'] = flights[cur'] + inbox[cur']] \in [Conn -> Nat]
          /\ [inbox EXCEPT ![cur'] = 0] \in [Conn -> Nat]
      BY <2>2, <3>3, <3>2, Setting
    <3> QED BY <3>1, <3>2, <3>4
  <2> QED BY <1>10, <2>2, <2>3, <2>4, <2>5 DEF AcceptSsl
<1>11. ASSUME NEW w \in Worker, WorkerLock(w)
      PROVE  TypeOK'
  BY <1>11 DEF WorkerLock
<1>12. ASSUME NEW w \in Worker, WorkerSignal(w)
      PROVE  TypeOK'
  BY <1>12 DEF WorkerSignal
<1>13. ASSUME NEW c \in Conn, Served(c)
      PROVE  TypeOK'
  <2>1. /\ registered' \in [Conn -> BOOLEAN] /\ read_cb' \in [Conn -> BOOLEAN]
        /\ close_cb' \in [Conn -> BOOLEAN] /\ closed' \in [Conn -> BOOLEAN]
        /\ deleted' \in [Conn -> BOOLEAN] /\ early' \in [Conn -> BOOLEAN]
        /\ cb' \in [Conn -> {"none", "handle_event", "ssl_server_handshake"}]
        /\ userdata' \in [Conn -> {"none", "server", "handle"}]
        /\ flights' \in [Conn -> Nat] /\ inbox' \in [Conn -> Nat]
        /\ buffered' \in [Conn -> Nat] /\ delivered' \in [Conn -> Nat]
        /\ accepts' \in [Conn -> Nat]
    <3>1. CASE ReadMessage(c)
      <4>1. inbox' \in [Conn -> Nat] /\ early' \in [Conn -> BOOLEAN]
        BY <3>1, Counting DEF ReadMessage
      <4>2. closed' \in [Conn -> BOOLEAN] /\ registered' \in [Conn -> BOOLEAN]
            /\ deleted' \in [Conn -> BOOLEAN]
        <5>1. CloseConn(c) \/ UNCHANGED <<closed, registered, deleted>>
          <6> HIDE DEF TypeOK
          <6> QED BY <3>1 DEF ReadMessage
        <5>2. CASE UNCHANGED <<closed, registered, deleted>>
          BY <5>2
        <5>3. CASE CloseConn(c)
          <6>1. /\ closed' = [closed EXCEPT ![c] = TRUE]
                /\ registered' = [registered EXCEPT ![c] = FALSE]
                /\ deleted' = [deleted EXCEPT ![c] = close_cb[c]]
            BY <5>3 DEF CloseConn
          <6>2. /\ closed \in [Conn -> BOOLEAN] /\ registered \in [Conn -> BOOLEAN]
                /\ deleted \in [Conn -> BOOLEAN] /\ close_cb[c] \in BOOLEAN
            OBVIOUS
          <6> HIDE DEF TypeOK
          <6> QED BY <6>1, <6>2
        <5> QED BY <5>1, <5>2, <5>3
      <4>3. buffered' = buffered \/ buffered' = [buffered EXCEPT ![c] = @ + 1]
        BY <3>1 DEF ReadMessage
      <4>4. delivered' = delivered \/ delivered' = [delivered EXCEPT ![c] = @ + 1]
        BY <3>1 DEF ReadMessage
      <4>5. buffered' \in [Conn -> Nat] /\ delivered' \in [Conn -> Nat]
        <5>1. buffered \in [Conn -> Nat] /\ delivered \in [Conn -> Nat]
          OBVIOUS
        <5> HIDE DEF TypeOK
        <5> QED BY <4>3, <4>4, <5>1, Counting
      <4> QED BY <3>1, <4>1, <4>2, <4>5 DEF ReadMessage
    <3>2. CASE ReadEnd(c)
      BY <3>2 DEF ReadEnd, CloseConn
    <3>3. CASE Handshake(c)
      <4>1. closed' \in [Conn -> BOOLEAN] /\ registered' \in [Conn -> BOOLEAN]
            /\ deleted' \in [Conn -> BOOLEAN]
        BY <3>3 DEF Handshake, CloseConn
      <4>2. flights' \in [Conn -> Nat] /\ inbox' \in [Conn -> Nat]
        <5>1. CASE flights' = flights /\ inbox' = inbox
          BY <5>1
        <5>2. CASE /\ inbox[c] > 0
                   /\ flights' = [flights EXCEPT ![c] = IF @ < Flights THEN @ + 1 ELSE @]
                   /\ inbox' = [inbox EXCEPT ![c] = IF flights[c] < Flights THEN @ - 1 ELSE @]
          <6>1. flights[c] + 1 \in Nat /\ inbox[c] - 1 \in Nat
            BY <5>2
          <6> QED BY <5>2, <6>1
        <5> QED BY <3>3, <5>1, <5>2 DEF Handshake
      <4>3. \/ Established(c)
            \/ UNCHANGED <<accepts, userdata, read_cb, close_cb, cb>>
        BY <3>3 DEF Handshake
      <4>4. /\ userdata' \in [Conn -> {"none", "server", "handle"}]
            /\ cb' \in [Conn -> {"none", "handle_event", "ssl_server_handshake"}]
            /\ read_cb' \in [Conn -> BOOLEAN] /\ close_cb' \in [Conn -> BOOLEAN]
        BY <4>3 DEF Established
      <4>5. accepts' \in [Conn -> Nat]
        <5>1. accepts' = accepts \/ accepts' = [accepts EXCEPT ![c] = @ + 1]
          BY <4>3 DEF Established
        <5>2. accepts \in [Conn -> Nat]
          OBVIOUS
        <5> HIDE DEF TypeOK
        <5> QED BY <5>1, <5>2, Counting
      <4> QED BY <3>3, <4>1, <4>2, <4>4, <4>5 DEF Handshake
    <3> QED BY <1>13, <3>1, <3>2, <3>3 DEF Served, Serve
  <2> QED BY <1>13, <2>1 DEF Served, Serve
<1>14. ASSUME NEW c \in Conn, ClientConnects(c)
      PROVE  TypeOK'
  <2>1. backlog' \in Seq(Conn)
    BY <1>14, AppendProperties DEF ClientConnects
  <2> QED BY <1>14, <2>1 DEF ClientConnects
<1>15. ASSUME NEW c \in Conn, ClientShakesHands(c)
      PROVE  TypeOK'
  BY <1>15 DEF ClientShakesHands
<1>16. ASSUME NEW c \in Conn, ClientSends(c)
      PROVE  TypeOK'
  <2>1. inbox' \in [Conn -> Nat] /\ sent' \in [Conn -> Nat]
    BY <1>16, Counting DEF ClientSends
  <2> QED BY <1>16, <2>1 DEF ClientSends
<1>17. ASSUME NEW c \in Conn, ClientCloses(c)
      PROVE  TypeOK'
  BY <1>17 DEF ClientCloses
<1>18. CASE UNCHANGED vars
  BY <1>18 DEF vars
<1> QED
  BY <1>1, <1>2, <1>3, <1>4, <1>5, <1>6, <1>7, <1>8, <1>9, <1>10, <1>11,
     <1>12, <1>13, <1>14, <1>15, <1>16, <1>17, <1>18, ServesServed DEF Next, MainStep, WorkerStep

-----------------------------------------------------------------------------
(* The pool, the backlog, and the turns of the workers.                    *)

LEMMA PoolInit == Init => PoolOK /\ BacklogOK
<1> SUFFICES ASSUME Init PROVE PoolOK /\ BacklogOK
  OBVIOUS
<1>1. starting = 1 /\ mainPc = "create" /\ \A c \in Conn : loopOf[c] = NoLoop
  BY DEF Init, All
<1>2. PoolOK
  BY <1>1 DEF PoolOK, StartingPool
<1>3. Len(backlog) = 0
  BY EmptySeq DEF Init
<1> QED
  BY <1>2, <1>3 DEF BacklogOK

LEMMA PoolStep == TypeOK /\ PoolOK /\ [Next]_vars => PoolOK'
<1> SUFFICES ASSUME TypeOK, PoolOK, [Next]_vars
             PROVE  PoolOK'
  OBVIOUS
<1>a. workers \in Nat /\ 1 .. workers \subseteq Worker /\ starting \in Nat
      /\ eventLoop \in [Worker -> BOOLEAN]
  BY WorkersInPool DEF TypeOK
<1> USE DEF PoolOK, StartingPool, Accepting, pool, robin, io, stream, ghosts
<1>u. ASSUME UNCHANGED <<workers, starting, mainPc, eventLoop, loopOf>>
      PROVE  PoolOK'
  BY <1>u
<1>1. CASE CreateThread
  BY <1>1, <1>a DEF CreateThread
<1>2. CASE TestStarted
  <2>1. CASE eventLoop[starting]
    BY <1>2, <1>a, <2>1 DEF TestStarted
  <2>2. CASE ~eventLoop[starting]
    BY <1>2, <2>2 DEF TestStarted
  <2> QED BY <2>1, <2>2
<1>3. CASE Wakeup
  BY <1>3 DEF Wakeup, Awake
<1>4. CASE SpuriousWakeup
  BY <1>4 DEF SpuriousWakeup, Awake
<1>5. CASE Listen
  BY <1>5, <1>a DEF Listen
<1>6. CASE AcceptTcp
  BY <1>6, Taken DEF AcceptTcp
<1>7. CASE SetUserdata
  BY <1>7 DEF SetUserdata
<1>8. CASE SetReadCb
  BY <1>8 DEF SetReadCb
<1>9. CASE SetCloseCb
  BY <1>9 DEF SetCloseCb
<1>10. CASE AcceptSsl
  BY <1>10, Taken DEF AcceptSsl
<1>11. ASSUME NEW w \in Worker, WorkerLock(w)
      PROVE  PoolOK'
  BY <1>11, <1>u DEF WorkerLock
<1>12. ASSUME NEW w \in Worker, WorkerSignal(w)
      PROVE  PoolOK'
  BY <1>12, <1>a DEF WorkerSignal
<1>13. ASSUME NEW c \in Conn, Served(c)
      PROVE  PoolOK'
  BY <1>13, <1>u DEF Served, Serve
<1>14. ASSUME NEW c \in Conn, ClientConnects(c)
      PROVE  PoolOK'
  BY <1>14, <1>u DEF ClientConnects
<1>15. ASSUME NEW c \in Conn, ClientShakesHands(c)
      PROVE  PoolOK'
  BY <1>15, <1>u DEF ClientShakesHands
<1>16. ASSUME NEW c \in Conn, ClientSends(c)
      PROVE  PoolOK'
  BY <1>16, <1>u DEF ClientSends
<1>17. ASSUME NEW c \in Conn, ClientCloses(c)
      PROVE  PoolOK'
  BY <1>17, <1>u DEF ClientCloses
<1>18. CASE UNCHANGED vars
  BY <1>18, <1>u DEF vars
<1> QED
  BY <1>1, <1>2, <1>3, <1>4, <1>5, <1>6, <1>7, <1>8, <1>9, <1>10, <1>11,
     <1>12, <1>13, <1>14, <1>15, <1>16, <1>17, <1>18, ServesServed DEF Next, MainStep, WorkerStep

\* Taking the first connection leaves the others of the backlog without a loop.
LEMMA TakenBacklog ==
    ASSUME TypeOK, BacklogOK, TakeConn
    PROVE  loopOf[cur'] = NoLoop /\ BacklogOK'
<1>1. /\ backlog \in Seq(Conn) /\ backlog # << >>
      /\ cur' = Head(backlog) /\ backlog' = Tail(backlog) /\ cur' \in Conn
  BY Taken DEF TypeOK
<1>2. /\ Len(backlog) \in Nat \ {0} /\ cur' = backlog[1]
      /\ Len(backlog') = Len(backlog) - 1
      /\ \A a \in 1 .. Len(backlog') : backlog'[a] = backlog[a + 1]
  BY <1>1, HeadTailProperties, EmptySeq
<1>3. loopOf[cur'] = NoLoop
  BY <1>2 DEF BacklogOK
<1>4. \A a \in 1 .. Len(backlog') :
        a + 1 \in 1 .. Len(backlog) /\ a + 1 # 1
  BY <1>2
<1>5. \A a, b \in 1 .. Len(backlog') : backlog'[a] = backlog'[b] => a = b
  BY <1>2, <1>4 DEF BacklogOK
<1>6. \A a \in 1 .. Len(backlog') : loopOf'[backlog'[a]] = NoLoop
  <2> TAKE a \in 1 .. Len(backlog')
  <2>1. 1 \in 1 .. Len(backlog)
    BY <1>2
  <2>2. backlog'[a] # cur'
    BY <1>2, <1>4, <2>1 DEF BacklogOK
  <2>3. loopOf[backlog'[a]] = NoLoop
    BY <1>2, <1>4 DEF BacklogOK
  <2>4. \E l \in 0 .. workers : loopOf' = [loopOf EXCEPT ![cur'] = l]
    BY Taken
  <2>5. backlog'[a] \in Conn
    BY Taken, ElementOfSeq
  <2> QED BY <2>2, <2>3, <2>4, <2>5 DEF TypeOK
<1> QED
  BY <1>3, <1>5, <1>6 DEF BacklogOK

LEMMA BacklogStep == TypeOK /\ BacklogOK /\ [Next]_vars => BacklogOK'
<1> SUFFICES ASSUME TypeOK, BacklogOK, [Next]_vars
             PROVE  BacklogOK'
  OBVIOUS
<1> USE DEF pool, robin, io, stream, ghosts
<1>u. ASSUME UNCHANGED <<backlog, loopOf>>
      PROVE  BacklogOK'
  BY <1>u DEF BacklogOK
<1>1. CASE CreateThread
  BY <1>1, <1>u DEF CreateThread
<1>2. CASE TestStarted
  BY <1>2, <1>u DEF TestStarted
<1>3. CASE Wakeup
  BY <1>3, <1>u DEF Wakeup, Awake
<1>4. CASE SpuriousWakeup
  BY <1>4, <1>u DEF SpuriousWakeup, Awake
<1>5. CASE Listen
  BY <1>5, <1>u DEF Listen
<1>6. CASE AcceptTcp
  BY <1>6, TakenBacklog DEF AcceptTcp
<1>7. CASE SetUserdata
  BY <1>7, <1>u DEF SetUserdata
<1>8. CASE SetReadCb
  BY <1>8, <1>u DEF SetReadCb
<1>9. CASE SetCloseCb
  BY <1>9, <1>u DEF SetCloseCb
<1>10. CASE AcceptSsl
  BY <1>10, TakenBacklog DEF AcceptSsl
<1>11. ASSUME NEW w \in Worker, WorkerLock(w)
      PROVE  BacklogOK'
  BY <1>11, <1>u DEF WorkerLock
<1>12. ASSUME NEW w \in Worker, WorkerSignal(w)
      PROVE  BacklogOK'
  BY <1>12, <1>u DEF WorkerSignal
<1>13. ASSUME NEW c \in Conn, Served(c)
      PROVE  BacklogOK'
  BY <1>13, <1>u DEF Served, Serve
<1>14. ASSUME NEW c \in Conn, ClientConnects(c)
      PROVE  BacklogOK'
  <2>1. /\ backlog \in Seq(Conn) /\ backlog' = Append(backlog, c)
        /\ loopOf[c] = NoLoop /\ loopOf' = loopOf
    BY <1>14 DEF ClientConnects, TypeOK
  <2>2. /\ Len(backlog) \in Nat /\ Len(backlog') = Len(backlog) + 1
        /\ \A a \in 1 .. Len(backlog) : backlog'[a] = backlog[a]
        /\ backlog'[Len(backlog) + 1] = c
    BY <2>1, AppendProperties, LenProperties
  <2>3. \A a \in 1 .. Len(backlog) : backlog[a] # c
    <3>1. c \notin ToSet(backlog)
      BY <1>14 DEF ClientConnects, IsQueued
    <3>2. DOMAIN backlog = 1 .. Len(backlog)
      BY <2>1, LenProperties
    <3> QED BY <3>1, <3>2 DEF ToSet
  <2>4. \A a \in 1 .. Len(backlog') : a \in 1 .. Len(backlog) \/ a = Len(backlog) + 1
    BY <2>2
  <2> QED BY <2>1, <2>2, <2>3, <2>4 DEF BacklogOK
<1>15. ASSUME NEW c \in Conn, ClientShakesHands(c)
      PROVE  BacklogOK'
  BY <1>15, <1>u DEF ClientShakesHands
<1>16. ASSUME NEW c \in Conn, ClientSends(c)
      PROVE  BacklogOK'
  BY <1>16, <1>u DEF ClientSends
<1>17. ASSUME NEW c \in Conn, ClientCloses(c)
      PROVE  BacklogOK'
  BY <1>17, <1>u DEF ClientCloses
<1>18. CASE UNCHANGED vars
  BY <1>18, <1>u DEF vars
<1> QED
  BY <1>1, <1>2, <1>3, <1>4, <1>5, <1>6, <1>7, <1>8, <1>9, <1>10, <1>11,
     <1>12, <1>13, <1>14, <1>15, <1>16, <1>17, <1>18, ServesServed DEF Next, MainStep, WorkerStep

LEMMA GivenType == \A w : IsFiniteSet({c \in Conn : loopOf[c] = w}) /\ Given(w) \in Nat
<1> TAKE w
<1>1. {c \in Conn : loopOf[c] = w} \in SUBSET Conn
  OBVIOUS
<1>2. IsFiniteSet({c \in Conn : loopOf[c] = w})
  BY <1>1, ConnsAreFinite, FS_Subset
<1> QED
  BY <1>2, FS_CardinalityType DEF Given

\* A connection without a loop that gets one counts for this loop alone.
LEMMA GivenGrows ==
    ASSUME loopOf \in [Conn -> Int], NEW c \in Conn, loopOf[c] = NoLoop,
           NEW l \in Nat, loopOf' = [loopOf EXCEPT ![c] = l]
    PROVE  \A w \in Nat : Given(w)' = IF w = l THEN Given(w) + 1 ELSE Given(w)
<1> TAKE w \in Nat
<1> DEFINE S == {d \in Conn : loopOf[d] = w}
           T == {d \in Conn : loopOf'[d] = w}
<1>1. Given(w) = Cardinality(S) /\ Given(w)' = Cardinality(T)
  BY DEF Given
<1>2. IsFiniteSet(S) /\ c \notin S
  BY GivenType DEF NoLoop
<1>3. CASE w = l
  <2>1. T = S \cup {c}
    BY <1>3
  <2>2. Cardinality(S \cup {c}) = Cardinality(S) + 1
    <3> HIDE DEF S
    <3> QED BY <1>2, FS_AddElement
  <2> QED BY <1>1, <1>3, <2>1, <2>2
<1>4. CASE w # l
  <2>1. T = S
    BY <1>2, <1>4
  <2> QED BY <1>1, <1>4, <2>1
<1> QED
  BY <1>3, <1>4

LEMMA RobinInit == Init => RobinOK
<1> SUFFICES ASSUME Init PROVE RobinOK
  OBVIOUS
<1>1. workers \in Nat /\ 1 .. workers \subseteq Worker
  BY WorkersInPool DEF Init
<1>2. \A w \in 1 .. workers : thread_count[w] = 0 /\ Ahead(w) = 0
  BY <1>1 DEF Init, Ahead
<1>3. \A w \in 1 .. workers : Given(w) = 0
  <2> TAKE w \in 1 .. workers
  <2>1. {c \in Conn : loopOf[c] = w} = {}
    BY DEF Init, All, NoLoop
  <2> QED BY <2>1, FS_EmptySet DEF Given
<1> QED
  BY <1>2, <1>3 DEF RobinOK

LEMMA TakenRobin ==
    ASSUME TypeOK, BacklogOK, RobinOK, TakeConn, UNCHANGED workers
    PROVE  RobinOK'
<1>1. PICK l \in 0 .. workers :
        /\ loopOf' = [loopOf EXCEPT ![cur'] = l]
        /\ workers > 0 => /\ l = pos + 1
                          /\ thread_count' = [thread_count EXCEPT ![l] = @ + 1]
                          /\ pos' = IF l = workers THEN 0 ELSE l
        /\ workers = 0 => thread_count' = thread_count /\ pos' = pos /\ l = 0
  BY Taken
<1>2. /\ workers \in Nat /\ 1 .. workers \subseteq Worker
      /\ pos \in Nat /\ (workers > 0 => pos < workers)
      /\ thread_count \in [Worker -> Nat]
  BY WorkersInPool DEF TypeOK
<1>3. \A w \in Nat : Given(w)' = IF w = l THEN Given(w) + 1 ELSE Given(w)
  <2>1. loopOf \in [Conn -> Int] /\ l \in Nat
    BY <1>1, <1>2 DEF TypeOK, NoLoop
  <2>2. cur' \in Conn /\ loopOf[cur'] = NoLoop
    BY Taken, TakenBacklog
  <2> QED BY <1>1, <2>1, <2>2, GivenGrows
<1>4. CASE workers = 0
  BY <1>2, <1>4 DEF RobinOK
<1>5. CASE workers > 0
  <2>1. /\ l \in 1 .. workers /\ l = pos + 1
        /\ \A w \in 1 .. workers :
              thread_count'[w] = IF w = l THEN thread_count[w] + 1 ELSE thread_count[w]
    BY <1>1, <1>2, <1>5
  <2>2. \A w \in 1 .. workers : thread_count'[w] = Given(w)'
    BY <1>2, <1>3, <2>1 DEF RobinOK
  <2>3. \A w \in 1 .. workers : thread_count[w] \in Nat
    BY <1>2
  <2>4. \A v, w \in 1 .. workers :
            thread_count[v] - (IF v <= pos THEN 1 ELSE 0)
            = thread_count[w] - (IF w <= pos THEN 1 ELSE 0)
    BY DEF RobinOK, Ahead
  <2>5. CASE l = workers
    <3>1. pos' = 0 /\ \A w \in 1 .. workers : w # l => w <= pos
      BY <1>1, <1>2, <1>5, <2>1, <2>5
    <3>2. \A w \in 1 .. workers : Ahead(w)' = 0
      BY <1>2, <3>1 DEF Ahead
    <3>3. \A v, w \in 1 .. workers : thread_count'[v] = thread_count'[w]
      <4> TAKE v, w \in 1 .. workers
      <4>1. thread_count[v] \in Nat /\ thread_count[w] \in Nat /\ ~(l <= pos)
        BY <1>2, <2>1, <2>3
      <4> QED BY <2>1, <2>4, <3>1, <4>1
    <3>4. \A w \in 1 .. workers : thread_count'[w] \in Nat
      BY <2>1, <2>3
    <3> QED BY <2>2, <3>2, <3>3, <3>4 DEF RobinOK
  <2>6. CASE l # workers
    <3>1. pos' = l /\ \A w \in 1 .. workers : w <= l <=> w <= pos \/ w = l
      BY <1>1, <1>2, <1>5, <2>1, <2>6
    <3>2. \A w \in 1 .. workers : Ahead(w)' = IF w <= pos \/ w = l THEN 1 ELSE 0
      BY <3>1 DEF Ahead
    <3>3. \A w \in 1 .. workers :
            thread_count'[w] - Ahead(w)' = thread_count[w] - (IF w <= pos THEN 1 ELSE 0)
      <4> TAKE w \in 1 .. workers
      <4>1. thread_count[w] \in Nat /\ ~(l <= pos)
        BY <1>2, <2>1, <2>3
      <4> QED BY <2>1, <3>2, <4>1
    <3> QED BY <2>2, <2>4, <3>3 DEF RobinOK
  <2> QED BY <2>5, <2>6
<1> QED
  BY <1>2, <1>4, <1>5

LEMMA RobinStep == TypeOK /\ BacklogOK /\ RobinOK /\ [Next]_vars => RobinOK'
<1> SUFFICES ASSUME TypeOK, BacklogOK, RobinOK, [Next]_vars
             PROVE  RobinOK'
  OBVIOUS
<1> USE DEF pool, robin, io, stream, ghosts
<1>u. ASSUME UNCHANGED <<workers, pos, thread_count, loopOf>>
      PROVE  RobinOK'
  BY <1>u DEF RobinOK, Given, Ahead
<1>1. CASE CreateThread
  BY <1>1, <1>u DEF CreateThread
<1>2. CASE TestStarted
  BY <1>2, <1>u DEF TestStarted
<1>3. CASE Wakeup
  BY <1>3, <1>u DEF Wakeup, Awake
<1>4. CASE SpuriousWakeup
  BY <1>4, <1>u DEF SpuriousWakeup, Awake
<1>5. CASE Listen
  BY <1>5, <1>u DEF Listen
<1>6. CASE AcceptTcp
  BY <1>6, TakenRobin DEF AcceptTcp
<1>7. CASE SetUserdata
  BY <1>7, <1>u DEF SetUserdata
<1>8. CASE SetReadCb
  BY <1>8, <1>u DEF SetReadCb
<1>9. CASE SetCloseCb
  BY <1>9, <1>u DEF SetCloseCb
<1>10. CASE AcceptSsl
  BY <1>10, TakenRobin DEF AcceptSsl
<1>11. ASSUME NEW w \in Worker, WorkerLock(w)
      PROVE  RobinOK'
  BY <1>11, <1>u DEF WorkerLock
<1>12. ASSUME NEW w \in Worker, WorkerSignal(w)
      PROVE  RobinOK'
  BY <1>12, <1>u DEF WorkerSignal
<1>13. ASSUME NEW c \in Conn, Served(c)
      PROVE  RobinOK'
  BY <1>13, <1>u DEF Served, Serve
<1>14. ASSUME NEW c \in Conn, ClientConnects(c)
      PROVE  RobinOK'
  BY <1>14, <1>u DEF ClientConnects
<1>15. ASSUME NEW c \in Conn, ClientShakesHands(c)
      PROVE  RobinOK'
  BY <1>15, <1>u DEF ClientShakesHands
<1>16. ASSUME NEW c \in Conn, ClientSends(c)
      PROVE  RobinOK'
  BY <1>16, <1>u DEF ClientSends
<1>17. ASSUME NEW c \in Conn, ClientCloses(c)
      PROVE  RobinOK'
  BY <1>17, <1>u DEF ClientCloses
<1>18. CASE UNCHANGED vars
  BY <1>18, <1>u DEF vars
<1> QED
  BY <1>1, <1>2, <1>3, <1>4, <1>5, <1>6, <1>7, <1>8, <1>9, <1>10, <1>11,
     <1>12, <1>13, <1>14, <1>15, <1>16, <1>17, <1>18, ServesServed DEF Next, MainStep, WorkerStep

LEMMA RobinImpliesEven ==
    TypeOK /\ PoolOK /\ RobinOK => WorkersShareEvenly
<1> SUFFICES ASSUME TypeOK, PoolOK, RobinOK,
                    NEW v \in 1 .. workers, NEW w \in 1 .. workers
             PROVE  /\ Given(w) - Given(v) \in {-1, 0, 1}
                    /\ thread_count[w] = Given(w)
                    /\ Given(w) > 0 => eventLoop[w]
  BY DEF WorkersShareEvenly
<1>1. Given(v) \in Nat /\ Given(w) \in Nat
  BY GivenType
<1>2. thread_count[w] = Given(w) /\ thread_count[v] = Given(v)
  BY DEF RobinOK
<1>3. thread_count[v] - Ahead(v) = thread_count[w] - Ahead(w)
  BY DEF RobinOK
<1>4. Ahead(v) \in {0, 1} /\ Ahead(w) \in {0, 1}
  BY DEF Ahead
<1>5. Given(w) - Given(v) \in {-1, 0, 1}
  BY <1>1, <1>2, <1>3, <1>4
<1>6. ASSUME Given(w) > 0 PROVE eventLoop[w]
  <2>1. PICK c \in Conn : loopOf[c] = w
    <3>1. {c \in Conn : loopOf[c] = w} # {}
      BY <1>6, FS_EmptySet DEF Given
    <3> QED BY <3>1
  <2>2. mainPc \notin StartingPool
    BY <2>1 DEF PoolOK, NoLoop
  <2> QED BY <2>2, WorkersInPool DEF PoolOK, TypeOK
<1> QED
  BY <1>2, <1>5, <1>6

-----------------------------------------------------------------------------
(* The callbacks and the messages of each connection.                      *)

LEMMA ConnInit == Init => ConnOK
<1> SUFFICES ASSUME Init PROVE ConnOK
  OBVIOUS
<1>1. MainOK
  BY DEF Init, MainOK, Accepting
<1>2. ASSUME NEW c \in Conn
      PROVE  FreshOf(c) /\ CallbacksOf(c)
  BY DEF Init, All, FreshOf, CallbacksOf
<1>3. ASSUME NEW c \in Conn
      PROVE  DataOf(c)
  BY SizesAreNatural DEF Init, All, DataOf
<1> QED
  BY <1>1, <1>2, <1>3 DEF ConnOK

\* What does not change of a connection keeps its invariants, while the main
\* thread does not leave on_accept.
LEMMA SameFields ==
    ASSUME NEW c \in Conn, Fields(c)' = Fields(c), UNCHANGED <<workers, protocol>>
    PROVE  /\ FreshOf(c) => FreshOf(c)'
           /\ DataOf(c) => DataOf(c)'
           /\ CallbacksOf(c) /\ UNCHANGED <<mainPc, cur>> => CallbacksOf(c)'
BY DEF Fields, FreshOf, DataOf, CallbacksOf

LEMMA SameMain ==
    ASSUME MainOK, UNCHANGED <<mainPc, cur, protocol>>,
           mainPc \in Accepting => UNCHANGED <<cb[cur], userdata[cur], read_cb[cur]>>
    PROVE  MainOK'
BY DEF MainOK, Accepting

\* The types of what is kept of one connection.
LEMMA FieldTypes ==
    ASSUME TypeOK, NEW c \in Conn
    PROVE  /\ {flights[c], inbox[c], sent[c], buffered[c], delivered[c],
               accepts[c]} \subseteq Nat
           /\ {registered[c], read_cb[c], close_cb[c], closed[c], deleted[c],
               early[c]} \subseteq BOOLEAN
<1>1. /\ flights[c] \in Nat /\ inbox[c] \in Nat /\ sent[c] \in Nat
      /\ buffered[c] \in Nat /\ delivered[c] \in Nat /\ accepts[c] \in Nat
  BY DEF TypeOK
<1>2. /\ registered[c] \in BOOLEAN /\ read_cb[c] \in BOOLEAN /\ close_cb[c] \in BOOLEAN
      /\ closed[c] \in BOOLEAN /\ deleted[c] \in BOOLEAN /\ early[c] \in BOOLEAN
  BY DEF TypeOK
<1> QED BY <1>1, <1>2

\* io_read_cb and ssl_server_handshake concern one connection.
LEMMA ServedOthers ==
    ASSUME TypeOK, NEW c \in Conn, Served(c), NEW d \in Conn, d # c
    PROVE  Fields(d)' = Fields(d)
<1> USE DEF TypeOK, Fields
<1>1. loopOf' = loopOf /\ sent' = sent
  BY DEF Served, Serve
<1>2. CASE ReadMessage(c)
  <2>1. registered'[d] = registered[d] /\ closed'[d] = closed[d] /\ deleted'[d] = deleted[d]
    <3>1. CloseConn(c) \/ UNCHANGED <<closed, registered, deleted>>
      <4> HIDE DEF TypeOK, Fields
      <4> QED BY <1>2 DEF ReadMessage
    <3>2. CASE CloseConn(c)
      BY <3>2, Zenon DEF CloseConn
    <3> QED BY <3>1, <3>2
  <2>2. buffered'[d] = buffered[d] /\ delivered'[d] = delivered[d]
    BY <1>2 DEF ReadMessage
  <2>3. inbox'[d] = inbox[d] /\ early'[d] = early[d]
    BY <1>2 DEF ReadMessage
  <2> QED BY <1>1, <1>2, <2>1, <2>2, <2>3 DEF ReadMessage
<1>3. CASE ReadEnd(c)
  BY <1>1, <1>3 DEF ReadEnd, CloseConn
<1>4. CASE Handshake(c)
  <2>1. registered'[d] = registered[d] /\ closed'[d] = closed[d] /\ deleted'[d] = deleted[d]
    BY <1>4 DEF Handshake, CloseConn
  <2>2. flights'[d] = flights[d] /\ inbox'[d] = inbox[d]
    BY <1>4 DEF Handshake
  <2>3. /\ accepts'[d] = accepts[d] /\ userdata'[d] = userdata[d] /\ cb'[d] = cb[d]
        /\ read_cb'[d] = read_cb[d] /\ close_cb'[d] = close_cb[d]
    BY <1>4 DEF Handshake, Established
  <2> QED BY <1>1, <1>4, <2>1, <2>2, <2>3 DEF Handshake
<1> QED
  BY <1>2, <1>3, <1>4 DEF Served, Serve

LEMMA ReadMessageOf ==
    ASSUME TypeOK, NEW c \in Conn, ReadMessage(c)
    PROVE  /\ cb[c] = "handle_event" /\ inbox[c] > 0
           /\ UNCHANGED <<flights, cb, userdata, read_cb, close_cb, accepts>>
           /\ inbox'[c] = inbox[c] - 1
           /\ early'[c] = (early[c] \/ ~close_cb[c])
           /\ \/ closed'[c] = closed[c] /\ registered'[c] = registered[c]
              \/ closed'[c] = TRUE /\ registered'[c] = FALSE /\ deleted'[c] = close_cb[c]
           /\ buffered'[c] # buffered[c] => ~read_cb[c]
           /\ buffered[c] + 1 # BufSize /\ read_cb[c] =>
                buffered'[c] = buffered[c] /\ delivered'[c] = delivered[c] + 1
<1> USE DEF TypeOK, ReadMessage
<1>1. /\ cb[c] = "handle_event" /\ inbox[c] > 0
      /\ UNCHANGED <<flights, cb, userdata, read_cb, close_cb, accepts>>
  OBVIOUS
<1>2. inbox'[c] = inbox[c] - 1 /\ early'[c] = (early[c] \/ ~close_cb[c])
  OBVIOUS
<1>3. \/ UNCHANGED <<closed, registered, deleted>>
      \/ closed'[c] = TRUE /\ registered'[c] = FALSE /\ deleted'[c] = close_cb[c]
  BY DEF CloseConn
<1>4. buffered'[c] # buffered[c] => ~read_cb[c]
  OBVIOUS
<1>5. buffered[c] + 1 # BufSize /\ read_cb[c] =>
            buffered'[c] = buffered[c] /\ delivered'[c] = delivered[c] + 1
  OBVIOUS
<1> QED
  BY <1>1, <1>2, <1>3, <1>4, <1>5

LEMMA ReadEndOf ==
    ASSUME TypeOK, NEW c \in Conn, ReadEnd(c)
    PROVE  /\ cb[c] = "handle_event" /\ closed'[c] = TRUE /\ registered'[c] = FALSE
           /\ deleted'[c] = close_cb[c] /\ early'[c] = (early[c] \/ ~close_cb[c])
           /\ UNCHANGED <<flights, buffered, delivered, inbox, cb, userdata, read_cb,
                          close_cb, accepts>>
BY DEF TypeOK, ReadEnd, CloseConn

LEMMA HandshakeOf ==
    ASSUME TypeOK, NEW c \in Conn, Handshake(c), flights[c] < Flights
    PROVE  /\ cb[c] = "ssl_server_handshake"
           /\ UNCHANGED <<buffered, delivered, early>>
           /\ \/ /\ inbox[c] > 0
                 /\ flights'[c] = flights[c] + 1 /\ inbox'[c] = inbox[c] - 1
                 /\ UNCHANGED <<closed, registered, deleted>>
                 /\ \/ /\ flights'[c] = Flights
                       /\ accepts'[c] = accepts[c] + 1 /\ userdata'[c] = "handle"
                       /\ read_cb'[c] = TRUE /\ close_cb'[c] = TRUE
                       /\ cb'[c] = "handle_event"
                    \/ /\ flights'[c] # Flights
                       /\ UNCHANGED <<accepts, userdata, read_cb, close_cb, cb>>
              \/ /\ closed'[c] = TRUE /\ registered'[c] = FALSE
                 /\ deleted'[c] = close_cb[c]
                 /\ UNCHANGED <<flights, inbox, accepts, userdata, read_cb, close_cb, cb>>
<1> USE DEF TypeOK
<1>1. cb[c] = "ssl_server_handshake" /\ UNCHANGED <<buffered, delivered, early>>
  BY DEF Handshake
<1>2. CASE /\ inbox[c] > 0
           /\ flights' = [flights EXCEPT ![c] = IF @ < Flights THEN @ + 1 ELSE @]
           /\ inbox' = [inbox EXCEPT ![c] = IF flights[c] < Flights THEN @ - 1 ELSE @]
           /\ IF flights'[c] = Flights THEN Established(c)
              ELSE UNCHANGED <<accepts, userdata, read_cb, close_cb, cb>>
           /\ UNCHANGED <<closed, registered, deleted>>
  <2>1. flights'[c] = flights[c] + 1 /\ inbox'[c] = inbox[c] - 1
    BY <1>2
  <2>2. CASE flights'[c] = Flights
    <3>1. /\ accepts'[c] = accepts[c] + 1 /\ userdata'[c] = "handle"
          /\ read_cb'[c] = TRUE /\ close_cb'[c] = TRUE /\ cb'[c] = "handle_event"
      BY <1>2, <2>2 DEF Established
    <3> QED BY <1>1, <1>2, <2>1, <2>2, <3>1
  <2>3. CASE flights'[c] # Flights
    BY <1>1, <1>2, <2>1, <2>3
  <2> QED BY <2>2, <2>3
<1>3. CASE /\ CloseConn(c)
           /\ UNCHANGED <<flights, inbox, accepts, userdata, read_cb, close_cb, cb>>
  BY <1>1, <1>3 DEF CloseConn
<1> QED
  BY <1>2, <1>3 DEF Handshake

\* The connection itself, handler by handler.
LEMMA ServedOne ==
    ASSUME TypeOK, ConnOK, NEW c \in Conn, Served(c)
    PROVE  FreshOf(c)' /\ CallbacksOf(c)' /\ DataOf(c)'
<1>1. FreshOf(c) /\ CallbacksOf(c) /\ DataOf(c)
  BY DEF ConnOK
<1>2. registered[c] /\ loopOf' = loopOf
      /\ UNCHANGED <<workers, protocol, mainPc, cur, sent>>
  BY DEF Served, Serve, pool
<1>3. loopOf[c] # NoLoop /\ ~closed[c]
  BY <1>1, <1>2 DEF FreshOf, CallbacksOf
<1>4. FreshOf(c)'
  BY <1>2, <1>3 DEF FreshOf
<1>5. cb[c] = "handle_event" /\ ~close_cb[c] => protocol = "tcp" /\ workers > 0
  <2> SUFFICES ASSUME cb[c] = "handle_event", ~close_cb[c]
               PROVE  protocol = "tcp" /\ workers > 0
    OBVIOUS
  <2>1. mainPc \in Accepting /\ protocol = "tcp"
    BY <1>1 DEF CallbacksOf, ConnOK, MainOK
  <2>2. loopOf[c] \in Nat \ {0} /\ loopOf[c] \in {NoLoop} \cup 0 .. workers
    BY <2>1 DEF Served, Accepting, TypeOK
  <2> QED BY <2>1, <2>2, WorkersInPool DEF NoLoop, TypeOK
<1>6. /\ flights[c] \in Nat /\ inbox[c] \in Nat /\ sent[c] \in Nat /\ buffered[c] \in Nat
      /\ delivered[c] \in Nat /\ accepts[c] \in Nat
  BY FieldTypes
<1>7. /\ registered[c] \in BOOLEAN /\ read_cb[c] \in BOOLEAN /\ close_cb[c] \in BOOLEAN
      /\ closed[c] \in BOOLEAN /\ deleted[c] \in BOOLEAN /\ early[c] \in BOOLEAN
  BY FieldTypes
<1>8. CASE ReadMessage(c)
  <2>1. CallbacksOf(c)'
    BY <1>1, <1>2, <1>3, <1>8, ReadMessageOf DEF CallbacksOf
  <2>2. CASE ~close_cb[c]
    <3>1. DataOf(c)'
      BY <1>1, <1>2, <1>5, <1>8, <2>2, ReadMessageOf DEF DataOf
    <3> QED BY <1>4, <2>1, <3>1
  <2>3. CASE early[c]
    <3>1. DataOf(c)'
      BY <1>1, <1>2, <1>8, <2>3, ReadMessageOf DEF DataOf
    <3> QED BY <1>4, <2>1, <3>1
  <2>4. CASE close_cb[c] /\ ~early[c]
    <3>1. /\ read_cb[c] /\ accepts[c] = 1 /\ buffered[c] = 0 /\ buffered[c] + 1 # BufSize
          /\ protocol = "tcp" \/ flights[c] = Flights
      <4>1. read_cb[c] /\ accepts[c] = 1 /\ buffered[c] = 0 /\ cb[c] = "handle_event"
        BY <1>1, <2>4 DEF CallbacksOf, DataOf
      <4>2. protocol = "tcp" \/ flights[c] = Flights
        BY <1>1, <4>1 DEF DataOf, TypeOK
      <4>3. 0 + 1 # BufSize
        BY SizesAreNatural
      <4> QED BY <4>1, <4>2, <4>3
    <3>2. /\ buffered'[c] = 0 /\ delivered'[c] = delivered[c] + 1 /\ inbox'[c] = inbox[c] - 1
          /\ ~early'[c]
          /\ UNCHANGED <<flights, cb, close_cb, accepts>>
          /\ closed'[c] = FALSE \/ deleted'[c] = TRUE
      BY <1>3, <1>7, <1>8, <2>4, <3>1, ReadMessageOf
    <3>3. sent'[c] = inbox'[c] + delivered'[c]
      BY <1>1, <1>2, <1>3, <1>6, <2>4, <3>1, <3>2 DEF DataOf
    <3>4. DataOf(c)'
      BY <1>1, <1>2, <2>4, <3>1, <3>2, <3>3 DEF DataOf
    <3> QED BY <1>4, <2>1, <3>4
  <2> QED BY <1>7, <2>2, <2>3, <2>4
<1>9. CASE ReadEnd(c)
  <2>1. CallbacksOf(c)'
    BY <1>1, <1>2, <1>9, ReadEndOf DEF CallbacksOf
  <2>2. accepts[c] = 1
    BY <1>1, <1>9, ReadEndOf DEF CallbacksOf
  <2>3. DataOf(c)'
    BY <1>1, <1>2, <1>5, <1>7, <1>9, <2>2, ReadEndOf DEF DataOf
  <2> QED BY <1>4, <2>1, <2>3
<1>10. CASE Handshake(c)
  <2>1. /\ cb[c] = "ssl_server_handshake" /\ flights[c] < Flights
        /\ protocol = "ssl" /\ accepts[c] = 0 /\ ~close_cb[c]
    BY <1>1, <1>10 DEF CallbacksOf, DataOf, Handshake
  <2>2. /\ ~early[c] /\ buffered[c] = 0 /\ sent[c] = 0 /\ delivered[c] = 0 /\ inbox[c] <= 1
        /\ flights[c] # Flights
    BY <1>1, <1>3, <1>6, <2>1, SizesAreNatural DEF DataOf
  <2>3. UNCHANGED <<buffered, delivered, early>>
    BY <1>10, <2>1, HandshakeOf
  <2>4. CASE /\ inbox[c] > 0 /\ flights'[c] = flights[c] + 1 /\ inbox'[c] = inbox[c] - 1
             /\ flights'[c] = Flights
             /\ accepts'[c] = accepts[c] + 1 /\ userdata'[c] = "handle"
             /\ read_cb'[c] = TRUE /\ close_cb'[c] = TRUE /\ cb'[c] = "handle_event"
             /\ UNCHANGED <<closed, registered, deleted>>
    <3>1. inbox'[c] = 0 /\ accepts'[c] = 1
      BY <1>6, <2>1, <2>2, <2>4
    <3>2. CallbacksOf(c)'
      BY <1>2, <1>3, <2>4, <3>1 DEF CallbacksOf
    <3>3. DataOf(c)'
      BY <1>2, <1>3, <2>1, <2>2, <2>3, <2>4, <3>1 DEF DataOf
    <3> QED BY <1>4, <3>2, <3>3
  <2>5. CASE /\ inbox[c] > 0 /\ flights'[c] = flights[c] + 1 /\ inbox'[c] = inbox[c] - 1
             /\ flights'[c] # Flights
             /\ UNCHANGED <<accepts, userdata, read_cb, close_cb, cb>>
             /\ UNCHANGED <<closed, registered, deleted>>
    <3>1. inbox'[c] = 0 /\ flights'[c] < Flights
      BY <1>6, <2>1, <2>2, <2>5, SizesAreNatural
    <3>2. CallbacksOf(c)'
      BY <1>1, <1>2, <1>3, <2>1, <2>5 DEF CallbacksOf
    <3>3. DataOf(c)'
      BY <1>2, <1>3, <2>1, <2>2, <2>3, <2>5, <3>1 DEF DataOf
    <3> QED BY <1>4, <3>2, <3>3
  <2>6. CASE /\ closed'[c] = TRUE /\ registered'[c] = FALSE /\ deleted'[c] = close_cb[c]
             /\ UNCHANGED <<flights, inbox, accepts, userdata, read_cb, close_cb, cb>>
    <3>1. CallbacksOf(c)'
      BY <1>1, <1>2, <2>1, <2>6 DEF CallbacksOf
    <3>2. DataOf(c)'
      BY <1>2, <1>7, <2>1, <2>2, <2>3, <2>6 DEF DataOf
    <3> QED BY <1>4, <3>1, <3>2
  <2> QED BY <1>10, <2>1, <2>4, <2>5, <2>6, HandshakeOf
<1> QED
  BY <1>8, <1>9, <1>10 DEF Served, Serve

LEMMA ServedStep ==
    ASSUME TypeOK, ConnOK, NEW c \in Conn, Served(c)
    PROVE  ConnOK'
<1>1. UNCHANGED <<workers, protocol, mainPc, cur>>
  BY DEF Served, Serve, pool
<1>2. \A d \in Conn : FreshOf(d)' /\ CallbacksOf(d)' /\ DataOf(d)'
  <2> TAKE d \in Conn
  <2>1. CASE d = c
    BY <2>1, ServedOne
  <2>2. CASE d # c
    BY <1>1, <2>2, ServedOthers, SameFields DEF ConnOK
  <2> QED BY <2>1, <2>2
<1>3. MainOK'
  <2>1. CASE mainPc \in Accepting /\ cur # c
    <3>1. cur \in Conn
      BY <2>1 DEF ConnOK, MainOK
    <3>2. Fields(cur)' = Fields(cur)
      BY <1>1, <2>1, <3>1, ServedOthers
    <3> QED BY <1>1, <2>1, <3>2, SameMain DEF ConnOK, Fields
  <2>2. CASE mainPc \in Accepting /\ cur = c
    <3>1. cb[c] = "handle_event"
      BY <2>2 DEF ConnOK, MainOK
    <3>2. UNCHANGED <<cb, userdata, read_cb>>
      BY <3>1, ReadMessageOf, ReadEndOf DEF Served, Serve, Handshake
    <3> QED BY <1>1, <2>2, <3>2, SameMain DEF ConnOK
  <2>3. CASE mainPc \notin Accepting
    BY <1>1, <2>3, SameMain DEF ConnOK
  <2> QED BY <2>1, <2>2, <2>3
<1> QED
  BY <1>2, <1>3 DEF ConnOK

\* io_accept_cb takes a connection: the others do not change, and of this one
\* only its loop, its counts and its user data.
LEMMA TakenFresh ==
    ASSUME TypeOK, BacklogOK, ConnOK, TakeConn
    PROVE  /\ mainPc = "loop" /\ cur' \in Conn
           /\ loopOf'[cur'] \in 0 .. workers /\ userdata'[cur'] = "server"
           /\ loopOf[cur'] = NoLoop
           /\ FreshOf(cur') /\ CallbacksOf(cur') /\ DataOf(cur')
           /\ \A d \in Conn : d # cur' => loopOf'[d] = loopOf[d] /\ userdata'[d] = userdata[d]
<1>1. mainPc = "loop" /\ cur' \in Conn
  BY Taken DEF TakeConn
<1>2. loopOf[cur'] = NoLoop
  BY TakenBacklog
<1>3. \E l \in 0 .. workers : loopOf' = [loopOf EXCEPT ![cur'] = l]
  BY Taken
<1>4. userdata' = [userdata EXCEPT ![cur'] = "server"]
  BY DEF TakeConn
<1>5. /\ loopOf'[cur'] \in 0 .. workers /\ userdata'[cur'] = "server"
      /\ \A d \in Conn : d # cur' => loopOf'[d] = loopOf[d] /\ userdata'[d] = userdata[d]
  BY <1>1, <1>3, <1>4 DEF TypeOK
<1> QED
  BY <1>1, <1>2, <1>5 DEF ConnOK

LEMMA AcceptTcpConn == TypeOK /\ BacklogOK /\ ConnOK /\ AcceptTcp => ConnOK'
<1> SUFFICES ASSUME TypeOK, BacklogOK, ConnOK, AcceptTcp
             PROVE  ConnOK'
  OBVIOUS
<1>1. TakeConn /\ protocol = "tcp"
  BY DEF AcceptTcp
<1>2. cur' \in Conn /\ loopOf[cur'] = NoLoop /\ mainPc = "loop"
  BY <1>1, TakenFresh
<1>3. FreshOf(cur') /\ CallbacksOf(cur') /\ DataOf(cur')
  BY <1>1, TakenFresh
<1>4. loopOf'[cur'] # NoLoop /\ userdata'[cur'] = "server"
  <2>1. workers \in Nat
    BY WorkersInPool DEF TypeOK
  <2>2. loopOf'[cur'] \in 0 .. workers /\ userdata'[cur'] = "server"
    BY <1>1, TakenFresh
  <2> QED BY <2>1, <2>2 DEF NoLoop
<1>5. /\ registered'[cur'] = TRUE /\ cb'[cur'] = "handle_event"
      /\ accepts'[cur'] = accepts[cur'] + 1 /\ mainPc' = "userdata"
      /\ UNCHANGED <<workers, protocol, read_cb, close_cb, closed, stream, deleted, early>>
  BY <1>2 DEF AcceptTcp, TypeOK
<1>6. \A d \in Conn : d # cur' => Fields(d)' = Fields(d)
  <2> TAKE d \in Conn
  <2> SUFFICES ASSUME d # cur' PROVE Fields(d)' = Fields(d)
    OBVIOUS
  <2>1. registered'[d] = registered[d] /\ cb'[d] = cb[d] /\ accepts'[d] = accepts[d]
    BY DEF AcceptTcp, TypeOK
  <2>2. loopOf'[d] = loopOf[d] /\ userdata'[d] = userdata[d]
    BY <1>1, TakenFresh
  <2> QED BY <1>5, <2>1, <2>2 DEF Fields, stream
<1>7. ASSUME NEW d \in Conn, d # cur'
      PROVE  FreshOf(d)' /\ CallbacksOf(d)' /\ DataOf(d)'
  <2>1. FreshOf(d)' /\ DataOf(d)'
    BY <1>5, <1>6, <1>7, SameFields DEF ConnOK
  <2>2. CallbacksOf(d)'
    BY <1>2, <1>5, <1>6, <1>7 DEF ConnOK, CallbacksOf, Fields, Accepting
  <2> QED BY <2>1, <2>2
<1>8. /\ accepts[cur'] = 0 /\ ~closed[cur'] /\ ~early[cur'] /\ buffered[cur'] = 0
      /\ delivered[cur'] = 0 /\ ~read_cb[cur'] /\ ~close_cb[cur']
  BY <1>2, <1>3 DEF FreshOf
<1>9. FreshOf(cur)' /\ CallbacksOf(cur)'
  BY <1>1, <1>4, <1>5, <1>8 DEF FreshOf, CallbacksOf, Accepting
<1>10. DataOf(cur)'
  BY <1>1, <1>3, <1>5, <1>8 DEF DataOf, stream
<1>11. MainOK'
  BY <1>1, <1>2, <1>5 DEF MainOK, Accepting
<1> QED
  BY <1>7, <1>9, <1>10, <1>11 DEF ConnOK

LEMMA AcceptSslConn == TypeOK /\ BacklogOK /\ ConnOK /\ AcceptSsl => ConnOK'
<1> SUFFICES ASSUME TypeOK, BacklogOK, ConnOK, AcceptSsl
             PROVE  ConnOK'
  OBVIOUS
<1>1. TakeConn /\ protocol = "ssl" /\ mainPc' = mainPc
  BY DEF AcceptSsl
<1>2. cur' \in Conn /\ loopOf[cur'] = NoLoop /\ mainPc = "loop"
  BY <1>1, TakenFresh
<1>3. FreshOf(cur') /\ CallbacksOf(cur') /\ DataOf(cur')
  BY <1>1, TakenFresh
<1>4. loopOf'[cur'] # NoLoop
  <2>1. workers \in Nat
    BY WorkersInPool DEF TypeOK
  <2>2. loopOf'[cur'] \in 0 .. workers /\ userdata'[cur'] = "server"
    BY <1>1, TakenFresh
  <2> QED BY <2>1, <2>2 DEF NoLoop
<1>5. UNCHANGED <<workers, protocol, read_cb, close_cb, sent, buffered, delivered,
                  accepts, deleted, early>>
  BY DEF AcceptSsl, ghosts
<1>6. /\ accepts[cur'] = 0 /\ ~closed[cur'] /\ ~early[cur'] /\ buffered[cur'] = 0
      /\ delivered[cur'] = 0 /\ ~read_cb[cur'] /\ ~close_cb[cur'] /\ flights[cur'] = 0
      /\ cb[cur'] = "none" /\ ~deleted[cur'] /\ ~registered[cur']
  BY <1>2, <1>3 DEF FreshOf
<1>7. flights[cur'] # Flights /\ 1 < Flights
  BY <1>6, SizesAreNatural
<1>8. sent[cur'] = 0 /\ inbox[cur'] <= 1 /\ inbox[cur'] \in Nat
  BY <1>1, <1>2, <1>3, <1>6, <1>7, FieldTypes DEF DataOf
<1>9. \A d \in Conn : d # cur' => Fields(d)' = Fields(d)
  <2> TAKE d \in Conn
  <2> SUFFICES ASSUME d # cur' PROVE Fields(d)' = Fields(d)
    OBVIOUS
  <2>1. loopOf'[d] = loopOf[d] /\ userdata'[d] = userdata[d]
    BY <1>1, TakenFresh
  <2>2. flights'[d] = flights[d] /\ inbox'[d] = inbox[d]
    BY DEF AcceptSsl, TypeOK
  <2>3. registered'[d] = registered[d] /\ cb'[d] = cb[d] /\ closed'[d] = closed[d]
    BY DEF AcceptSsl, TypeOK
  <2> QED BY <1>5, <2>1, <2>2, <2>3 DEF Fields
<1>10. ASSUME NEW d \in Conn, d # cur'
       PROVE  FreshOf(d)' /\ CallbacksOf(d)' /\ DataOf(d)'
  <2>1. FreshOf(d)' /\ DataOf(d)'
    BY <1>5, <1>9, <1>10, SameFields DEF ConnOK
  <2>2. CallbacksOf(d)'
    BY <1>1, <1>2, <1>5, <1>9, <1>10 DEF ConnOK, CallbacksOf, Fields, Accepting
  <2> QED BY <2>1, <2>2
<1>11. FreshOf(cur)'
  BY <1>4 DEF FreshOf
<1>12. CallbacksOf(cur)' /\ DataOf(cur)'
  <2>1. CASE /\ flights'[cur'] = flights[cur'] + inbox[cur'] /\ inbox'[cur'] = 0
             /\ registered'[cur'] = TRUE /\ cb'[cur'] = "ssl_server_handshake"
             /\ closed' = closed
    <3>1. flights'[cur'] < Flights
      BY <1>6, <1>7, <1>8, <2>1, SizesAreNatural
    <3>2. CallbacksOf(cur)'
      BY <1>1, <1>5, <1>6, <2>1 DEF CallbacksOf
    <3>3. DataOf(cur)'
      BY <1>1, <1>5, <1>6, <1>8, <2>1, <3>1, SizesAreNatural DEF DataOf
    <3> QED BY <3>2, <3>3
  <2>2. CASE /\ closed'[cur'] = TRUE
             /\ UNCHANGED <<flights, inbox, registered, cb>>
    <3>1. CallbacksOf(cur)'
      BY <1>5, <1>6, <2>2 DEF CallbacksOf
    <3>2. deleted[cur'] \in BOOLEAN /\ flights[cur'] # Flights
      BY <1>2, <1>7, FieldTypes
    <3>3. DataOf(cur)'
      BY <1>1, <1>5, <1>6, <2>2, <3>2 DEF DataOf
    <3> QED BY <3>1, <3>3
  <2>3. \/ /\ flights' = [flights EXCEPT ![cur'] = flights[cur'] + inbox[cur']]
           /\ inbox' = [inbox EXCEPT ![cur'] = 0]
           /\ registered' = [registered EXCEPT ![cur'] = TRUE]
           /\ cb' = [cb EXCEPT ![cur'] = "ssl_server_handshake"]
           /\ closed' = closed
        \/ /\ closed' = [closed EXCEPT ![cur'] = TRUE]
           /\ UNCHANGED <<flights, inbox, registered, cb>>
    BY DEF AcceptSsl
  <2>4. CASE /\ flights' = [flights EXCEPT ![cur'] = flights[cur'] + inbox[cur']]
             /\ inbox' = [inbox EXCEPT ![cur'] = 0]
             /\ registered' = [registered EXCEPT ![cur'] = TRUE]
             /\ cb' = [cb EXCEPT ![cur'] = "ssl_server_handshake"]
             /\ closed' = closed
    <3>1. /\ flights'[cur'] = flights[cur'] + inbox[cur'] /\ inbox'[cur'] = 0
          /\ registered'[cur'] = TRUE /\ cb'[cur'] = "ssl_server_handshake"
      BY <1>2, <2>4 DEF TypeOK
    <3> QED BY <2>1, <2>4, <3>1
  <2>5. CASE /\ closed' = [closed EXCEPT ![cur'] = TRUE]
             /\ UNCHANGED <<flights, inbox, registered, cb>>
    <3>1. closed'[cur'] = TRUE
      BY <1>2, <2>5 DEF TypeOK
    <3> QED BY <2>2, <2>5, <3>1
  <2> QED BY <2>3, <2>4, <2>5
<1>13. MainOK'
  BY <1>1, <1>2 DEF MainOK, Accepting
<1> QED
  BY <1>10, <1>11, <1>12, <1>13 DEF ConnOK

LEMMA ConnStep == TypeOK /\ BacklogOK /\ ConnOK /\ [Next]_vars => ConnOK'
<1> SUFFICES ASSUME TypeOK, BacklogOK, ConnOK, [Next]_vars
             PROVE  ConnOK'
  OBVIOUS
<1> USE SizesAreNatural DEF TypeOK, ConnOK, MainOK, FreshOf, CallbacksOf, DataOf,
        StartingPool, Accepting, pool, robin, io, stream, ghosts
<1>1. CASE CreateThread
  BY <1>1 DEF CreateThread
<1>2. CASE TestStarted
  BY <1>2 DEF TestStarted
<1>3. CASE Wakeup
  BY <1>3 DEF Wakeup, Awake
<1>4. CASE SpuriousWakeup
  BY <1>4 DEF SpuriousWakeup, Awake
<1>5. CASE Listen
  BY <1>5 DEF Listen
<1>6. CASE AcceptTcp
  BY <1>6, AcceptTcpConn
<1>7. CASE SetUserdata
  BY <1>7 DEF SetUserdata
<1>8. CASE SetReadCb
  <2>1. /\ read_cb' = [read_cb EXCEPT ![cur] = TRUE] /\ mainPc = "read_cb"
        /\ mainPc' = "close_cb"
        /\ UNCHANGED <<workers, protocol, cur, loopOf, registered, cb, userdata, close_cb,
                       closed, flights, inbox, sent, gone, buffered, delivered, accepts,
                       deleted, early>>
    BY <1>8 DEF SetReadCb
  <2>2. cur \in Conn /\ loopOf[cur] # NoLoop
    BY <2>1
  <2>3. read_cb'[cur] = TRUE /\ \A d \in Conn : d # cur => read_cb'[d] = read_cb[d]
    BY <2>1, <2>2
  <2> HIDE DEF TypeOK
  <2>4. MainOK' /\ \A d \in Conn : DataOf(d)'
    BY <2>1, <2>2, <2>3
  <2>5. \A d \in Conn : FreshOf(d)' /\ CallbacksOf(d)'
    BY <2>1, <2>2, <2>3
  <2> QED BY <2>4, <2>5
<1>9. CASE SetCloseCb
  <2>1. /\ close_cb' = [close_cb EXCEPT ![cur] = TRUE] /\ mainPc = "close_cb"
        /\ mainPc' = "loop"
        /\ UNCHANGED <<workers, protocol, loopOf, registered, cb, userdata, read_cb, closed,
                       flights, inbox, sent, gone, buffered, delivered, accepts, deleted,
                       early>>
    BY <1>9 DEF SetCloseCb
  <2>2. close_cb'[cur] = TRUE /\ \A d \in Conn : d # cur => close_cb'[d] = close_cb[d]
    BY <2>1
  <2> HIDE DEF TypeOK
  <2>3. MainOK' /\ \A d \in Conn : FreshOf(d)' /\ DataOf(d)'
    BY <2>1, <2>2
  <2>4. \A d \in Conn : CallbacksOf(d)'
    BY <2>1, <2>2
  <2> QED BY <2>3, <2>4
<1>10. CASE AcceptSsl
  BY <1>10, AcceptSslConn
<1>11. ASSUME NEW w \in Worker, WorkerLock(w)
      PROVE  ConnOK'
  BY <1>11 DEF WorkerLock
<1>12. ASSUME NEW w \in Worker, WorkerSignal(w)
      PROVE  ConnOK'
  BY <1>12 DEF WorkerSignal
<1>13. ASSUME NEW c \in Conn, Served(c)
      PROVE  ConnOK'
  BY <1>13, ServedStep
<1>14. ASSUME NEW c \in Conn, ClientConnects(c)
      PROVE  ConnOK'
  BY <1>14 DEF ClientConnects
<1>15. ASSUME NEW c \in Conn, ClientShakesHands(c)
      PROVE  ConnOK'
  <2>1. /\ inbox' = [inbox EXCEPT ![c] = 1] /\ protocol = "ssl" /\ flights[c] # Flights
        /\ UNCHANGED <<workers, protocol, mainPc, cur, loopOf, registered, cb, userdata,
                       read_cb, close_cb, closed, flights, sent, gone, buffered,
                       delivered, accepts, deleted, early>>
    BY <1>15 DEF ClientShakesHands
  <2>2. inbox'[c] = 1 /\ \A d \in Conn : d # c => inbox'[d] = inbox[d]
    BY <2>1
  <2> HIDE DEF TypeOK
  <2>3. MainOK' /\ \A d \in Conn : FreshOf(d)' /\ CallbacksOf(d)'
    BY <2>1
  <2>4. ASSUME NEW d \in Conn
        PROVE  DataOf(d)'
    <3>1. CASE d = c
      BY <2>1, <2>2, <3>1
    <3>2. CASE d # c
      BY <2>1, <2>2, <3>2
    <3> QED BY <3>1, <3>2
  <2> QED BY <2>3, <2>4
<1>16. ASSUME NEW c \in Conn, ClientSends(c)
      PROVE  ConnOK'
  <2>1. /\ sent' = [sent EXCEPT ![c] = @ + 1] /\ inbox' = [inbox EXCEPT ![c] = @ + 1]
        /\ protocol = "tcp" \/ flights[c] = Flights
        /\ UNCHANGED <<workers, protocol, mainPc, cur, loopOf, registered, cb, userdata,
                       read_cb, close_cb, closed, flights, gone, buffered, delivered,
                       accepts, deleted, early>>
    BY <1>16 DEF ClientSends
  <2>2. sent'[c] = sent[c] + 1 /\ inbox'[c] = inbox[c] + 1
    BY <2>1
  <2>3. \A d \in Conn : d # c => sent'[d] = sent[d] /\ inbox'[d] = inbox[d]
    BY <2>1
  <2>4. sent[c] \in Nat /\ inbox[c] \in Nat /\ delivered[c] \in Nat
    OBVIOUS
  <2> HIDE DEF TypeOK
  <2>5. ASSUME NEW d \in Conn
        PROVE  FreshOf(d)' /\ CallbacksOf(d)'
    BY <2>1, <2>5
  <2>6. ASSUME NEW d \in Conn
        PROVE  DataOf(d)'
    <3>1. CASE d = c
      BY <2>1, <2>2, <2>4, <3>1
    <3>2. CASE d # c
      BY <2>1, <2>3, <3>2
    <3> QED BY <3>1, <3>2
  <2>7. MainOK'
    BY <2>1
  <2> QED BY <2>5, <2>6, <2>7
<1>17. ASSUME NEW c \in Conn, ClientCloses(c)
      PROVE  ConnOK'
  BY <1>17 DEF ClientCloses
<1>18. CASE UNCHANGED vars
  BY <1>18 DEF vars
<1> QED
  BY <1>1, <1>2, <1>3, <1>4, <1>5, <1>6, <1>7, <1>8, <1>9, <1>10, <1>11,
     <1>12, <1>13, <1>14, <1>15, <1>16, <1>17, <1>18, ServesServed DEF Next, MainStep, WorkerStep

LEMMA ConnImpliesDelivered == TypeOK /\ ConnOK => DataReachesHandle
<1> SUFFICES ASSUME TypeOK, ConnOK, NEW c \in Conn
             PROVE  /\ early[c] => protocol = "tcp" /\ workers > 0
                    /\ accepts[c] <= 1
                    /\ ~early[c] =>
                        /\ buffered[c] = 0
                        /\ sent[c] > 0 /\ ~closed[c] => sent[c] = inbox[c] + delivered[c]
                        /\ delivered[c] > 0 => accepts[c] = 1 /\ userdata[c] = "handle"
                        /\ closed[c] => deleted[c] = (accepts[c] = 1)
  BY DEF DataReachesHandle
<1>1. CallbacksOf(c) /\ DataOf(c)
  BY DEF ConnOK
<1>2. /\ early[c] => protocol = "tcp" /\ workers > 0
      /\ ~early[c] => buffered[c] = 0 /\ (closed[c] => deleted[c] = (accepts[c] = 1))
  BY <1>1 DEF DataOf
<1>3. accepts[c] <= 1
  BY <1>1 DEF CallbacksOf
<1>4. ~early[c] /\ sent[c] > 0 /\ ~closed[c] => sent[c] = inbox[c] + delivered[c]
  BY <1>1 DEF DataOf
<1>5. ~early[c] /\ delivered[c] > 0 => accepts[c] = 1 /\ userdata[c] = "handle"
  BY <1>1 DEF CallbacksOf, DataOf
<1> QED
  BY <1>2, <1>3, <1>4, <1>5

-----------------------------------------------------------------------------
(* The theorems.                                                           *)

Inv == TypeOK /\ PoolOK /\ BacklogOK /\ RobinOK /\ ConnOK

LEMMA InvInit == Init => Inv
BY TypeInit, PoolInit, RobinInit, ConnInit DEF Inv

LEMMA InvStep == Inv /\ [Next]_vars => Inv'
BY TypeStep, PoolStep, BacklogStep, RobinStep, ConnStep DEF Inv

LEMMA InvHolds == Spec => []Inv
BY InvInit, InvStep, PTL DEF Spec

\* thread_pool_get_next_loop gives any number of workers, at any time, numbers
\* of connections that differ by one at most, counts them in thread_count, and
\* returns the loop of a worker that thread_pool_start has waited for.
THEOREM SharedEvenly == Spec => []WorkersShareEvenly
<1>1. Inv => WorkersShareEvenly
  BY RobinImpliesEven DEF Inv
<1> QED
  BY <1>1, InvHolds, PTL

\* However io_accept_cb and HttpServer::on_accept in the main thread, the
\* handshake and io_read_cb in the workers' threads, and the clients interleave:
\* a connection is accepted once, its messages reach the handle that on_accept
\* made, and the handle is deleted with it, unless a worker handled an event of
\* a TCP connection before on_accept had set the callbacks.
THEOREM DataDelivered == Spec => []DataReachesHandle
<1>1. Inv => DataReachesHandle
  BY ConnImpliesDelivered DEF Inv
<1> QED
  BY <1>1, InvHolds, PTL
=============================================================================
