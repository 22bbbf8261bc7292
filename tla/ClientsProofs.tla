---------------------------- MODULE ClientsProofs ----------------------------
(***************************************************************************)
(* Theorems about LoopThread and Clients, for any set of requests, any     *)
(* number of connections and frames, with and without a ping interval.     *)
(***************************************************************************)
EXTENDS Clients, FiniteSetTheorems, SequenceTheorems, TLAPS

ThreadTypeOK ==
    /\ initPc \in {"no", "new", "created", "asleep", "ready", "done", "failed"}
    /\ threadPc \in {"none", "start", "locked", "started", "run", "ended"}
    /\ mutex \in {"free", "thread"}
    /\ started \in BOOLEAN /\ signalled \in BOOLEAN /\ quit \in BOOLEAN
    /\ deletes \in Nat

\* How the two threads of an EventLoopThread depend on each other, and whose
\* ThreadArg has gone.
ThreadOK ==
    /\ threadPc = "none" <=> initPc \in {"no", "new", "failed"}
    /\ started <=> threadPc \in {"started", "run", "ended"}
    /\ mutex = "thread" <=> threadPc \in {"locked", "started"}
    /\ initPc \in {"ready", "done"} => threadPc \in {"run", "ended"}
    /\ quit => initPc = "done"
    /\ threadPc = "ended" => quit
    /\ deletes = IF initPc = "failed" THEN 2
                 ELSE IF initPc # "done" THEN 0
                 ELSE IF threadPc = "ended" THEN 2 ELSE 1

Names == {"onopen", "onmessage", "onclose"}
Messages == {"accept", "refuse", "frame"}
TaskStates == {"new", "posted", "unconnected", "silent", "asked", "whole", "head",
               "garbage", "gone", "removed"}

\* The types of what both threads use, of what the server sends, of the
\* requests, and of the rest.
SharedTypeOK ==
    /\ m_wsState \in {"closed", "connecting", "connected", "upgrading", "opened"}
    /\ io \in {"none", "new", "up", "closed"}
    /\ reading \in BOOLEAN /\ pingTimer \in BOOLEAN
    /\ calls \in Seq(Names)

ServerTypeOK == inbox \in Seq(Messages) /\ sent \in Nat /\ gone \in BOOLEAN

TasksTypeOK ==
    queue \in Seq(Tasks) /\ task \in [Tasks -> TaskStates] /\ cbs \in [Tasks -> Nat]

ThreadsTypeOK ==
    /\ ping \in BOOLEAN /\ raced \in BOOLEAN /\ hung \in BOOLEAN /\ garbled \in BOOLEAN
    /\ opens \in Nat /\ rest \in Nat
    /\ sendBuffer \in {"nobody", "app", "loop"} /\ failed \in {"no", "connect", "request"}
    /\ appPc \in {"idle", "init", "connect", "request", "upgrading", "enable", "send",
                  "close", "join", "end"}
    /\ loopPc \in {"idle", "close", "onclose", "closed", "accepted", "onopen", "timer",
                   "feed", "ping"}

TypeOK == SharedTypeOK /\ ServerTypeOK /\ TasksTypeOK /\ ThreadsTypeOK

\* A request is posted once, and its callback is over when its channel is.
TasksOK ==
    /\ \A a \in 1 .. Len(queue) : task[queue[a]] = "posted"
    /\ \A a, b \in 1 .. Len(queue) : queue[a] = queue[b] => a = b
    /\ \A t \in Tasks : cbs[t] = 0 \/ (cbs[t] = 1 /\ task[t] = "removed")

\* What a sequence of callbacks may look like.
NotEnded(s) == \A k \in 1 .. Len(s) : s[k] # "onclose"
EndedOnce(s) == \A j, k \in 1 .. Len(s) : s[j] = "onclose" /\ s[k] = "onclose" => j = k
EndedLast(s) == \A k \in 1 .. Len(s) : s[k] = "onclose" => k = Len(s)
OpenedFirst(s) == \A k \in 1 .. Len(s) : s[k] = "onopen" => k = 1
Announced(s) == s # << >> /\ s[1] = "onopen"

\* open() has the connection to itself until it is registered with the loop.
OpeningOK ==
    /\ appPc \in {"connect", "request", "upgrading", "enable"} =>
           loopPc = "idle" /\ ~reading
    /\ appPc = "connect" => io = "new" /\ failed = "no"
    /\ appPc = "request" => io = "up" /\ m_wsState = "connected" /\ failed = "no"
    /\ appPc \in {"connect", "request"} => sent = 0 /\ inbox = << >>
    /\ appPc = "upgrading" =>
           \/ io = "up" /\ m_wsState = "connected"
           \/ io = "closed" /\ m_wsState = "closed" /\ failed = "request" /\ sent = 0
    /\ appPc = "enable" => m_wsState = "upgrading"
    /\ appPc \in {"close", "join"} => io = "closed"
    /\ appPc \in {"send", "idle", "init"} => m_wsState # "connected"

\* m_wsState and the io of m_channel.
StateOK ==
    /\ m_wsState = "connecting" <=> io = "new"
    /\ io = "new" => appPc = "connect" \/ failed = "connect"
    /\ m_wsState = "connected" => appPc \in {"request", "upgrading"} /\ io = "up"
    /\ m_wsState = "upgrading" => \/ io = "up" \/ loopPc = "onclose"
                                  \/ io = "closed" /\ failed = "request"
    /\ m_wsState = "opened" => io = "up" \/ loopPc = "onclose"
    /\ io = "none" => m_wsState = "closed"
    /\ reading => io = "up"
    /\ m_wsState \in {"connected", "upgrading"} /\ loopPc = "idle" /\ sent > 0 =>
           inbox # << >>

\* Where the loop's thread is in a handler of the channel, and what is true
\* there as long as the program has not closed in its callback.
HandlerOK ==
    /\ loopPc = "accepted" => io = "up" /\ m_wsState = "upgrading"
    /\ loopPc = "onopen" => io = "up" /\ m_wsState = "opened"
    /\ loopPc \in {"timer", "feed"} =>
           \/ io = "up" /\ m_wsState = "opened"
           \/ io = "closed" /\ m_wsState = "closed" /\ hung
    /\ loopPc = "ping" => \/ io = "up" /\ m_wsState = "opened"
                          \/ io = "closed" /\ m_wsState = "closed"
    /\ loopPc = "close" => io = "up" \/ (io = "closed" /\ m_wsState = "closed")
    /\ loopPc = "onclose" => io = "closed"
    /\ loopPc = "closed" => io = "closed" /\ m_wsState = "closed"

\* The callbacks of the connection follow its io.
CallbacksOK ==
    /\ EndedOnce(calls) /\ OpenedFirst(calls)
    /\ ~hung => EndedLast(calls)
    /\ io # "closed" \/ loopPc = "onclose" => NotEnded(calls)
    /\ m_wsState \in {"connecting", "connected"} => calls = << >>
    /\ m_wsState = "upgrading" /\ io = "up" => calls = << >>
    /\ loopPc = "onopen" => calls = << >>
    /\ m_wsState = "opened" /\ loopPc # "onopen" => Announced(calls)

ClientOK == ~raced => OpeningOK /\ StateOK /\ HandlerOK /\ CallbacksOK

\* The ping timer is there while the connection is open, unless the program
\* closed in onopen.
PingOK ==
    /\ pingTimer => ping
    /\ loopPc = "ping" => ping
    /\ sendBuffer = "loop" => ping
    /\ appPc = "send" => sendBuffer # "nobody"
    /\ garbled => ping
    /\ ~raced => (pingTimer => m_wsState = "opened" \/ hung \/ loopPc = "onclose")

-----------------------------------------------------------------------------
(* The start and the end of the loop's thread.                             *)

\* What the steps of the clients do to the thread: only the first call that
\* needs it starts it.
LEMMA ThreadSteps ==
    ASSUME [CNext]_vars
    PROVE  \/ OfThread
           \/ /\ initPc' = initPc \/ (initPc = "no" /\ initPc' = "new")
              /\ UNCHANGED <<threadPc, mutex, started, signalled, deletes, quit>>
<1> USE DEF lvars
<1>1. CASE InitReturns
  BY <1>1 DEF InitReturns, Loop, Http, NeedThread
<1>2. CASE Open
  BY <1>2 DEF Open, Loop, Http, NeedThread
<1>3. CASE Connect
  BY <1>3 DEF Connect, Loop, Http, NeedThread
<1>4. CASE SendHttpRequest
  BY <1>4 DEF SendHttpRequest, Loop, Http, NeedThread
<1>5. CASE Upgrading
  BY <1>5 DEF Upgrading, Loop, Http, NeedThread
<1>6. CASE ReadEnable
  BY <1>6 DEF ReadEnable, Loop, Http, NeedThread
<1>7. CASE Send
  BY <1>7 DEF Send, Loop, Http, NeedThread
<1>8. CASE CloseOrDelete
  BY <1>8 DEF CloseOrDelete, Loop, Http, NeedThread
<1>9. CASE CloseReturns
  BY <1>9 DEF CloseReturns, Loop, Http, NeedThread
<1>10. CASE Join
  BY <1>10 DEF Join, Loop, Http, NeedThread
<1>11. CASE ServerSends
  BY <1>11 DEF ServerSends, Loop, Http, NeedThread
<1>12. CASE ServerCloses
  BY <1>12 DEF ServerCloses, Loop, Http, NeedThread
<1>13. CASE OnRead
  BY <1>13 DEF OnRead, Loop, Http, NeedThread
<1>14. CASE OnReadEnd
  BY <1>14 DEF OnReadEnd, Loop, Http, NeedThread
<1>15. CASE Closing
  BY <1>15 DEF Closing, Loop, Http, NeedThread
<1>16. CASE ClosingCallback
  BY <1>16 DEF ClosingCallback, Loop, Http, NeedThread
<1>17. CASE Closed
  BY <1>17 DEF Closed, Loop, Http, NeedThread
<1>18. CASE Opened
  BY <1>18 DEF Opened, Loop, Http, NeedThread
<1>19. CASE OnOpen
  BY <1>19 DEF OnOpen, Loop, Http, NeedThread
<1>20. CASE AddPingTimer
  BY <1>20 DEF AddPingTimer, Loop, Http, NeedThread
<1>21. CASE Feed
  BY <1>21 DEF Feed, Loop, Http, NeedThread
<1>22. CASE Ping
  BY <1>22 DEF Ping, Loop, Http, NeedThread
<1>23. CASE DoTask
  BY <1>23 DEF DoTask, Loop, Http, NeedThread
<1>24. CASE OfThread
  BY <1>24 DEF OfThread, Loop, Http, NeedThread
<1>25. ASSUME NEW t \in Tasks, AsyncSend(t)
      PROVE  \/ OfThread
             \/ /\ initPc' = initPc \/ (initPc = "no" /\ initPc' = "new")
                /\ UNCHANGED <<threadPc, mutex, started, signalled, deletes, quit>>
  BY <1>25 DEF AsyncSend, Loop, Http, NeedThread
<1>26. ASSUME NEW t \in Tasks, HttpServerActs(t)
      PROVE  \/ OfThread
             \/ /\ initPc' = initPc \/ (initPc = "no" /\ initPc' = "new")
                /\ UNCHANGED <<threadPc, mutex, started, signalled, deletes, quit>>
  BY <1>26 DEF HttpServerActs, Loop, Http, NeedThread
<1>27. ASSUME NEW t \in Tasks, HttpOnRead(t)
      PROVE  \/ OfThread
             \/ /\ initPc' = initPc \/ (initPc = "no" /\ initPc' = "new")
                /\ UNCHANGED <<threadPc, mutex, started, signalled, deletes, quit>>
  BY <1>27 DEF HttpOnRead, Loop, Http, NeedThread
<1>28. CASE UNCHANGED vars
  BY <1>28 DEF vars, Loop, Http, NeedThread
<1> QED
  BY <1>1, <1>2, <1>3, <1>4, <1>5, <1>6, <1>7, <1>8, <1>9, <1>10, <1>11,
     <1>12, <1>13, <1>14, <1>15, <1>16, <1>17, <1>18, <1>19, <1>20, <1>21,
     <1>22, <1>23, <1>24, <1>25, <1>26, <1>27, <1>28
     DEF CNext, OfApp, OfServers, OfLoop

LEMMA ThreadInit == CInit => ThreadTypeOK /\ ThreadOK
<1> SUFFICES ASSUME CInit PROVE ThreadTypeOK /\ ThreadOK
  OBVIOUS
<1>1. ThreadTypeOK
  BY DEF CInit, LInit, ThreadTypeOK
<1>2. ThreadOK
  BY DEF CInit, LInit, ThreadOK
<1> QED
  BY <1>1, <1>2

LEMMA ThreadStep ==
    ThreadTypeOK /\ ThreadOK /\ [CNext]_vars => ThreadTypeOK' /\ ThreadOK'
<1> SUFFICES ASSUME ThreadTypeOK, ThreadOK, [CNext]_vars
             PROVE  ThreadTypeOK' /\ ThreadOK'
  OBVIOUS
<1>1. CASE /\ initPc' = initPc \/ (initPc = "no" /\ initPc' = "new")
           /\ UNCHANGED <<threadPc, mutex, started, signalled, deletes, quit>>
  BY <1>1 DEF ThreadTypeOK, ThreadOK
<1>2. CASE OfThread
  <2> USE DEF ThreadTypeOK, ThreadOK
  <2>1. CASE Create
    BY <2>1 DEF Create
  <2>2. CASE CallerWait
    BY <2>2 DEF CallerWait
  <2>3. CASE CallerReturn
    BY <2>3 DEF CallerReturn
  <2>4. CASE ThreadLock
    BY <2>4 DEF ThreadLock
  <2>5. CASE ThreadSignal
    BY <2>5 DEF ThreadSignal
  <2>6. CASE ThreadUnlock
    BY <2>6 DEF ThreadUnlock
  <2>7. CASE Stop
    BY <2>7 DEF Stop
  <2>8. CASE ThreadEnd
    BY <2>8 DEF ThreadEnd
  <2> QED
    BY <1>2, <2>1, <2>2, <2>3, <2>4, <2>5, <2>6, <2>7, <2>8 DEF OfThread, LNext
<1> QED
  BY <1>1, <1>2, ThreadSteps

LEMMA ThreadImpliesSafe == ThreadTypeOK /\ ThreadOK => StartIsSafe
BY DEF ThreadTypeOK, ThreadOK, StartIsSafe

-----------------------------------------------------------------------------
(* The sequences of callbacks.                                             *)

LEMMA NoCalls ==
    /\ << >> \in Seq(Names) /\ NotEnded(<< >>) /\ EndedOnce(<< >>)
    /\ EndedLast(<< >>) /\ OpenedFirst(<< >>)
BY DEF NotEnded, EndedOnce, EndedLast, OpenedFirst

LEMMA OneMore ==
    ASSUME NEW s \in Seq(Names), NEW n \in Names
    PROVE  /\ Append(s, n) \in Seq(Names) /\ Append(s, n) # << >>
           /\ Len(s) \in Nat /\ Len(Append(s, n)) = Len(s) + 1
           /\ Append(s, n)[Len(s) + 1] = n
           /\ \A k \in 1 .. Len(s) : Append(s, n)[k] = s[k]
BY AppendProperties

\* onclose ends a connection that has not ended.
LEMMA EndCalls ==
    ASSUME NEW s \in Seq(Names), NotEnded(s)
    PROVE  /\ Append(s, "onclose") \in Seq(Names)
           /\ EndedOnce(Append(s, "onclose")) /\ EndedLast(Append(s, "onclose"))
           /\ OpenedFirst(s) => OpenedFirst(Append(s, "onclose"))
<1> DEFINE c == Append(s, "onclose")
<1>1. /\ c \in Seq(Names) /\ Len(s) \in Nat /\ Len(c) = Len(s) + 1
      /\ c[Len(s) + 1] = "onclose" /\ \A k \in 1 .. Len(s) : c[k] = s[k]
  BY OneMore DEF Names
<1> HIDE DEF c
<1>2. \A k \in 1 .. Len(c) : c[k] = "onclose" => k = Len(c)
  BY <1>1 DEF NotEnded
<1>3. EndedOnce(c) /\ EndedLast(c)
  BY <1>2 DEF EndedOnce, EndedLast
<1>4. OpenedFirst(s) => OpenedFirst(c)
  BY <1>1 DEF OpenedFirst
<1> QED
  BY <1>1, <1>3, <1>4 DEF c

\* onmessage comes in between, or after the end when the program closed.
LEMMA MessageCalls ==
    ASSUME NEW s \in Seq(Names)
    PROVE  /\ Append(s, "onmessage") \in Seq(Names)
           /\ NotEnded(s) => /\ NotEnded(Append(s, "onmessage"))
                             /\ EndedLast(Append(s, "onmessage"))
           /\ EndedOnce(s) => EndedOnce(Append(s, "onmessage"))
           /\ OpenedFirst(s) => OpenedFirst(Append(s, "onmessage"))
           /\ Announced(s) => Announced(Append(s, "onmessage"))
<1> DEFINE c == Append(s, "onmessage")
<1>1. /\ c \in Seq(Names) /\ Len(s) \in Nat /\ Len(c) = Len(s) + 1 /\ c # << >>
      /\ c[Len(s) + 1] = "onmessage" /\ \A k \in 1 .. Len(s) : c[k] = s[k]
  BY OneMore DEF Names
<1>2. s # << >> => Len(s) # 0
  BY EmptySeq
<1> HIDE DEF c
<1>3. NotEnded(s) => NotEnded(c) /\ EndedLast(c)
  BY <1>1 DEF NotEnded, EndedLast
<1>4. EndedOnce(s) => EndedOnce(c)
  BY <1>1 DEF EndedOnce
<1>5. OpenedFirst(s) => OpenedFirst(c)
  BY <1>1 DEF OpenedFirst
<1>6. Announced(s) => Announced(c)
  BY <1>1, <1>2 DEF Announced
<1> QED
  BY <1>1, <1>3, <1>4, <1>5, <1>6 DEF c

\* onopen is the first.
LEMMA OpenCalls ==
    LET c == Append(<< >>, "onopen")
    IN  /\ c \in Seq(Names) /\ NotEnded(c) /\ EndedOnce(c) /\ EndedLast(c)
        /\ OpenedFirst(c) /\ Announced(c)
<1> DEFINE c == Append(<< >>, "onopen")
<1>1. c \in Seq(Names) /\ Len(c) = 1 /\ c # << >> /\ c[1] = "onopen"
  BY OneMore, NoCalls DEF Names
<1> HIDE DEF c
<1>2. NotEnded(c) /\ EndedOnce(c) /\ EndedLast(c) /\ OpenedFirst(c) /\ Announced(c)
  BY <1>1 DEF NotEnded, EndedOnce, EndedLast, OpenedFirst, Announced
<1> QED
  BY <1>1, <1>2 DEF c

-----------------------------------------------------------------------------
(* The requests of the HttpClient.                                         *)

\* Who touches the requests.
LEMMA TaskSteps ==
    ASSUME [CNext]_vars
    PROVE  \/ UNCHANGED tasks
           \/ DoTask
           \/ \E t \in Tasks : AsyncSend(t) \/ HttpServerActs(t) \/ HttpOnRead(t)
<1> USE DEF tasks
<1>1. CASE InitReturns
  BY <1>1 DEF InitReturns, Loop
<1>2. CASE Open
  BY <1>2 DEF Open, Loop
<1>3. CASE Connect
  BY <1>3 DEF Connect, Loop
<1>4. CASE SendHttpRequest
  BY <1>4 DEF SendHttpRequest, Loop
<1>5. CASE Upgrading
  BY <1>5 DEF Upgrading, Loop
<1>6. CASE ReadEnable
  BY <1>6 DEF ReadEnable, Loop
<1>7. CASE Send
  BY <1>7 DEF Send, Loop
<1>8. CASE CloseOrDelete
  BY <1>8 DEF CloseOrDelete, Loop
<1>9. CASE CloseReturns
  BY <1>9 DEF CloseReturns, Loop
<1>10. CASE Join
  BY <1>10 DEF Join, Loop
<1>11. CASE ServerSends
  BY <1>11 DEF ServerSends, Loop
<1>12. CASE ServerCloses
  BY <1>12 DEF ServerCloses, Loop
<1>13. CASE OnRead
  BY <1>13 DEF OnRead, Loop
<1>14. CASE OnReadEnd
  BY <1>14 DEF OnReadEnd, Loop
<1>15. CASE Closing
  BY <1>15 DEF Closing, Loop
<1>16. CASE ClosingCallback
  BY <1>16 DEF ClosingCallback, Loop
<1>17. CASE Closed
  BY <1>17 DEF Closed, Loop
<1>18. CASE Opened
  BY <1>18 DEF Opened, Loop
<1>19. CASE OnOpen
  BY <1>19 DEF OnOpen, Loop
<1>20. CASE AddPingTimer
  BY <1>20 DEF AddPingTimer, Loop
<1>21. CASE Feed
  BY <1>21 DEF Feed, Loop
<1>22. CASE Ping
  BY <1>22 DEF Ping, Loop
<1>23. CASE DoTask
  BY <1>23
<1>24. CASE OfThread
  BY <1>24 DEF OfThread, Loop
<1>25. ASSUME NEW t \in Tasks, AsyncSend(t)
      PROVE  \/ UNCHANGED tasks
             \/ DoTask
             \/ \E d \in Tasks : AsyncSend(d) \/ HttpServerActs(d) \/ HttpOnRead(d)
  BY <1>25
<1>26. ASSUME NEW t \in Tasks, HttpServerActs(t)
      PROVE  \/ UNCHANGED tasks
             \/ DoTask
             \/ \E d \in Tasks : AsyncSend(d) \/ HttpServerActs(d) \/ HttpOnRead(d)
  BY <1>26
<1>27. ASSUME NEW t \in Tasks, HttpOnRead(t)
      PROVE  \/ UNCHANGED tasks
             \/ DoTask
             \/ \E d \in Tasks : AsyncSend(d) \/ HttpServerActs(d) \/ HttpOnRead(d)
  BY <1>27
<1>28. CASE UNCHANGED vars
  BY <1>28 DEF vars, Loop
<1> QED
  BY <1>1, <1>2, <1>3, <1>4, <1>5, <1>6, <1>7, <1>8, <1>9, <1>10, <1>11,
     <1>12, <1>13, <1>14, <1>15, <1>16, <1>17, <1>18, <1>19, <1>20, <1>21,
     <1>22, <1>23, <1>24, <1>25, <1>26, <1>27, <1>28
     DEF CNext, OfApp, OfServers, OfLoop

LEMMA TasksInit == CInit => TasksTypeOK /\ TasksOK
BY DEF CInit, TasksTypeOK, TasksOK, TaskStates

\* A request in the queue is posted; what happens to others leaves the queue alone.
LEMMA OtherTask ==
    ASSUME TasksTypeOK, TasksOK, NEW t \in Tasks, task[t] # "posted",
           NEW to \in TaskStates, task' = [task EXCEPT ![t] = to],
           queue' = queue,
           \/ cbs' = cbs /\ (cbs[t] = 1 => to = "removed")
           \/ cbs' = [cbs EXCEPT ![t] = 1] /\ to = "removed"
    PROVE  TasksTypeOK' /\ TasksOK'
<1>1. TasksTypeOK'
  BY DEF TasksTypeOK
<1>2. \A a \in 1 .. Len(queue) : task'[queue[a]] = "posted"
  <2> TAKE a \in 1 .. Len(queue)
  <2>1. queue[a] \in Tasks /\ queue[a] # t
    BY ElementOfSeq DEF TasksTypeOK, TasksOK
  <2> QED BY <2>1 DEF TasksTypeOK, TasksOK
<1>3. \A d \in Tasks : cbs'[d] = 0 \/ (cbs'[d] = 1 /\ task'[d] = "removed")
  <2> TAKE d \in Tasks
  <2>1. CASE d = t
    BY <2>1 DEF TasksTypeOK, TasksOK
  <2>2. CASE d # t
    BY <2>2 DEF TasksTypeOK, TasksOK
  <2> QED BY <2>1, <2>2
<1> QED
  BY <1>1, <1>2, <1>3 DEF TasksOK

LEMMA TasksStep ==
    TasksTypeOK /\ TasksOK /\ [CNext]_vars => TasksTypeOK' /\ TasksOK'
<1> SUFFICES ASSUME TasksTypeOK, TasksOK, [CNext]_vars
             PROVE  TasksTypeOK' /\ TasksOK'
  OBVIOUS
<1>1. CASE UNCHANGED tasks
  BY <1>1 DEF tasks, TasksTypeOK, TasksOK
<1>2. CASE DoTask
  <2>1. /\ queue # << >> /\ queue' = Tail(queue) /\ cbs' = cbs
        /\ \E to \in TaskStates : task' = [task EXCEPT ![Head(queue)] = to]
    BY <1>2 DEF DoTask, TaskStates
  <2>2. /\ Len(queue) \in Nat \ {0} /\ Head(queue) = queue[1] /\ Head(queue) \in Tasks
        /\ queue' \in Seq(Tasks) /\ Len(queue') = Len(queue) - 1
        /\ \A a \in 1 .. Len(queue') : queue'[a] = queue[a + 1]
    BY <2>1, HeadTailProperties, EmptySeq DEF TasksTypeOK
  <2>3. \A a \in 1 .. Len(queue') :
          a + 1 \in 1 .. Len(queue) /\ a + 1 # 1 /\ 1 \in 1 .. Len(queue)
    BY <2>2
  <2>4. TasksTypeOK'
    BY <2>1, <2>2 DEF TasksTypeOK
  <2>5. \A a \in 1 .. Len(queue') : task'[queue'[a]] = "posted"
    <3> TAKE a \in 1 .. Len(queue')
    <3>1. queue'[a] # Head(queue) /\ queue'[a] \in Tasks /\ task[queue'[a]] = "posted"
      BY <2>2, <2>3, ElementOfSeq DEF TasksOK
    <3> QED BY <2>1, <3>1 DEF TasksTypeOK
  <2>6. \A a, b \in 1 .. Len(queue') : queue'[a] = queue'[b] => a = b
    <3> TAKE a, b \in 1 .. Len(queue')
    <3>1. queue'[a] = queue'[b] => a + 1 = b + 1
      BY <2>2, <2>3 DEF TasksOK
    <3> QED BY <3>1
  <2>7. \A t \in Tasks : cbs'[t] = 0 \/ (cbs'[t] = 1 /\ task'[t] = "removed")
    <3> TAKE t \in Tasks
    <3>1. task[Head(queue)] = "posted"
      BY <2>2 DEF TasksOK
    <3> QED BY <2>1, <3>1 DEF TasksTypeOK, TasksOK
  <2> QED BY <2>4, <2>5, <2>6, <2>7 DEF TasksOK
<1>3. ASSUME NEW t \in Tasks, AsyncSend(t)
      PROVE  TasksTypeOK' /\ TasksOK'
  <2>1. CASE UNCHANGED <<queue, task, cbs>>
    BY <2>1 DEF TasksTypeOK, TasksOK
  <2>2. CASE /\ task[t] = "new" /\ queue' = Append(queue, t)
             /\ task' = [task EXCEPT ![t] = "posted"] /\ cbs' = cbs
    <3>1. /\ queue' \in Seq(Tasks) /\ Len(queue) \in Nat /\ Len(queue') = Len(queue) + 1
          /\ queue'[Len(queue) + 1] = t
          /\ \A a \in 1 .. Len(queue) : queue'[a] = queue[a]
      BY <2>2, AppendProperties DEF TasksTypeOK
    <3>2. \A a \in 1 .. Len(queue) : queue[a] \in Tasks /\ queue[a] # t
      BY <2>2, ElementOfSeq DEF TasksTypeOK, TasksOK
    <3>3. \A a \in 1 .. Len(queue') : a \in 1 .. Len(queue) \/ a = Len(queue) + 1
      BY <3>1
    <3>4. TasksTypeOK'
      BY <2>2, <3>1 DEF TasksTypeOK, TaskStates
    <3>5. \A a \in 1 .. Len(queue') : task'[queue'[a]] = "posted"
      <4> TAKE a \in 1 .. Len(queue')
      <4>1. CASE a \in 1 .. Len(queue)
        BY <2>2, <3>1, <3>2, <4>1 DEF TasksTypeOK, TasksOK
      <4>2. CASE a = Len(queue) + 1
        BY <2>2, <3>1, <4>2 DEF TasksTypeOK
      <4> QED BY <3>3, <4>1, <4>2
    <3>6. \A a, b \in 1 .. Len(queue') : queue'[a] = queue'[b] => a = b
      BY <3>1, <3>2, <3>3 DEF TasksOK
    <3>7. \A d \in Tasks : cbs'[d] = 0 \/ (cbs'[d] = 1 /\ task'[d] = "removed")
      BY <2>2 DEF TasksTypeOK, TasksOK
    <3> QED BY <3>4, <3>5, <3>6, <3>7 DEF TasksOK
  <2> QED BY <1>3, <2>1, <2>2 DEF AsyncSend
<1>4. ASSUME NEW t \in Tasks, HttpServerActs(t)
      PROVE  TasksTypeOK' /\ TasksOK'
  <2>1. /\ task[t] \in {"asked", "silent"} /\ queue' = queue /\ cbs' = cbs
        /\ \E to \in TaskStates : task' = [task EXCEPT ![t] = to]
    BY <1>4 DEF HttpServerActs, TaskStates
  <2>2. cbs[t] # 1 /\ task[t] # "posted"
    BY <2>1 DEF TasksOK
  <2> QED BY <2>1, <2>2, OtherTask
<1>5. ASSUME NEW t \in Tasks, HttpOnRead(t)
      PROVE  TasksTypeOK' /\ TasksOK'
  <2>1. /\ task[t] \in {"whole", "head", "garbage", "gone"} /\ queue' = queue
        /\ task' = [task EXCEPT ![t] = "removed"]
        /\ cbs' = cbs \/ cbs' = [cbs EXCEPT ![t] = @ + 1]
    BY <1>5 DEF HttpOnRead
  <2>2. cbs[t] = 0 /\ task[t] # "posted"
    BY <2>1 DEF TasksOK
  <2>3. cbs' = cbs \/ cbs' = [cbs EXCEPT ![t] = 1]
    BY <2>1, <2>2
  <2>4. "removed" \in TaskStates
    BY DEF TaskStates
  <2> QED BY <2>1, <2>2, <2>3, <2>4, OtherTask
<1> QED
  BY <1>1, <1>2, <1>3, <1>4, <1>5, TaskSteps

-----------------------------------------------------------------------------
(* Type correctness.                                                       *)

LEMMA TypeInit == CInit => TypeOK
<1> SUFFICES ASSUME CInit PROVE TypeOK
  OBVIOUS
<1>1. << >> \in Seq(Messages) /\ << >> \in Seq(Names)
  OBVIOUS
<1>2. ping \in BOOLEAN
  BY PingsAreBoolean DEF CInit
<1>3. SharedTypeOK /\ ServerTypeOK /\ ThreadsTypeOK
  BY <1>1, <1>2 DEF CInit, SharedTypeOK, ServerTypeOK, ThreadsTypeOK
<1> QED
  BY <1>3, TasksInit DEF TypeOK

LEMMA IoCloseType ==
    ASSUME SharedTypeOK, NEW before \in Seq(Names), IoClose(before)
    PROVE  SharedTypeOK'
BY OneMore DEF SharedTypeOK, IoClose, OnClose, Names

LEMMA CallbackType ==
    ASSUME SharedTypeOK, hung \in BOOLEAN, NEW n \in Names, Callback(n)
    PROVE  SharedTypeOK' /\ hung' \in BOOLEAN
<1>1. Append(calls, n) \in Seq(Names)
  BY OneMore DEF SharedTypeOK
<1>2. CASE calls' = Append(calls, n) /\ UNCHANGED <<shared, hung>>
  BY <1>1, <1>2 DEF SharedTypeOK, shared
<1>3. CASE IoClose(Append(calls, n)) /\ hung' = TRUE
  BY <1>1, <1>3, IoCloseType
<1> QED
  BY <1>2, <1>3 DEF Callback

LEMMA TypeStep == TypeOK /\ TasksOK /\ [CNext]_vars => TypeOK'
<1> SUFFICES ASSUME TypeOK, TasksOK, [CNext]_vars
             PROVE  SharedTypeOK' /\ ServerTypeOK' /\ ThreadsTypeOK'
  BY TasksStep DEF TypeOK
<1> USE DEF TypeOK, shared, server, ghosts, Loop, Http, NeedThread
<1>1. CASE InitReturns
  <2>1. SharedTypeOK'
    BY <1>1 DEF InitReturns, SharedTypeOK
  <2>2. ServerTypeOK'
    BY <1>1 DEF InitReturns, ServerTypeOK, Messages
  <2>3. ThreadsTypeOK'
    BY <1>1 DEF InitReturns, ThreadsTypeOK
  <2> QED BY <2>1, <2>2, <2>3
<1>2. CASE Open
  <2>1. CASE initPc = "no"
    <3>1. appPc' = "init" /\ UNCHANGED <<shared, server, opens, calls, failed, raced, hung>>
      BY <1>2, <2>1 DEF Open
    <3> QED BY <1>2, <3>1 DEF Open, SharedTypeOK, ServerTypeOK, ThreadsTypeOK
  <2>2. CASE initPc # "no"
    <3>1. /\ appPc' = "connect" /\ m_wsState' = "connecting" /\ io' = "new"
          /\ reading' = FALSE /\ inbox' = << >> /\ sent' = 0 /\ gone' = FALSE
          /\ opens' = opens + 1 /\ calls' = << >> /\ failed' = "no"
          /\ raced' = (raced \/ InHandler) /\ UNCHANGED <<hung, pingTimer>>
      BY <1>2, <2>2 DEF Open
    <3>2. SharedTypeOK'
      BY <3>1, NoCalls DEF SharedTypeOK
    <3>3. ServerTypeOK'
      <4>1. << >> \in Seq(Messages)
        OBVIOUS
      <4> QED BY <3>1, <4>1 DEF ServerTypeOK
    <3>4. UNCHANGED <<ping, sendBuffer, loopPc, rest, garbled>>
      BY <1>2 DEF Open
    <3>5. ThreadsTypeOK'
      BY <3>1, <3>4 DEF ThreadsTypeOK, InHandler
    <3> QED BY <3>2, <3>3, <3>5
  <2> QED BY <2>1, <2>2
<1>3. CASE Connect
  <2>1. \/ UNCHANGED <<m_wsState, io, reading, pingTimer, calls>>
        \/ IoClose(calls)
        \/ io' = "up" /\ m_wsState' = "connected" /\ UNCHANGED <<reading, pingTimer, calls>>
    BY <1>3 DEF Connect
  <2>2. SharedTypeOK'
    BY <2>1, IoCloseType DEF SharedTypeOK
  <2>3. ServerTypeOK'
    BY <1>3 DEF Connect, ServerTypeOK
  <2>4. ThreadsTypeOK'
    BY <1>3 DEF Connect, ThreadsTypeOK
  <2> QED BY <2>2, <2>3, <2>4
<1>4. CASE SendHttpRequest
  <2>1. UNCHANGED <<m_wsState, io, reading, pingTimer, calls>> \/ IoClose(calls)
    BY <1>4 DEF SendHttpRequest
  <2>2. SharedTypeOK'
    BY <2>1, IoCloseType DEF SharedTypeOK
  <2>3. ServerTypeOK'
    BY <1>4 DEF SendHttpRequest, ServerTypeOK
  <2>4. ThreadsTypeOK'
    BY <1>4 DEF SendHttpRequest, ThreadsTypeOK
  <2> QED BY <2>2, <2>3, <2>4
<1>5. CASE Upgrading
  <2>1. SharedTypeOK'
    BY <1>5 DEF Upgrading, SharedTypeOK
  <2>2. ServerTypeOK'
    BY <1>5 DEF Upgrading, ServerTypeOK, Messages
  <2>3. ThreadsTypeOK'
    BY <1>5 DEF Upgrading, ThreadsTypeOK
  <2> QED BY <2>1, <2>2, <2>3
<1>6. CASE ReadEnable
  <2>1. SharedTypeOK'
    BY <1>6 DEF ReadEnable, SharedTypeOK
  <2>2. ServerTypeOK'
    BY <1>6 DEF ReadEnable, ServerTypeOK, Messages
  <2>3. ThreadsTypeOK'
    BY <1>6 DEF ReadEnable, ThreadsTypeOK
  <2> QED BY <2>1, <2>2, <2>3
<1>7. CASE Send
  <2>1. UNCHANGED <<m_wsState, io, reading, pingTimer, calls>> \/ IoClose(calls)
    BY <1>7 DEF Send
  <2>2. SharedTypeOK'
    BY <2>1, IoCloseType DEF SharedTypeOK
  <2>3. ServerTypeOK'
    BY <1>7 DEF Send, ServerTypeOK
  <2>4. ThreadsTypeOK'
    BY <1>7 DEF Send, ThreadsTypeOK
  <2> QED BY <2>2, <2>3, <2>4
<1>8. CASE CloseOrDelete
  <2>1. UNCHANGED <<m_wsState, io, reading, pingTimer, calls>> \/ IoClose(calls)
    BY <1>8 DEF CloseOrDelete
  <2>2. SharedTypeOK'
    BY <2>1, IoCloseType DEF SharedTypeOK
  <2>3. ServerTypeOK'
    BY <1>8 DEF CloseOrDelete, ServerTypeOK
  <2>4. ThreadsTypeOK'
    BY <1>8 DEF CloseOrDelete, ThreadsTypeOK
  <2> QED BY <2>2, <2>3, <2>4
<1>9. CASE CloseReturns
  <2>1. SharedTypeOK'
    BY <1>9 DEF CloseReturns, SharedTypeOK
  <2>2. ServerTypeOK'
    BY <1>9 DEF CloseReturns, ServerTypeOK, Messages
  <2>3. ThreadsTypeOK'
    BY <1>9 DEF CloseReturns, ThreadsTypeOK
  <2> QED BY <2>1, <2>2, <2>3
<1>10. CASE Join
  <2>1. SharedTypeOK'
    BY <1>10 DEF Join, SharedTypeOK
  <2>2. ServerTypeOK'
    BY <1>10 DEF Join, ServerTypeOK, Messages
  <2>3. ThreadsTypeOK'
    BY <1>10 DEF Join, ThreadsTypeOK
  <2> QED BY <2>1, <2>2, <2>3
<1>11. CASE ServerSends
  <2>1. \E m \in Messages : inbox' = <<m>> \/ inbox' = Append(inbox, m)
    BY <1>11 DEF ServerSends, Messages
  <2>2. ServerTypeOK'
    <3>1. inbox' \in Seq(Messages)
      <4> PICK m \in Messages : inbox' = <<m>> \/ inbox' = Append(inbox, m)
        BY <2>1
      <4>1. inbox \in Seq(Messages) /\ <<m>> \in Seq(Messages)
        BY DEF ServerTypeOK
      <4>2. Append(inbox, m) \in Seq(Messages)
        BY <4>1, AppendProperties
      <4> QED BY <4>1, <4>2
    <3>2. sent' \in Nat /\ gone' \in BOOLEAN
      BY <1>11 DEF ServerSends, ServerTypeOK
    <3> QED BY <3>1, <3>2 DEF ServerTypeOK
  <2>3. SharedTypeOK' /\ ThreadsTypeOK'
    BY <1>11 DEF ServerSends, SharedTypeOK, ThreadsTypeOK
  <2> QED BY <2>2, <2>3
<1>12. CASE ServerCloses
  <2>1. SharedTypeOK'
    BY <1>12 DEF ServerCloses, SharedTypeOK
  <2>2. ServerTypeOK'
    BY <1>12 DEF ServerCloses, ServerTypeOK, Messages
  <2>3. ThreadsTypeOK'
    BY <1>12 DEF ServerCloses, ThreadsTypeOK
  <2> QED BY <2>1, <2>2, <2>3
<1>13. CASE OnRead
  <2>1. SharedTypeOK'
    BY <1>13 DEF OnRead, SharedTypeOK
  <2>2. ServerTypeOK'
    BY <1>13 DEF OnRead, ServerTypeOK, Messages
  <2>3. ThreadsTypeOK'
    BY <1>13 DEF OnRead, ThreadsTypeOK
  <2> QED BY <2>1, <2>2, <2>3
<1>14. CASE OnReadEnd
  <2>1. SharedTypeOK'
    BY <1>14 DEF OnReadEnd, SharedTypeOK
  <2>2. ServerTypeOK'
    BY <1>14 DEF OnReadEnd, ServerTypeOK, Messages
  <2>3. ThreadsTypeOK'
    BY <1>14 DEF OnReadEnd, ThreadsTypeOK
  <2> QED BY <2>1, <2>2, <2>3
<1>15. CASE Closing
  <2>1. SharedTypeOK'
    BY <1>15 DEF Closing, SharedTypeOK
  <2>2. ServerTypeOK'
    BY <1>15 DEF Closing, ServerTypeOK, Messages
  <2>3. ThreadsTypeOK'
    BY <1>15 DEF Closing, ThreadsTypeOK
  <2> QED BY <2>1, <2>2, <2>3
<1>16. CASE ClosingCallback
  <2>4. calls' \in Seq(Names)
    BY <1>16, OneMore DEF ClosingCallback, OnClose, Names, SharedTypeOK
  <2>1. SharedTypeOK'
    BY <1>16, <2>4 DEF ClosingCallback, OnClose, SharedTypeOK
  <2>2. ServerTypeOK'
    BY <1>16 DEF ClosingCallback, ServerTypeOK, Messages
  <2>3. ThreadsTypeOK'
    BY <1>16 DEF ClosingCallback, ThreadsTypeOK
  <2> QED BY <2>1, <2>2, <2>3
<1>17. CASE Closed
  <2>1. SharedTypeOK'
    BY <1>17 DEF Closed, SharedTypeOK
  <2>2. ServerTypeOK'
    BY <1>17 DEF Closed, ServerTypeOK, Messages
  <2>3. ThreadsTypeOK'
    BY <1>17 DEF Closed, ThreadsTypeOK
  <2> QED BY <2>1, <2>2, <2>3
<1>18. CASE Opened
  <2>1. SharedTypeOK'
    BY <1>18 DEF Opened, SharedTypeOK
  <2>2. ServerTypeOK'
    BY <1>18 DEF Opened, ServerTypeOK, Messages
  <2>3. ThreadsTypeOK'
    BY <1>18 DEF Opened, ThreadsTypeOK
  <2> QED BY <2>1, <2>2, <2>3
<1>19. CASE OnOpen
  <2>1. SharedTypeOK' /\ hung' \in BOOLEAN
    BY <1>19, CallbackType DEF OnOpen, ThreadsTypeOK, Names, SharedTypeOK
  <2>2. ServerTypeOK' /\ ThreadsTypeOK'
    BY <1>19, <2>1 DEF OnOpen, ServerTypeOK, ThreadsTypeOK
  <2> QED BY <2>1, <2>2
<1>20. CASE AddPingTimer
  <2>1. SharedTypeOK'
    BY <1>20 DEF AddPingTimer, SharedTypeOK
  <2>2. ServerTypeOK'
    BY <1>20 DEF AddPingTimer, ServerTypeOK, Messages
  <2>3. ThreadsTypeOK'
    BY <1>20 DEF AddPingTimer, ThreadsTypeOK
  <2> QED BY <2>1, <2>2, <2>3
<1>21. CASE Feed
  <2>1. SharedTypeOK' /\ hung' \in BOOLEAN
    BY <1>21, CallbackType DEF Feed, ThreadsTypeOK, Names, SharedTypeOK
  <2>2. ServerTypeOK' /\ ThreadsTypeOK'
    BY <1>21, <2>1 DEF Feed, ServerTypeOK, ThreadsTypeOK
  <2> QED BY <2>1, <2>2
<1>22. CASE Ping
  <2>1. SharedTypeOK'
    BY <1>22 DEF Ping, SharedTypeOK
  <2>2. /\ garbled' \in BOOLEAN /\ sendBuffer' \in {"nobody", "app", "loop"}
        /\ loopPc' \in {"ping", "idle", "close"}
    BY <1>22 DEF Ping, ThreadsTypeOK
  <2>3. Loop /\ UNCHANGED <<inbox, rest, calls, raced, hung>>
    BY <1>22 DEF Ping
  <2> HIDE DEF Ping
  <2>4. ServerTypeOK'
    BY <2>3 DEF ServerTypeOK, Messages
  <2>5. ThreadsTypeOK'
    BY <2>2, <2>3 DEF ThreadsTypeOK
  <2> QED BY <2>1, <2>4, <2>5
<1>23. CASE DoTask
  <2>1. SharedTypeOK'
    BY <1>23 DEF DoTask, SharedTypeOK
  <2>2. ServerTypeOK'
    BY <1>23 DEF DoTask, ServerTypeOK, Messages
  <2>3. ThreadsTypeOK'
    BY <1>23 DEF DoTask, ThreadsTypeOK
  <2> QED BY <2>1, <2>2, <2>3
<1>24. CASE OfThread
  <2>1. SharedTypeOK'
    BY <1>24 DEF OfThread, SharedTypeOK
  <2>2. ServerTypeOK'
    BY <1>24 DEF OfThread, ServerTypeOK, Messages
  <2>3. ThreadsTypeOK'
    BY <1>24 DEF OfThread, ThreadsTypeOK
  <2> QED BY <2>1, <2>2, <2>3
<1>25. ASSUME NEW t \in Tasks, AsyncSend(t)
      PROVE  SharedTypeOK' /\ ServerTypeOK' /\ ThreadsTypeOK'
  <2>1. SharedTypeOK'
    BY <1>25 DEF AsyncSend, SharedTypeOK
  <2>2. ServerTypeOK'
    BY <1>25 DEF AsyncSend, ServerTypeOK, Messages
  <2>3. ThreadsTypeOK'
    BY <1>25 DEF AsyncSend, ThreadsTypeOK
  <2> QED BY <2>1, <2>2, <2>3
<1>26. ASSUME NEW t \in Tasks, HttpServerActs(t)
      PROVE  SharedTypeOK' /\ ServerTypeOK' /\ ThreadsTypeOK'
  <2>1. SharedTypeOK'
    BY <1>26 DEF HttpServerActs, SharedTypeOK
  <2>2. ServerTypeOK'
    BY <1>26 DEF HttpServerActs, ServerTypeOK, Messages
  <2>3. ThreadsTypeOK'
    BY <1>26 DEF HttpServerActs, ThreadsTypeOK
  <2> QED BY <2>1, <2>2, <2>3
<1>27. ASSUME NEW t \in Tasks, HttpOnRead(t)
      PROVE  SharedTypeOK' /\ ServerTypeOK' /\ ThreadsTypeOK'
  <2>1. SharedTypeOK'
    BY <1>27 DEF HttpOnRead, SharedTypeOK
  <2>2. ServerTypeOK'
    BY <1>27 DEF HttpOnRead, ServerTypeOK, Messages
  <2>3. ThreadsTypeOK'
    BY <1>27 DEF HttpOnRead, ThreadsTypeOK
  <2> QED BY <2>1, <2>2, <2>3
<1>28. CASE UNCHANGED vars
  BY <1>28 DEF vars, SharedTypeOK, ServerTypeOK, ThreadsTypeOK
<1> QED
  BY <1>1, <1>2, <1>3, <1>4, <1>5, <1>6, <1>7, <1>8, <1>9, <1>10, <1>11,
     <1>12, <1>13, <1>14, <1>15, <1>16, <1>17, <1>18, <1>19, <1>20, <1>21,
     <1>22, <1>23, <1>24, <1>25, <1>26, <1>27, <1>28
     DEF CNext, OfApp, OfServers, OfLoop

-----------------------------------------------------------------------------
(* The client: its state, its callbacks and its ping timer.                *)

LEMMA ClientInit == CInit => ClientOK /\ PingOK
BY NoCalls DEF CInit, ClientOK, PingOK, OpeningOK, StateOK, HandlerOK, CallbacksOK

\* io_close, in either thread.
LEMMA IoCloseOf ==
    ASSUME NEW before, IoClose(before)
    PROVE  /\ reading' = FALSE
           /\ \/ /\ io \in {"new", "up"} /\ io' = "closed" /\ m_wsState' = "closed"
                 /\ pingTimer' = FALSE /\ calls' = Append(before, "onclose")
              \/ /\ io \notin {"new", "up"} /\ calls' = before
                 /\ UNCHANGED <<io, m_wsState, pingTimer>>
BY DEF IoClose, OnClose

LEMMA ClientStep ==
    TypeOK /\ ClientOK /\ PingOK /\ [CNext]_vars => ClientOK' /\ PingOK'
<1> SUFFICES ASSUME TypeOK, ClientOK, PingOK, [CNext]_vars, ~raced
             PROVE  ClientOK' /\ PingOK'
  BY DEF CNext, ClientOK, PingOK, vars, shared, ghosts, server
<1> USE NoCalls
    DEF SharedTypeOK, ServerTypeOK, ThreadsTypeOK, ClientOK, PingOK, OpeningOK, StateOK,
        HandlerOK, CallbacksOK, shared, server, ghosts, Loop, Http, NeedThread, LoopIdle,
        InHandler, InChannel, OnClose
<1>0. SharedTypeOK /\ ServerTypeOK /\ ThreadsTypeOK
  BY DEF TypeOK
<1>1. CASE InitReturns
  BY <1>0, <1>1 DEF InitReturns
<1>2. CASE Open
  BY <1>0, <1>2 DEF Open
<1>3. CASE Connect
  <2>1. CASE failed' = "connect" /\ UNCHANGED <<shared, calls>>
    BY <1>0, <1>3, <2>1 DEF Connect
  <2>2. CASE /\ io' = "up" /\ m_wsState' = "connected" /\ appPc' = "request"
             /\ UNCHANGED <<reading, pingTimer, calls, failed>>
    BY <1>0, <1>3, <2>2 DEF Connect
  <2>3. CASE IoClose(calls) /\ UNCHANGED failed
    BY <1>0, <1>3, <2>3, IoCloseOf, EndCalls DEF Connect
  <2> QED BY <1>3, <2>1, <2>2, <2>3 DEF Connect
<1>4. CASE SendHttpRequest
  <2>1. \/ UNCHANGED <<m_wsState, io, reading, pingTimer, calls>>
        \/ IoClose(calls)
    BY <1>4 DEF SendHttpRequest
  <2>2. CASE IoClose(calls)
    BY <1>0, <1>4, <2>2, IoCloseOf, EndCalls DEF SendHttpRequest
  <2>3. CASE UNCHANGED <<m_wsState, io, reading, pingTimer, calls>>
    BY <1>0, <1>4, <2>3 DEF SendHttpRequest
  <2> QED BY <2>1, <2>2, <2>3
<1>5. CASE Upgrading
  BY <1>0, <1>5 DEF Upgrading
<1>6. CASE ReadEnable
  BY <1>0, <1>6 DEF ReadEnable
<1>7. CASE Send
  <2>1. CASE appPc = "idle"
    BY <1>0, <1>7, <2>1 DEF Send
  <2>2. CASE appPc = "send" /\ UNCHANGED <<m_wsState, io, reading, pingTimer, calls>>
    BY <1>0, <1>7, <2>2 DEF Send
  <2>3. CASE appPc = "send" /\ IoClose(calls) /\ io \in {"new", "up"}
    <3>1. /\ appPc' = "idle" /\ garbled' = (garbled \/ sendBuffer # "app")
          /\ raced' = (raced \/ (InChannel /\ io = "up"))
          /\ UNCHANGED <<ping, inbox, sent, sendBuffer, loopPc, failed, hung>>
      BY <1>7, <2>3, IoCloseOf DEF Send
    <3>2. /\ reading' = FALSE /\ io' = "closed" /\ m_wsState' = "closed"
          /\ pingTimer' = FALSE /\ calls' = Append(calls, "onclose")
      BY <2>3, IoCloseOf
    <3>3. EndedOnce(calls') /\ EndedLast(calls') /\ OpenedFirst(calls')
      BY <1>0, <2>3, <3>2, EndCalls
    <3>4. PingOK'
      BY <1>0, <2>3, <3>1, <3>2
    <3>5. OpeningOK' /\ StateOK'
      BY <1>0, <2>3, <3>1, <3>2
    <3>6. ~raced' => HandlerOK' /\ CallbacksOK'
      BY <1>0, <2>3, <3>1, <3>2, <3>3
    <3> QED BY <3>4, <3>5, <3>6
  <2>4. CASE appPc = "send" /\ IoClose(calls) /\ io \notin {"new", "up"}
    BY <1>0, <1>7, <2>4, IoCloseOf DEF Send
  <2> QED BY <1>7, <2>1, <2>2, <2>3, <2>4 DEF Send
<1>8. CASE CloseOrDelete
  <2>1. CASE io \in {"new", "up"}
    <3>1. /\ raced' = (raced \/ (InChannel /\ io = "up")) /\ appPc' \in {"close", "join"}
          /\ UNCHANGED <<ping, inbox, sent, sendBuffer, loopPc, failed, hung, garbled>>
      BY <1>8 DEF CloseOrDelete
    <3>2. /\ reading' = FALSE /\ io' = "closed" /\ m_wsState' = "closed"
          /\ pingTimer' = FALSE /\ calls' = Append(calls, "onclose")
      BY <1>8, <2>1, IoCloseOf DEF CloseOrDelete
    <3>3. EndedOnce(calls') /\ EndedLast(calls') /\ OpenedFirst(calls')
      BY <1>0, <2>1, <3>2, EndCalls
    <3>4. PingOK' /\ OpeningOK' /\ StateOK'
      BY <1>0, <1>8, <2>1, <3>1, <3>2 DEF CloseOrDelete
    <3>5. ~raced' => HandlerOK' /\ CallbacksOK'
      BY <1>0, <2>1, <3>1, <3>2, <3>3
    <3> QED BY <3>4, <3>5
  <2>2. CASE io \notin {"new", "up"}
    BY <1>0, <1>8, <2>2, IoCloseOf DEF CloseOrDelete
  <2> QED BY <2>1, <2>2
<1>9. CASE CloseReturns
  BY <1>0, <1>9 DEF CloseReturns
<1>10. CASE Join
  BY <1>0, <1>10 DEF Join
<1>11. CASE ServerSends
  <2>1. inbox' # << >>
    <3>1. \A m \in Messages : <<m>> # << >> /\ Append(inbox, m) # << >>
      BY <1>0, AppendProperties
    <3> QED BY <1>11, <3>1 DEF ServerSends, Messages
  <2>2. /\ (io = "up" /\ appPc \notin {"connect", "request"}) \/ sent > 0
        /\ UNCHANGED <<ping, m_wsState, io, reading, pingTimer, sendBuffer, appPc, loopPc,
                       calls, failed, raced, hung, garbled>>
    BY <1>11 DEF ServerSends
  <2> QED BY <1>0, <2>1, <2>2
<1>12. CASE ServerCloses
  BY <1>0, <1>12 DEF ServerCloses
<1>13. CASE OnRead
  BY <1>0, <1>13 DEF OnRead
<1>14. CASE OnReadEnd
  BY <1>0, <1>14 DEF OnReadEnd
<1>15. CASE Closing
  BY <1>0, <1>15 DEF Closing
<1>16. CASE ClosingCallback
  BY <1>0, <1>16, EndCalls DEF ClosingCallback
<1>17. CASE Closed
  BY <1>0, <1>17 DEF Closed
<1>18. CASE Opened
  BY <1>0, <1>18 DEF Opened
<1>19. CASE OnOpen
  <2>1. calls = << >>
    BY <1>19 DEF OnOpen
  <2>2. CASE calls' = Append(calls, "onopen") /\ UNCHANGED <<shared, hung>>
    BY <1>0, <1>19, <2>1, <2>2, OpenCalls DEF OnOpen
  <2>3. CASE IoClose(Append(calls, "onopen")) /\ hung' = TRUE
    BY <1>0, <1>19, <2>1, <2>3, IoCloseOf, OpenCalls, EndCalls DEF OnOpen
  <2> QED BY <1>19, <2>2, <2>3 DEF OnOpen, Callback
<1>20. CASE AddPingTimer
  BY <1>0, <1>20 DEF AddPingTimer
<1>21. CASE Feed
  BY <1>0, <1>21, IoCloseOf, MessageCalls, EndCalls DEF Feed, Callback
<1>22. CASE Ping
  BY <1>0, <1>22 DEF Ping
<1>23. CASE DoTask
  BY <1>0, <1>23 DEF DoTask
<1>24. CASE OfThread
  BY <1>0, <1>24 DEF OfThread
<1>25. ASSUME NEW t \in Tasks, AsyncSend(t)
      PROVE  ClientOK' /\ PingOK'
  BY <1>0, <1>25 DEF AsyncSend
<1>26. ASSUME NEW t \in Tasks, HttpServerActs(t)
      PROVE  ClientOK' /\ PingOK'
  BY <1>0, <1>26 DEF HttpServerActs
<1>27. ASSUME NEW t \in Tasks, HttpOnRead(t)
      PROVE  ClientOK' /\ PingOK'
  BY <1>0, <1>27 DEF HttpOnRead
<1>28. CASE UNCHANGED vars
  BY <1>0, <1>28 DEF vars
<1> QED
  BY <1>1, <1>2, <1>3, <1>4, <1>5, <1>6, <1>7, <1>8, <1>9, <1>10, <1>11,
     <1>12, <1>13, <1>14, <1>15, <1>16, <1>17, <1>18, <1>19, <1>20, <1>21,
     <1>22, <1>23, <1>24, <1>25, <1>26, <1>27, <1>28
     DEF CNext, OfApp, OfServers, OfLoop

LEMMA TrueWhenIdle ==
    TypeOK /\ ClientOK /\ PingOK => ClientStateIsTrue
<1> SUFFICES ASSUME TypeOK, ClientOK, PingOK, appPc = "idle", loopPc = "idle", ~raced
             PROVE  /\ m_wsState = "connecting" <=> failed = "connect" /\ io = "new"
                    /\ m_wsState = "upgrading" =>
                        \/ io = "up" /\ calls = <<>> /\ (sent > 0 => inbox # <<>>)
                        \/ failed = "request" /\ io = "closed"
                    /\ m_wsState = "opened" => io = "up" /\ calls # <<>> /\ calls[1] = "onopen"
                    /\ m_wsState # "connected"
                    /\ pingTimer => m_wsState = "opened" \/ hung
                    /\ garbled => ping
  BY DEF ClientStateIsTrue
<1> QED
  BY DEF ClientOK, PingOK, OpeningOK, StateOK, CallbacksOK, Announced

LEMMA EndIsTheLast == TypeOK /\ ClientOK => EndIsLast
<1> SUFFICES ASSUME TypeOK, ClientOK, ~raced
             PROVE  /\ Cardinality({k \in DOMAIN calls : calls[k] = "onclose"}) <= 1
                    /\ \A k \in DOMAIN calls : calls[k] = "onopen" => k = 1
                    /\ ~hung => \A k \in DOMAIN calls : calls[k] = "onclose" => k = Len(calls)
  BY DEF EndIsLast
<1>1. CallbacksOK /\ DOMAIN calls = 1 .. Len(calls)
  BY DEF ClientOK, TypeOK, SharedTypeOK
<1> DEFINE ends == {k \in DOMAIN calls : calls[k] = "onclose"}
<1>2. Cardinality(ends) <= 1
  <2>1. CASE ends = {}
    BY <2>1, FS_EmptySet
  <2>2. CASE ends # {}
    <3>1. PICK k \in ends : TRUE
      BY <2>2
    <3>2. \A j \in ends : j = k
      BY <1>1, <3>1 DEF CallbacksOK, EndedOnce
    <3>3. ends = {k}
      <4> HIDE DEF ends
      <4> QED BY <3>1, <3>2
    <3> HIDE DEF ends
    <3>4. Cardinality(ends) = 1
      BY <3>3, FS_Singleton
    <3> QED BY <3>4
  <2> QED BY <2>1, <2>2
<1> QED
  BY <1>1, <1>2 DEF CallbacksOK, OpenedFirst, EndedLast

-----------------------------------------------------------------------------
(* The theorems.                                                           *)

Inv == ThreadTypeOK /\ ThreadOK /\ TypeOK /\ TasksOK /\ ClientOK /\ PingOK

LEMMA InvInit == CInit => Inv
BY ThreadInit, TypeInit, TasksInit, ClientInit DEF Inv

LEMMA InvStep == Inv /\ [CNext]_vars => Inv'
<1> SUFFICES ASSUME Inv, [CNext]_vars PROVE Inv'
  OBVIOUS
<1>1. ThreadTypeOK' /\ ThreadOK'
  BY ThreadStep DEF Inv
<1>2. TypeOK' /\ TasksOK'
  BY TypeStep, TasksStep DEF Inv, TypeOK
<1>3. ClientOK' /\ PingOK'
  BY ClientStep DEF Inv
<1> QED
  BY <1>1, <1>2, <1>3 DEF Inv

LEMMA InvHolds == CSpec => []Inv
BY InvInit, InvStep, PTL DEF CSpec

\* EventLoopThread::init returns with the thread in its loop, and the mutex,
\* the condition and the flag are deleted by neither thread while one needs them.
THEOREM ThreadStartsSafely == CSpec => []StartIsSafe
<1>1. Inv => StartIsSafe
  BY ThreadImpliesSafe DEF Inv
<1> QED
  BY <1>1, InvHolds, PTL

\* However open, send, close and the destructor in the program's thread
\* interleave with on_read, io_close and the ping timer in the loop's thread:
\* between two handlers m_wsState tells the truth, but for the two failures of
\* open() that leave it for ever, until the program closes within a handler.
THEOREM StateIsTrue == CSpec => []ClientStateIsTrue
<1>1. Inv => ClientStateIsTrue
  BY TrueWhenIdle DEF Inv
<1> QED
  BY <1>1, InvHolds, PTL

\* onopen comes first, onclose once and last, whichever thread closes.
THEOREM EndComesLast == CSpec => []EndIsLast
<1>1. Inv => EndIsLast
  BY EndIsTheLast DEF Inv
<1> QED
  BY <1>1, InvHolds, PTL

\* The callback of a request given to async_send is called at most once: the
\* response that is there ends the channel (onread of HttpClient). This is the
\* safety half of TaskEndsOnce.
CalledAtMostOnce == \A t \in Tasks : cbs[t] <= 1

THEOREM CallbackOnce == CSpec => []CalledAtMostOnce
<1>1. Inv => CalledAtMostOnce
  <2> SUFFICES ASSUME Inv, NEW t \in Tasks PROVE cbs[t] <= 1
    BY DEF CalledAtMostOnce
  <2>1. cbs[t] = 0 \/ cbs[t] = 1
    BY DEF Inv, TasksOK
  <2> QED BY <2>1
<1> QED
  BY <1>1, InvHolds, PTL
=============================================================================
