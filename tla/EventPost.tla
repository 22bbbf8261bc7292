----------------------------- MODULE EventPost -----------------------------
(***************************************************************************)
(* Handing functions from any thread to the thread that runs an event      *)
(* loop: EventLoop::postEvent and onCustomEvent (src/src/EventLoop.cpp) on *)
(* top of loop_post_event, pipe_read_cb and event_loop_wakeup              *)
(* (src/src/event_loop.c).                                                 *)
(*                                                                         *)
(* A poster pushes its Event on m_eventQueue, takes loop->mutex, writes    *)
(* one byte to the non-blocking pipe, stores the event in the next free    *)
(* slot of custom_events and unlocks.  The loop reads every byte the pipe  *)
(* holds BEFORE it takes the mutex, then runs slots 0 .. nbytes-1 with the *)
(* mutex held and sets custom_events_num to 0.  Nothing relates nbytes to  *)
(* custom_events_num: a byte written between the read and the lock is      *)
(* answered by whatever its slot holds at the next read.                   *)
(*                                                                         *)
(* Every slot that was ever written has cb = onCustomEvent, so running a   *)
(* slot pops the front of m_eventQueue, which need not be the event that   *)
(* sits in the slot.  The histories keep the two levels apart: `stored'    *)
(* and `fired' are the table's (what a C caller of loop_post_event sees),  *)
(* `submitted' and `executed' are the queue's (what a C++ caller sees).    *)
(***************************************************************************)
EXTENDS Integers, Sequences, FiniteSets

CONSTANTS
    Posters,     \* threads that call postEvent
    MaxPosts,    \* BOUND: calls of postEvent per poster
    MaxWakeups,  \* BOUND: calls of event_loop_wakeup, by any thread
    PipeCap,     \* bytes the pipe holds (65536 on Linux)
    MaxEvents,   \* slots in custom_events (max_custom_events_num, 1024)
    CanStop,     \* whether some thread may call EventLoop::stop
    Unwritten    \* a slot of custom_events as malloc left it

ASSUME PostersFinite == IsFiniteSet(Posters)
ASSUME LimitsAreNaturals ==
    /\ MaxPosts \in Nat
    /\ MaxWakeups \in Nat
    /\ PipeCap \in Nat
    /\ MaxEvents \in Nat
ASSUME CanStopIsBoolean == CanStop \in BOOLEAN

Loop == "loop"   \* the loop's thread as an owner of the mutex
NoOne == "none"  \* the mutex is free

ASSUME PostersAreThreads == Loop \notin Posters /\ NoOne \notin Posters

\* The k-th function a poster posts.
Event == Posters \X (1 .. MaxPosts)

ASSUME UnwrittenIsNoEvent == Unwritten \notin Event

VARIABLES
    pc,         \* where each poster is in postEvent / loop_post_event
    count,      \* posts each poster has begun
    wakeups,    \* wakeups so far
    queue,      \* EventLoop::m_eventQueue
    pipe,       \* bytes in the pipe
    slots,      \* custom_events, indexed as in C
    num,        \* custom_events_num
    mutex,      \* owner of loop->mutex
    loopPc,     \* where the loop is
    nbytes,     \* bytes of the last read, the argument of pipe_read_cb
    i,          \* the index of pipe_read_cb's for loop
    running,    \* the function being executed, as a sequence of 0 or 1
    quit,       \* loop->quit
    fault,      \* the undefined behaviour the program has run into, if any
    (* histories *)
    submitted,  \* pushes on m_eventQueue, in order
    executed,   \* functions executed, in order
    stored,     \* events stored in the table, in order
    fired,      \* events whose slot was run, in order
    dropped,    \* posts given up because the pipe was full
    skipped,    \* slots that held NULL when they were run
    raced       \* a byte was written between a read and the lock after it

posterVars  == <<pc, count>>
tableVars   == <<slots, num>>
loopVars    == <<loopPc, nbytes, i>>
history     == <<submitted, executed, stored, fired, dropped, skipped, raced>>
vars == <<pc, count, wakeups, queue, pipe, slots, num, mutex, loopPc, nbytes,
          i, running, quit, fault, submitted, executed, stored, fired,
          dropped, skipped, raced>>

Slot == 0 .. MaxEvents - 1

Init ==
    /\ pc = [p \in Posters |-> "idle"]
    /\ count = [p \in Posters |-> 0]
    /\ wakeups = 0
    /\ queue = <<>>
    /\ pipe = 0
    /\ slots = [s \in Slot |-> Unwritten]
    /\ num = 0
    /\ mutex = NoOne
    /\ loopPc = "top" /\ nbytes = 0 /\ i = 0
    /\ running = <<>>
    /\ quit = FALSE
    /\ fault = "no"
    /\ submitted = <<>> /\ executed = <<>> /\ stored = <<>> /\ fired = <<>>
    /\ dropped = 0 /\ skipped = 0 /\ raced = FALSE

-----------------------------------------------------------------------------
(* Posters.                                                                *)

\* The event p is posting, or the last one it posted.
EventOf(p) == <<p, count[p]>>

\* EventLoop::postEvent up to the call of loop_post_event.
Push(p) ==
    /\ pc[p] = "idle"
    /\ count[p] < MaxPosts
    /\ pc' = [pc EXCEPT ![p] = "lock"]
    /\ count' = [count EXCEPT ![p] = @ + 1]
    /\ queue' = Append(queue, <<p, count[p] + 1>>)
    /\ submitted' = Append(submitted, <<p, count[p] + 1>>)
    /\ UNCHANGED <<wakeups, pipe, tableVars, mutex, loopVars, running, quit,
                   fault, executed, stored, fired, dropped, skipped, raced>>

LockForPost(p) ==
    /\ pc[p] = "lock"
    /\ mutex = NoOne
    /\ mutex' = p
    /\ pc' = [pc EXCEPT ![p] = "write"]
    /\ UNCHANGED <<count, wakeups, queue, pipe, tableVars, loopVars, running,
                   quit, fault, history>>

\* Faulty variant: the terminating zero is written too.
WriteByte_Sizeof ==
    /\ pipe < PipeCap
    /\ pipe' = pipe + 2
    /\ raced' = (raced \/ loopPc = "lock")

\* A byte that the read in progress has not seen.
WriteByte ==
    /\ pipe < PipeCap
    /\ pipe' = pipe + 1
    /\ raced' = (raced \/ loopPc = "lock")

WritePipe(p) ==
    /\ pc[p] = "write"
    /\ WriteByte
    /\ pc' = [pc EXCEPT ![p] = "append"]
    /\ UNCHANGED <<count, wakeups, queue, tableVars, mutex, loopVars, running,
                   quit, fault, submitted, executed, stored, fired, dropped,
                   skipped>>

\* Faulty variants: the failed write is not noticed, or is not unlocked.
PipeFull_Unchecked(p) ==
    /\ pc[p] = "write"
    /\ pipe = PipeCap
    /\ pc' = [pc EXCEPT ![p] = "append"]
    /\ UNCHANGED <<count, wakeups, queue, pipe, tableVars, mutex, loopVars,
                   running, quit, fault, history>>

PipeFull_NoUnlock(p) ==
    /\ pc[p] = "write"
    /\ pipe = PipeCap
    /\ pc' = [pc EXCEPT ![p] = "idle"]
    /\ dropped' = dropped + 1
    /\ UNCHANGED <<count, wakeups, queue, pipe, tableVars, mutex, loopVars,
                   running, quit, fault, submitted, executed, stored, fired,
                   skipped, raced>>

\* write() fails with EAGAIN: loop_post_event returns, and its caller is not
\* told.  The Event stays in m_eventQueue.
PipeFull(p) ==
    /\ pc[p] = "write"
    /\ pipe = PipeCap
    /\ pc' = [pc EXCEPT ![p] = "idle"]
    /\ mutex' = NoOne
    /\ dropped' = dropped + 1
    /\ UNCHANGED <<count, wakeups, queue, pipe, tableVars, loopVars, running,
                   quit, fault, submitted, executed, stored, fired, skipped,
                   raced>>

\* Faulty variant: a bound that is one too high.
Store_OffByOne(p) ==
    /\ pc[p] = "append"
    /\ num <= MaxEvents
    /\ num' = num + 1
    /\ pc' = [pc EXCEPT ![p] = "idle"]
    /\ mutex' = NoOne
    /\ UNCHANGED <<count, wakeups, queue, pipe, slots, loopVars, running, quit,
                   fault, history>>

\* custom_events[custom_events_num++] = event.  There is no test against
\* max_custom_events_num: the store past the table is undefined.
Store(p) ==
    /\ pc[p] = "append"
    /\ IF num \in Slot
         THEN /\ slots' = [slots EXCEPT ![num] = EventOf(p)]
              /\ num' = num + 1
              /\ stored' = Append(stored, EventOf(p))
              /\ pc' = [pc EXCEPT ![p] = "idle"]
              /\ mutex' = NoOne
              /\ UNCHANGED fault
         ELSE /\ fault' = "overrun"
              /\ UNCHANGED <<slots, num, stored, pc, mutex>>
    /\ UNCHANGED <<count, wakeups, queue, pipe, loopVars, running, quit,
                   submitted, executed, fired, dropped, skipped, raced>>

\* event_loop_wakeup: a byte with no event behind it, and without the mutex.
Wakeup ==
    /\ wakeups < MaxWakeups
    /\ wakeups' = wakeups + 1
    /\ WriteByte
    /\ UNCHANGED <<posterVars, queue, tableVars, mutex, loopVars, running,
                   quit, fault, submitted, executed, stored, fired, dropped,
                   skipped>>

\* EventLoop::stop, from any thread: a plain store.
Stop ==
    /\ CanStop
    /\ ~quit
    /\ quit' = TRUE
    /\ UNCHANGED <<posterVars, wakeups, queue, pipe, tableVars, mutex,
                   loopVars, running, fault, history>>

-----------------------------------------------------------------------------
(* The loop's thread.                                                      *)

\* while (!loop->quit)
TestQuit ==
    /\ loopPc = "top"
    /\ loopPc' = IF quit THEN "stopped" ELSE "poll"
    /\ UNCHANGED <<posterVars, wakeups, queue, pipe, tableVars, mutex, nbytes,
                   i, running, quit, fault, history>>

\* The dispatcher times out after at most 10 ms, or it reports the pipe and
\* handle_event -> io_read_cb reads all of it.
PollTimeout ==
    /\ loopPc = "poll"
    /\ pipe = 0
    /\ loopPc' = "top"
    /\ UNCHANGED <<posterVars, wakeups, queue, pipe, tableVars, mutex, nbytes,
                   i, running, quit, fault, history>>

\* Faulty variant: one event per read, whatever was read.
ReadPipe_OneEvent ==
    /\ loopPc = "poll"
    /\ pipe > 0
    /\ nbytes' = 1
    /\ pipe' = 0
    /\ i' = 0
    /\ loopPc' = "lock"
    /\ UNCHANGED <<posterVars, wakeups, queue, tableVars, mutex, running,
                   quit, fault, history>>

ReadPipe ==
    /\ loopPc = "poll"
    /\ pipe > 0
    /\ nbytes' = pipe
    /\ pipe' = 0
    /\ i' = 0
    /\ loopPc' = "lock"
    /\ UNCHANGED <<posterVars, wakeups, queue, tableVars, mutex, running,
                   quit, fault, history>>

LockForDispatch ==
    /\ loopPc = "lock"
    /\ mutex = NoOne
    /\ mutex' = Loop
    /\ loopPc' = "dispatch"
    /\ UNCHANGED <<posterVars, wakeups, queue, pipe, tableVars, nbytes, i,
                   running, quit, fault, history>>

Written(s) == s \in Slot /\ slots[s] # Unwritten

\* Faulty variant: front() without pop().
FireSlot_NoPop ==
    /\ loopPc = "dispatch"
    /\ i < nbytes
    /\ Written(i)
    /\ queue # <<>>
    /\ fired' = Append(fired, slots[i])
    /\ running' = <<Head(queue)>>
    /\ i' = i + 1
    /\ loopPc' = "run"
    /\ UNCHANGED <<posterVars, wakeups, queue, pipe, tableVars, mutex, nbytes,
                   quit, fault, submitted, executed, stored, dropped, skipped,
                   raced>>

\* event->cb(event), which is onCustomEvent: pop the front of m_eventQueue.
\* front() of an empty std::queue is undefined.
FireSlot ==
    /\ loopPc = "dispatch"
    /\ i < nbytes
    /\ Written(i)
    /\ fired' = Append(fired, slots[i])
    /\ IF queue = <<>>
         THEN /\ fault' = "emptyQueue"
              /\ UNCHANGED <<queue, running, i, loopPc>>
         ELSE /\ running' = <<Head(queue)>>
              /\ queue' = Tail(queue)
              /\ i' = i + 1
              /\ loopPc' = "run"
              /\ UNCHANGED fault
    /\ UNCHANGED <<posterVars, wakeups, pipe, tableVars, mutex, nbytes, quit,
                   submitted, executed, stored, dropped, skipped, raced>>

\* A slot that was never written holds what malloc returned: NULL, which the
\* code skips, or a wild pointer, which it calls through.
FireUnwrittenSlot ==
    /\ loopPc = "dispatch"
    /\ i < nbytes
    /\ ~Written(i)
    /\ \/ /\ i' = i + 1
          /\ skipped' = skipped + 1
          /\ UNCHANGED fault
       \/ /\ fault' = "wildSlot"
          /\ UNCHANGED <<i, skipped>>
    /\ UNCHANGED <<posterVars, wakeups, queue, pipe, tableVars, mutex, loopPc,
                   nbytes, running, quit, submitted, executed, stored, fired,
                   dropped, raced>>

\* event->fn(event), with loop->mutex held.
RunFunction ==
    /\ loopPc = "run"
    /\ executed' = executed \o running
    /\ running' = <<>>
    /\ loopPc' = "dispatch"
    /\ UNCHANGED <<posterVars, wakeups, queue, pipe, tableVars, mutex, nbytes,
                   i, quit, fault, submitted, stored, fired, dropped, skipped,
                   raced>>

\* Faulty variant: custom_events_num is not reset.
EndDispatch_NoReset ==
    /\ loopPc = "dispatch"
    /\ i >= nbytes
    /\ mutex' = NoOne
    /\ nbytes' = 0
    /\ i' = 0
    /\ loopPc' = "top"
    /\ UNCHANGED <<posterVars, wakeups, queue, pipe, tableVars, running, quit,
                   fault, history>>

EndDispatch ==
    /\ loopPc = "dispatch"
    /\ i >= nbytes
    /\ num' = 0
    /\ mutex' = NoOne
    /\ nbytes' = 0
    /\ i' = 0
    /\ loopPc' = "top"
    /\ UNCHANGED <<posterVars, wakeups, queue, pipe, slots, running, quit,
                   fault, history>>

-----------------------------------------------------------------------------
PosterNext(p) ==
    Push(p) \/ LockForPost(p) \/ WritePipe(p) \/ PipeFull(p) \/ Store(p)

LoopNext ==
    \/ TestQuit \/ PollTimeout \/ ReadPipe \/ LockForDispatch
    \/ FireSlot \/ FireUnwrittenSlot \/ RunFunction \/ EndDispatch

\* Nothing is said of the program after undefined behaviour.
Next ==
    /\ fault = "no"
    /\ (\E p \in Posters : PosterNext(p)) \/ Wakeup \/ Stop \/ LoopNext

Spec == Init /\ [][Next]_vars

\* Every thread is scheduled.  No fairness of the mutex beyond that is
\* needed: each poster posts finitely often.  Nobody has to post or stop.
Fairness ==
    /\ \A p \in Posters :
         WF_vars(fault = "no" /\ (LockForPost(p) \/ WritePipe(p) \/ PipeFull(p)
                                  \/ Store(p)))
    /\ WF_vars(fault = "no" /\ LoopNext)

FairSpec == Spec /\ Fairness
-----------------------------------------------------------------------------
(* Properties.                                                             *)

TypeOK ==
    /\ pc \in [Posters -> {"idle", "lock", "write", "append"}]
    /\ count \in [Posters -> 0 .. MaxPosts]
    /\ wakeups \in 0 .. MaxWakeups
    /\ queue \in Seq(Event)
    /\ pipe \in 0 .. PipeCap
    /\ slots \in [Slot -> Event \cup {Unwritten}]
    /\ num \in 0 .. MaxEvents
    /\ mutex \in Posters \cup {Loop, NoOne}
    /\ loopPc \in {"top", "poll", "lock", "dispatch", "run", "stopped"}
    /\ nbytes \in Nat /\ i \in Nat
    /\ running \in Seq(Event)
    /\ quit \in BOOLEAN
    /\ fault \in {"no", "overrun", "wildSlot", "emptyQueue"}
    /\ submitted \in Seq(Event) /\ executed \in Seq(Event)
    /\ stored \in Seq(Event) /\ fired \in Seq(Event)
    /\ dropped \in Nat /\ skipped \in Nat /\ raced \in BOOLEAN

\* Posts whose event is on m_eventQueue and whose byte is not in the pipe yet.
BeforeByte == {p \in Posters : pc[p] \in {"lock", "write"}}

\* Bytes in the pipe, and bytes read whose slot was not run yet.
Announced == pipe + (nbytes - i)

\* What waits for a byte or sent one without an event.
Owed == Len(queue) + wakeups

\* Functions nothing will ever announce.
Stuck == dropped + skipped

\* Every function that waits in m_eventQueue is waiting for exactly one byte
\* (in the pipe, in hand, or still to be written by its poster), except one
\* for each post the full pipe turned away and each NULL slot.  It is what
\* keeps m_eventQueue.front() (src/src/EventLoop.cpp:20) away from an empty
\* queue, and what says how many functions are stuck when the loop is idle.
TokenBalance == Owed = Cardinality(BeforeByte) + Announced + Stuck

\* onCustomEvent (src/src/EventLoop.cpp:17-27) never pops an empty queue
\* unless somebody called event_loop_wakeup.
EmptyPopNeedsWakeup == fault = "emptyQueue" => wakeups > 0

\* The table can only overflow (src/src/event_loop.c:538) while more
\* functions wait, or wakeups were sent, than it has slots.
OverrunOnlyUnderBacklog ==
    fault = "overrun" => Owed > MaxEvents

\* If no byte was ever written between a read of the pipe and the lock that
\* follows it, then the table alone is a FIFO: what was stored is what was
\* run, in order, followed by what is still in the slots, every slot that is
\* run was written, and nothing is skipped.
OrderedUnlessRaced ==
    ~raced /\ wakeups = 0 =>
        /\ fault # "wildSlot"
        /\ skipped = 0
        /\ Len(stored) = Len(fired) + num - i
        /\ \A k \in 1 .. Len(fired) : k <= Len(stored) /\ fired[k] = stored[k]

\* Code between lock and unlock has the mutex to itself, and the table is
\* touched by nobody else (src/include/event.h:158).
MutexDiscipline ==
    /\ \A p \in Posters : pc[p] \in {"write", "append"} <=> mutex = p
    /\ loopPc \in {"dispatch", "run"} <=> mutex = Loop

\* EventPost implements the promise of postEvent.
Promise == INSTANCE PostQueue
             WITH waiting <- queue, running <- running, done <- executed

ImplementsPostQueue == Promise!Spec

\* loop_post_event returns on every path, pipe full included.
PostReturns ==
    \A p \in Posters : pc[p] # "idle" ~> pc[p] = "idle" \/ fault # "no"

\* A function handed over is executed unless the loop is stopped, the pipe
\* was full, a byte fell between a read and the lock after it, or a wakeup
\* (src/src/event_loop.c:169) had the loop skip a slot that holds NULL.
HandedOverIsExecuted ==
    \A p \in Posters, k \in 1 .. MaxPosts :
        count[p] = k ~> \/ \E n \in DOMAIN executed : executed[n] = <<p, k>>
                        \/ quit \/ dropped > 0 \/ raced \/ fault # "no"
                        \/ wakeups > 0 /\ skipped > 0

=============================================================================
