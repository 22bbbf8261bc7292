----------------------------- MODULE LoopThread -----------------------------
(***************************************************************************)
(* The start and the end of an EventLoopThread (src/src/EventLoopThread    *)
(* .cpp). init() makes a mutex, a condition and a flag, and two ThreadArg  *)
(* objects that hold them, its own and the thread's; each destroys and     *)
(* deletes all three when it goes.                                         *)
(***************************************************************************)
EXTENDS Naturals

VARIABLES
    initPc,    \* where init() is: "no", "new", "created", "asleep", "ready", "done", "failed"
    threadPc,  \* where the thread is: "none", "start", "locked", "started", "run", "ended"
    mutex,     \* "free" or "thread": the caller holds it only within a step
    started,   \* *started
    signalled, \* the caller's wait has been signalled
    deletes,   \* how often the three were deleted
    quit       \* loop->quit

lvars == <<initPc, threadPc, mutex, started, signalled, deletes, quit>>

LInit ==
    /\ initPc = "no" /\ threadPc = "none" /\ mutex = "free"
    /\ started = FALSE /\ signalled = FALSE /\ deletes = 0 /\ quit = FALSE

\* pthread_create. When it fails, init() deletes the three, and so does its
\* ThreadArg.
Create ==
    /\ initPc = "new"
    /\ \/ initPc' = "created" /\ threadPc' = "start" /\ UNCHANGED deletes
       \/ initPc' = "failed" /\ deletes' = deletes + 2 /\ UNCHANGED threadPc
    /\ UNCHANGED <<mutex, started, signalled, quit>>

\* The loop around pthread_cond_wait, from a lock to a wait or an unlock.
CallerWait ==
    /\ initPc = "created" \/ (initPc = "asleep" /\ signalled)
    /\ mutex = "free"
    /\ initPc' = IF started THEN "ready" ELSE "asleep"
    /\ signalled' = FALSE
    /\ UNCHANGED <<threadPc, mutex, started, deletes, quit>>

\* init() returns: its ThreadArg goes.
CallerReturn ==
    /\ initPc = "ready"
    /\ initPc' = "done" /\ deletes' = deletes + 1
    /\ UNCHANGED <<threadPc, mutex, started, signalled, quit>>

\* Mutant: the flag is set before the mutex is locked.
ThreadLock_LateLock ==
    /\ threadPc = "start" /\ mutex = "free"
    /\ started' = TRUE
    /\ IF started THEN threadPc' = "locked" /\ mutex' = "thread"
                  ELSE UNCHANGED <<threadPc, mutex>>
    /\ UNCHANGED <<initPc, signalled, deletes, quit>>

ThreadLock ==
    /\ threadPc = "start" /\ mutex = "free"
    /\ threadPc' = "locked" /\ mutex' = "thread"
    /\ UNCHANGED <<initPc, started, signalled, deletes, quit>>

ThreadSignal ==
    /\ threadPc = "locked"
    /\ threadPc' = "started" /\ started' = TRUE
    /\ signalled' = (initPc = "asleep")
    /\ UNCHANGED <<initPc, mutex, deletes, quit>>

ThreadUnlock ==
    /\ threadPc = "started"
    /\ threadPc' = "run" /\ mutex' = "free"
    /\ UNCHANGED <<initPc, started, signalled, deletes, quit>>

\* EventLoop::stop, after init().
Stop ==
    /\ initPc = "done" /\ ~quit /\ quit' = TRUE
    /\ UNCHANGED <<initPc, threadPc, mutex, started, signalled, deletes>>

\* event_loop_run returns between two handlers: the thread's ThreadArg goes.
ThreadEnd ==
    /\ threadPc = "run" /\ quit
    /\ threadPc' = "ended" /\ deletes' = deletes + 1
    /\ UNCHANGED <<initPc, mutex, started, signalled, quit>>

LNext ==
    Create \/ CallerWait \/ CallerReturn \/ ThreadLock \/ ThreadSignal \/ ThreadUnlock

\* init() returns with the thread in its loop; what the two synchronise with
\* is there as long as one of them needs it; and it is deleted twice only
\* when the thread could not be created or has left its loop (which it then
\* always does: a stopped loop cannot be joined without it).
StartIsSafe ==
    /\ initPc = "done" => threadPc \in {"run", "ended"}
    /\ threadPc \in {"start", "locked", "started"} \/ initPc \in {"created", "asleep", "ready"}
        => deletes = 0
    /\ deletes > 1 => initPc = "failed" \/ threadPc = "ended"
==============================================================================
