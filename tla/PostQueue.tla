----------------------------- MODULE PostQueue -----------------------------
(***************************************************************************)
(* What EventLoop::postEvent promises its callers: functions handed over   *)
(* by any thread run one at a time on the loop's thread, each at most      *)
(* once, in the order in which they were handed over.  Pipe, table, locks  *)
(* and indices are the business of EventPost, which implements this.       *)
(***************************************************************************)
EXTENDS Sequences

CONSTANT Event  \* the functions that may be handed over

VARIABLES
    waiting,    \* handed over, not started yet, oldest first
    running,    \* the function the loop is executing, as a sequence of 0 or 1
    done        \* executed so far, oldest first

vars == <<waiting, running, done>>

Init == waiting = <<>> /\ running = <<>> /\ done = <<>>

HandOver(e) ==
    /\ waiting' = Append(waiting, e)
    /\ UNCHANGED <<running, done>>

Start ==
    /\ running = <<>>
    /\ waiting # <<>>
    /\ running' = <<Head(waiting)>>
    /\ waiting' = Tail(waiting)
    /\ UNCHANGED done

Finish ==
    /\ running # <<>>
    /\ done' = done \o running
    /\ running' = <<>>
    /\ UNCHANGED waiting

Next == (\E e \in Event : HandOver(e)) \/ Start \/ Finish

Spec == Init /\ [][Next]_vars
=============================================================================
