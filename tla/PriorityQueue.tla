--------------------------- MODULE PriorityQueue ---------------------------
(***************************************************************************)
(* What heap.h promises event_loop.c: a set of nodes of which the one with *)
(* the least key is given back first, and any one can be withdrawn.        *)
(***************************************************************************)
EXTENDS Integers

CONSTANTS Node, Key

VARIABLES members, key

vars == <<members, key>>

Init == members = {} /\ key \in [Node -> Key]

Add(n) ==
    /\ n \notin members
    /\ members' = members \cup {n}
    /\ \E k \in Key : key' = [key EXCEPT ![n] = k]

\* A full queue turns the node away; its key was set all the same.
TurnAway(n) ==
    /\ n \notin members
    /\ \E k \in Key : key' = [key EXCEPT ![n] = k]
    /\ UNCHANGED members

\* The least node leaves; its key is its owner's again.
TakeLeast(n) ==
    /\ n \in members
    /\ \A m \in members : key[n] <= key[m]
    /\ members' = members \ {n}
    /\ \E k \in Key : key' = [key EXCEPT ![n] = k]

Withdraw(n) ==
    /\ n \in members
    /\ members' = members \ {n}
    /\ UNCHANGED key

Next == \E n \in Node : Add(n) \/ TurnAway(n) \/ TakeLeast(n) \/ Withdraw(n)

Spec == Init /\ [][Next]_vars
=============================================================================
