------------------------------- MODULE Heap --------------------------------
(***************************************************************************)
(* The array heap of src/include/heap.h that holds a loop's timers, one    *)
(* iteration of heapify_up or one call of heapify_down per step.           *)
(*                                                                         *)
(* The users of a heap keep two rules (src/src/event_loop.c): a node is    *)
(* inserted when it is not in the heap, and its key changes only while it  *)
(* is outside or is about to be popped (process_timer sets next_timeout    *)
(* of the top just before heap_pop).  Timers models users that do not.     *)
(***************************************************************************)
EXTENDS HeapOps, FiniteSets

CONSTANTS
    Node,      \* the nodes, one per timer
    MaxKey,    \* BOUND: keys are 0 .. MaxKey
    Capacity   \* slots of the array

ASSUME MaxKeyIsNatural == MaxKey \in Nat
ASSUME CapacityIsNatural == Capacity \in Nat

Key == 0 .. MaxKey

VARIABLES
    h,      \* the nodes in the array
    key,    \* each node's key
    pc,     \* "idle", or the loop that is running
    at,     \* its index
    back,   \* where heap_remove continues with heapify_up, or 0
    goal    \* ghost: what the array must be when the operation is done

vars == <<h, key, pc, at, back, goal>>

Init ==
    /\ h = <<>>
    /\ key = [n \in Node |-> 0]
    /\ pc = "idle" /\ at = 0 /\ back = 0
    /\ goal = <<>>

Members == {h[a] : a \in 1 .. Len(h)}

-----------------------------------------------------------------------------
\* Mutant: the test for a full heap lets one node too many in.
Insert_OneOver(n, k) ==
    /\ pc = "idle"
    /\ n \notin Members
    /\ Len(h) <= Capacity
    /\ key' = [key EXCEPT ![n] = k]
    /\ h' = Append(h, n)
    /\ pc' = "up" /\ at' = Len(h) + 1
    /\ goal' = HeapInsert(h, key', n, Capacity)
    /\ UNCHANGED back

\* heap_insert, up to its call of heapify_up.
Insert(n, k) ==
    /\ pc = "idle"
    /\ n \notin Members
    /\ Len(h) < Capacity
    /\ key' = [key EXCEPT ![n] = k]
    /\ h' = Append(h, n)
    /\ pc' = "up" /\ at' = Len(h) + 1
    /\ goal' = HeapInsert(h, key', n, Capacity)
    /\ UNCHANGED back

\* heap_insert on a full heap.
InsertFull(n, k) ==
    /\ pc = "idle"
    /\ n \notin Members
    /\ Len(h) = Capacity
    /\ key' = [key EXCEPT ![n] = k]
    /\ goal' = HeapInsert(h, key', n, Capacity)
    /\ UNCHANGED <<h, pc, at, back>>

\* heap_pop, up to its call of heapify_down; k is the key the owner gives the
\* popped node, which the heap does not look at any more.
Pop(k) ==
    /\ pc = "idle"
    /\ h # <<>>
    /\ key' = [key EXCEPT ![h[1]] = k]
    /\ h' = FillWithLast(h, 1)
    /\ pc' = "down" /\ at' = 1 /\ back' = 0
    /\ goal' = HeapPop(h, key')

\* heap_remove of the last node.
RemoveLast(n) ==
    /\ pc = "idle"
    /\ h # <<>> /\ h[Len(h)] = n
    /\ h' = FillWithLast(h, Len(h))
    /\ goal' = HeapRemove(h, key, n)
    /\ UNCHANGED <<key, pc, at, back>>

\* Mutant: heap_remove without the heapify_up that ends it.
Remove_DownOnly(n) ==
    /\ pc = "idle"
    /\ \E a \in 1 .. Len(h) - 1 :
          /\ h[a] = n
          /\ h' = FillWithLast(h, a)
          /\ at' = a /\ back' = 0
    /\ pc' = "down"
    /\ goal' = HeapRemove(h, key, n)
    /\ UNCHANGED key

\* heap_remove of another node, up to its call of heapify_down.
Remove(n) ==
    /\ pc = "idle"
    /\ \E a \in 1 .. Len(h) - 1 :
          /\ h[a] = n
          /\ h' = FillWithLast(h, a)
          /\ at' = a /\ back' = a
    /\ pc' = "down"
    /\ goal' = HeapRemove(h, key, n)
    /\ UNCHANGED key

\* Mutant: an if where the code has a while.
StepUp_Once ==
    /\ pc = "up"
    /\ h' = IF at > 1 /\ Less(key, h, at, Parent(at))
              THEN Swap(h, at, Parent(at)) ELSE h
    /\ pc' = "idle" /\ at' = 0
    /\ UNCHANGED <<key, back, goal>>

\* One test of heapify_up's while loop.
StepUp ==
    /\ pc = "up"
    /\ IF at > 1 /\ Less(key, h, at, Parent(at))
         THEN /\ h' = Swap(h, at, Parent(at))
              /\ at' = Parent(at)
              /\ UNCHANGED pc
         ELSE /\ pc' = "idle" /\ at' = 0
              /\ UNCHANGED h
    /\ UNCHANGED <<key, back, goal>>

\* One call of heapify_down; the last one returns to heap_pop or heap_remove.
StepDown ==
    /\ pc = "down"
    /\ LET least == LeastOf(h, key, at)
       IN  IF least # at
             THEN /\ h' = Swap(h, at, least)
                  /\ at' = least
                  /\ UNCHANGED <<pc, back>>
             ELSE /\ UNCHANGED h
                  /\ pc' = IF back = 0 THEN "idle" ELSE "up"
                  /\ at' = back
                  /\ back' = 0
    /\ UNCHANGED <<key, goal>>

Next ==
    \/ \E n \in Node, k \in Key : Insert(n, k) \/ InsertFull(n, k)
    \/ \E k \in Key : Pop(k)
    \/ \E n \in Node : RemoveLast(n) \/ Remove(n)
    \/ StepUp
    \/ StepDown

Spec == Init /\ [][Next]_vars

-----------------------------------------------------------------------------
\* The ghost aside.
TypeOK ==
    /\ h \in Seq(Node)
    /\ Len(h) <= Capacity
    /\ key \in [Node -> Key]
    /\ pc \in {"idle", "up", "down"}
    /\ at \in 0 .. Capacity /\ back \in 0 .. Capacity

\* No timer is in the array twice, whatever the loops swap.
NoDuplicates == \A a, b \in 1 .. Len(h) : h[a] = h[b] => a = b

\* Between calls no node has a lesser key than its parent.
HeapOrder ==
    pc = "idle" => \A a \in 2 .. Len(h) : key[h[Parent(a)]] <= key[h[a]]

\* Between calls array[0], which event_loop_run reads without popping it
\* (src/src/event_loop.c:140), has the least key of all.
TopIsLeast ==
    pc = "idle" => \A a \in 1 .. Len(h) : key[h[1]] <= key[h[a]]

\* The loops compute what HeapOps says each call returns.
GoalReached == pc = "idle" => h = goal

\* The heap keeps the promise of a priority queue: a node that is popped has
\* the least key, and no other node comes or goes.
Promise == INSTANCE PriorityQueue WITH members <- Members

ImplementsPriorityQueue == Promise!Spec
=============================================================================
