------------------------------ MODULE HeapOps ------------------------------
(***************************************************************************)
(* The functions of src/include/heap.h, each as the array it leaves behind.*)
(* A heap is the sequence of its nodes: array[i] of the code is h[i + 1],  *)
(* size is Len(h).  key[n] is the next_timeout of node n, and compare is   *)
(* timers_compare of src/src/event_loop.c.                                 *)
(***************************************************************************)
EXTENDS Integers, Sequences

Parent(j) == j \div 2
Left(j) == 2 * j
Right(j) == 2 * j + 1

Less(key, h, a, b) == key[h[a]] < key[h[b]]

\* The nodes in the array.
Nodes(h) == {h[a] : a \in 1 .. Len(h)}

Swap(h, a, b) == [h EXCEPT ![a] = h[b], ![b] = h[a]]

\* heapify_up, as a function of the array and the index.
HeapifyUp(h, key, j) ==
    LET up[x \in [1 .. Len(h) -> Nodes(h)] \X (0 .. Len(h))] ==
            LET g == x[1]  a == x[2]
            IN  IF a > 1 /\ Less(key, g, a, Parent(a))
                  THEN up[<<Swap(g, a, Parent(a)), Parent(a)>>]
                  ELSE g
    IN  up[<<h, j>>]

\* Mutant: the right child is never looked at.
LeastOf_NoRight(h, key, a) ==
    IF Left(a) <= Len(h) /\ Less(key, h, Left(a), a) THEN Left(a) ELSE a

\* The least of a node and its children, the left one on a tie between them.
\* (The code's parent_index.)
LeastOf(h, key, a) ==
    LET l == IF Left(a) <= Len(h) /\ Less(key, h, Left(a), a) THEN Left(a) ELSE a
    IN  IF Right(a) <= Len(h) /\ Less(key, h, Right(a), l) THEN Right(a) ELSE l

\* heapify_down.
HeapifyDown(h, key, j) ==
    LET down[x \in [1 .. Len(h) -> Nodes(h)] \X (1 .. Len(h) + 1)] ==
            LET g == x[1]  a == x[2]  least == LeastOf(g, key, a)
            IN  IF least # a THEN down[<<Swap(g, a, least), least>>] ELSE g
    IN  down[<<h, j>>]

\* The last node takes the place of node j, and the heap is one shorter.
FillWithLast(h, j) == SubSeq([h EXCEPT ![j] = h[Len(h)]], 1, Len(h) - 1)

\* heap_insert: a full heap drops the node without telling the caller.
HeapInsert(h, key, n, capacity) ==
    IF Len(h) = capacity THEN h
    ELSE HeapifyUp(Append(h, n), key, Len(h) + 1)

\* heap_pop: an empty heap is left alone.
HeapPop(h, key) ==
    IF h = <<>> THEN h ELSE HeapifyDown(FillWithLast(h, 1), key, 1)

Positions(h, n) == {a \in 1 .. Len(h) : h[a] = n}

\* The first position of n, as heap_remove's linear search finds it.
IndexOf(h, n) == CHOOSE a \in Positions(h, n) : \A b \in Positions(h, n) : a <= b

\* heap_remove: a node that is not there leaves the heap alone.
HeapRemove(h, key, n) ==
    IF Positions(h, n) = {} THEN h
    ELSE LET j == IndexOf(h, n)
         IN  IF j = Len(h) THEN FillWithLast(h, j)
             ELSE HeapifyUp(HeapifyDown(FillWithLast(h, j), key, j), key, j)
=============================================================================
