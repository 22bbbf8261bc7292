------------------------------- MODULE MCHeap -------------------------------
(* Heap on interchangeable nodes. *)
EXTENDS Heap, TLC

Symmetry == Permutations(Node)
=============================================================================
