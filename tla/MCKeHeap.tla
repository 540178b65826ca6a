------------------------------ MODULE MCKeHeap ------------------------------
(* A small heap: pages of 16 bytes, slabs of two slots or one. *)
EXTENDS KeHeap, TLC

SmallClasses == <<2, 4>>

\* Threads are interchangeable, and so are ranges.
HeapSymmetry == Permutations(Threads) \cup Permutations(Ranges)
=============================================================================
