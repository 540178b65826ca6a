------------------------------ MODULE MCKeKva -------------------------------
(* Instances of KeKva for TLC. *)
EXTENDS KeKva, TLC

CONSTANTS t1, t2

TwoThreads == {t1, t2}
Symmetry == Permutations(Threads)
Shape(a, n, l, u) == [arena |-> a, usable |-> n, lower |-> l, upper |-> u]
StackAndHeap == {Shape("stack", 1, 1, 0), Shape("heap", 2, 0, 0)}
SinglePages == {Shape("heap", 1, 0, 0)}

\* Bound: behaviours are followed up to the first overlap of two calls of the
\* allocator.  Beyond it its counters drift without a limit.
UpToOverlap == ~overlapped
=============================================================================
