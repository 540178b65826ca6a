--------------------------- MODULE MCKeScheduler ---------------------------
(***************************************************************************)
(* Constants for checking KeScheduler on small instances.                  *)
(***************************************************************************)
EXTENDS KeScheduler, TLC

CONSTANTS t1, t2, t3

ThreeThreads == {t1, t2, t3}
TwoThreads == {t1, t2}
SmallLimit == [s \in Semaphores |-> 2]

Symmetry == Permutations(Threads)

AllLow == [t \in Threads |-> 0]
T3Low == [t \in Threads |-> IF t = t3 THEN 0 ELSE 2]

=============================================================================
