------------------------------ MODULE MCKeIrql ------------------------------
(***************************************************************************)
(* Constants for checking KeIrql on a small instance.                      *)
(***************************************************************************)
EXTENDS KeIrql, TLC

CONSTANTS t1, t2, t3

ThreeThreads == {t1, t2, t3}
Symmetry == Permutations(ThreeThreads)
=============================================================================
