------------------------------ MODULE MCKePool ------------------------------
(***************************************************************************)
(* Constants for checking KePool on a small instance.                      *)
(***************************************************************************)
EXTENDS KePool

CONSTANTS t1, t2, t3, p1, p2, p3, p4

ThreeThreads == {t1, t2, t3}
FourPages == {p1, p2, p3, p4}
=============================================================================
