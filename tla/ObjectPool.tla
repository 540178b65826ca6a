----------------------------- MODULE ObjectPool -----------------------------
(***************************************************************************)
(* What an object pool promises its callers (pool.h): an object is handed  *)
(* out to one caller at a time, only while the pool is alive, and the pool *)
(* is torn down only when every object has come back.                      *)
(***************************************************************************)
CONSTANT Objects
VARIABLES alive, allocated

vars == <<alive, allocated>>

Init == alive = FALSE /\ allocated = {}

Open == ~alive /\ alive' = TRUE /\ UNCHANGED allocated

Alloc(o) == alive /\ o \notin allocated /\ allocated' = allocated \cup {o} /\ UNCHANGED alive

Free(o) == alive /\ o \in allocated /\ allocated' = allocated \ {o} /\ UNCHANGED alive

Close == alive /\ allocated = {} /\ alive' = FALSE /\ UNCHANGED allocated

Next == Open \/ Close \/ \E o \in Objects : Alloc(o) \/ Free(o)

Spec == Init /\ [][Next]_vars
=============================================================================
