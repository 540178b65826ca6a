--------------------------- MODULE BlockAllocator ---------------------------
(***************************************************************************)
(* What kmalloc and kfree promise (ke/mm.h): a block handed out shares no  *)
(* byte with any other live block, and stays as it is until it is freed.   *)
(* A block is a record [range, base, size]: bytes base .. base + size - 1  *)
(* of a range of the kernel heap.                                          *)
(***************************************************************************)
EXTENDS Integers

VARIABLE live

Disjoint(b, c) ==
  \/ b.range # c.range
  \/ b.base + b.size <= c.base
  \/ c.base + c.size <= b.base

Init == live = {}

Alloc ==
  \E b \in live' \ live :
     /\ live' = live \cup {b}
     /\ \A c \in live : Disjoint(b, c)

Free == \E b \in live : live' = live \ {b}

Next == Alloc \/ Free

Spec == Init /\ [][Next]_live
=============================================================================
