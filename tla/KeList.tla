------------------------------- MODULE KeList -------------------------------
(***************************************************************************)
(* The intrusive doubly linked lists of the kernel (lib/common/linked_list *)
(* and the queue walks of ke/thread/scheduler), seen as sequences: the     *)
(* head of the list is the head of the sequence, LinkedListInsertTail is   *)
(* Append, and LinkedListRemove takes an entry out wherever it stands.     *)
(*                                                                         *)
(* Every operator is written without RECURSIVE, so that what it returns    *)
(* can be proved; a loop over a list is a recursive function.              *)
(***************************************************************************)
EXTENDS Integers, Sequences, Functions

\* No entry is linked twice.
Distinct(q) == \A i, j \in 1 .. Len(q) : i # j => q[i] # q[j]

\* The entries stand in the order of d.
SortedBy(q, d) == \A i, j \in 1 .. Len(q) : i < j => d[q[i]] <= d[q[j]]

(***************************************************************************)
(* The list that is left when every entry of S is unlinked from s: the     *)
(* effect of one LinkedListRemove per member of S, in any order.           *)
(***************************************************************************)
WithoutUpTo(s, S) ==
  LET F[i \in 0 .. Len(s)] ==
        IF i = 0 THEN << >>
        ELSE IF s[i] \in S THEN F[i - 1] ELSE Append(F[i - 1], s[i])
  IN F

LinkedListRemove(s, S) == WithoutUpTo(s, S)[Len(s)]

\* LinkedListInsert behind the first k entries.
InsertAfter(q, k, x) == Append(SubSeq(q, 1, k), x) \o SubSeq(q, k + 1, Len(q))

(***************************************************************************)
(* KiInsertTimeoutQueue walks past every block whose deadline is not later *)
(* than the new one and links the new block there, so equal deadlines keep *)
(* their order of arrival.  d is the deadline of each queued entry and of  *)
(* x itself.                                                               *)
(***************************************************************************)
KiInsertTimeoutQueue(q, x, d) ==
  LET pos == CHOOSE k \in 0 .. Len(q) :
               /\ \A i \in 1 .. k : d[q[i]] <= d[x]
               /\ k = Len(q) \/ d[q[k + 1]] > d[x]
  IN  InsertAfter(q, pos, x)

(***************************************************************************)
(* KiWakeTimeouts takes blocks off the front of the queue until one is not *)
(* due yet.  d is the time left of each block, 0 when it is due.           *)
(***************************************************************************)
Expired(q, d) ==
  LET n == CHOOSE k \in 0 .. Len(q) :
             /\ \A i \in 1 .. k : d[q[i]] = 0
             /\ k = Len(q) \/ d[q[k + 1]] > 0
  IN  SubSeq(q, 1, n)
=============================================================================
