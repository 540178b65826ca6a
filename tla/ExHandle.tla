------------------------------ MODULE ExHandle ------------------------------
(***************************************************************************)
(* The handle table a process owns (ex/handle.c): a fixed array of slots,  *)
(* each with an object, the rights it was opened with and a generation.    *)
(* A handle is a number: the one-based slot in its low bits, the slot's    *)
(* generation above them.                                                  *)
(*                                                                         *)
(* The operators take a table and return one; the caller keeps the table   *)
(* in its process record and moves the reference counts.                   *)
(***************************************************************************)
EXTENDS Integers, FiniteSets

CONSTANTS
  HandleSlots,     \* EX_MAX_HANDLES_PER_PROCESS
  IndexBase,       \* 2^EX_HANDLE_INDEX_BITS
  GenerationBase   \* EX_HANDLE_GENERATION_MASK + 1

ASSUME HandleAssumption ==
  /\ HandleSlots \in Nat \ {0}
  /\ IndexBase \in Nat /\ HandleSlots < IndexBase
  /\ GenerationBase \in Nat /\ GenerationBase > 1

InvalidHandle == 0    \* EX_HANDLE_INVALID
SlotIndices == 1 .. HandleSlots

\* KiAdvanceHandleGeneration: the next generation; 0 is never a generation.
AdvanceGeneration(g) ==
  LET next == (g + 1) % GenerationBase IN IF next = 0 THEN 1 ELSE next

\* KiEncodeHandle and the two halves of KiDecodeHandle.
EncodeHandle(i, g) == IF g = 0 THEN InvalidHandle ELSE g * IndexBase + i
HandleIndex(h) == h % IndexBase
HandleGeneration(h) == (h \div IndexBase) % GenerationBase

\* KiLookupHandleSlot: the handle names a slot of the table at all.
HandleDecodes(h) ==
  /\ h # InvalidHandle
  /\ HandleIndex(h) \in SlotIndices
  /\ HandleGeneration(h) # 0

EmptySlot == [object |-> "none", rights |-> {}, generation |-> 0]

\* ExHandleInitializeTable
InitializeTable == [i \in SlotIndices |-> EmptySlot]

FreeSlots(table) == {i \in SlotIndices : table[i].object = "none"}

\* The slot ExHandleInsert takes: the first free one.
FirstFreeSlot(table) ==
  CHOOSE i \in FreeSlots(table) : \A j \in FreeSlots(table) : i <= j

\* ExHandleInsert, when a slot is free: the table, and the new handle.
InsertedTable(table, object, rights) ==
  LET i == FirstFreeSlot(table)
      g == IF table[i].generation = 0 THEN AdvanceGeneration(0)
                                      ELSE table[i].generation
  IN  [table EXCEPT ![i] = [object |-> object, rights |-> rights,
                            generation |-> g]]

InsertedHandle(table) ==
  LET i == FirstFreeSlot(table)
      g == table[i].generation
  IN  EncodeHandle(i, IF g = 0 THEN AdvanceGeneration(0) ELSE g)

\* The checks every use of a handle starts with: it names an occupied slot
\* whose generation has not moved on.
HandleIsCurrent(table, h) ==
  /\ HandleDecodes(h)
  /\ table[HandleIndex(h)].object # "none"
  /\ table[HandleIndex(h)].generation = HandleGeneration(h)

\* ExHandleResolve: also the object's type and the rights.
Resolves(table, h, type, rights) ==
  /\ HandleIsCurrent(table, h)
  /\ rights \subseteq table[HandleIndex(h)].rights
  /\ table[HandleIndex(h)].object = type

\* ExHandleResolveWaitable: any type that has a completion event.
ResolvesWaitable(table, h, rights) ==
  \E type \in {"process", "thread"} : Resolves(table, h, type, rights)

\* KiValidateCloseHandleSlot.  published(type) says whether the object is in
\* the runtime tables; an identity handle of such an object stays open.
CloseAllowed(slot, published, allowPublished) ==
  /\ "CLOSE" \in slot.rights
  /\ \/ allowPublished
     \/ slot.object \notin published
     \/ slot.rights \cap {"PROCESS_SELF", "THREAD_SELF"} = {}

\* KiClearHandleSlot
ClearedSlot(slot) ==
  [EmptySlot EXCEPT !.generation = AdvanceGeneration(slot.generation)]

\* KiHandleCloseAll: every occupied slot is validated before the first one is
\* cleared, so that the table is closed whole or left alone.
AllCloseAllowed(table, published, allowPublished) ==
  \A i \in SlotIndices :
     table[i].object # "none" => CloseAllowed(table[i], published, allowPublished)

ClosedTable(table) ==
  [i \in SlotIndices |-> IF table[i].object = "none" THEN table[i]
                                                      ELSE ClearedSlot(table[i])]

\* How many slots hold a reference to an object of this type.
OpenHandles(table, type) ==
  Cardinality({i \in SlotIndices : table[i].object = type})
=============================================================================
