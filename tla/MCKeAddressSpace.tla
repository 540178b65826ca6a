-------------------------- MODULE MCKeAddressSpace --------------------------
(* Three levels of tables with four entries each. *)
EXTENDS KeAddressSpace, TLC

Leaf(f, wide) == [frame |-> f, attrs |-> {"W", "NX"}, large |-> wide]
Child(f) == [frame |-> f, attrs |-> {"W"}, large |-> FALSE]

\* Frame 2 and 3 are the kernel's image with the arenas, frame 4 the direct
\* map, a large leaf.
ImportedTables ==
  <<[EmptyTable EXCEPT ![2] = Child(2), ![3] = Child(4)],
    [EmptyTable EXCEPT ![0] = Child(3)],
    [EmptyTable EXCEPT ![0] = Leaf(2, FALSE)],
    [EmptyTable EXCEPT ![0] = Leaf(1, TRUE)]>>

\* Processes are interchangeable.
ProcessSymmetry == Permutations(Processes)
=============================================================================
