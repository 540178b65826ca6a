\* Three threads besides the idle thread; up to five nested guards on a stack.
SPECIFICATION Spec
CONSTANTS
  t1 = t1
  t2 = t2
  t3 = t3
  Idle = Idle
  Threads <- ThreeThreads
  MaxNesting = 5
SYMMETRY Symmetry
INVARIANTS
  AssertionsHold
  SectionsExclude
