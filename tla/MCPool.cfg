\* Three threads, four heap pages of one slot each; two pages at the start.
SPECIFICATION Spec
CONSTANTS
  t1 = t1
  t2 = t2
  t3 = t3
  p1 = p1
  p2 = p2
  p3 = p3
  p4 = p4
  NULL = NULL
  Threads <- ThreeThreads
  Pages <- FourPages
  SlotsPerPage = 1
  InitialCapacity = 2
INVARIANTS
  PoolAccountedFor
PROPERTIES
  KeepsPromise
