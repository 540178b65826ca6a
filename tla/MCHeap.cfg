\* Three ranges: two slabs of one class, or a slab and large blocks with one
\* record between them.  Size 60 wraps to no page at all.
SPECIFICATION Spec
CONSTANTS
  Threads = {t1, t2}
  Ranges = {r1, r2, r3}
  LargeRecords = 1
  PageBytes = 16
  WordValues = 64
  HeaderBytes = 4
  SlotBytes = 2
  ClassSizes <- SmallClasses
  Sizes = {0, 2, 3, 20, 60}
  NULL = NULL
SYMMETRY HeapSymmetry
INVARIANTS
  BackingAccountedFor
PROPERTIES
  BlocksNeverOverlap
