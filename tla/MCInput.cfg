\* Two readers, lines of at most two characters of which one reader's buffer
\* may hold only one, and a lane that moves twice.
SPECIFICATION Spec
CONSTANTS
  Readers = {r1, r2}
  NoOwner = nobody
  LineCapacity = 2
  Capacities = {1, 2}
  Keys = {"letter", "back", "enter", "shift", "unshift"}
  MaxKeys = 3
  MaxMoves = 2
INVARIANTS
  LaneHoldsOwnersLine
PROPERTIES
  ReadReturnsReadersLine
  ReadsEnd
  KeysAreServed
