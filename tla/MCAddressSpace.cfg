\* Three processes in a behaviour and two kernel pages: one that needs a new
\* table, one under the large leaf of the direct map.  Fourteen frames are
\* enough for two staged processes at once, and not for three.
SPECIFICATION Spec
CONSTANTS
  Frames = {1, 2, 3, 4, 5, 6, 7, 8, 9, 10, 11, 12, 13, 14}
  Depth = 3
  Entries = 4
  Processes = {p1, p2, p3}
  KernelTables <- ImportedTables
  ArenaPages = {36, 48}
  CachedPages = {19, 36}
  PageBytes = 2
  WordValues = 128
  CopyBases = {31, 32, 37, 38}
  CopyLengths = {1, 4, 127}
SYMMETRY ProcessSymmetry
INVARIANTS
  FramesHaveOneUse
  UserReachesItsOwnPages
  KernelHalfIsShared
  NoStaleTranslation
  CopiesStayInUserPages
