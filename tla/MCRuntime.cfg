\* Two kernel threads, a shell one of them starts, in the foreground or not, and
\* a program the shell starts; the process table has room for these two.
SPECIFICATION Spec
CONSTANTS
  KernelCallers = {k1, k2}
  Idle = idle
  MaxProcesses = 2
  TableCapacity = 2
  Spawns <- ShellAndChild
  HandleUsers = {1}
  HandleSlots = 4
  IndexBase = 8
  GenerationBase = 4
SYMMETRY CallerSymmetry
CONSTRAINT UpToOverlap
INVARIANTS
  ReferenceCountsExact
  ObjectsOutliveTheirUsers
  TablesNameLiveObjects
  DispatchRootAlwaysResolves
  FinalizerNeverFails
