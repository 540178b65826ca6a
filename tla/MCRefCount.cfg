\* One kernel thread and one process, with counts that are loaded and stored
\* by separate instructions, as the kernel is compiled.
SPECIFICATION Spec
CONSTANTS
  KernelCallers = {k1}
  Idle = idle
  MaxProcesses = 1
  TableCapacity = 2
  Spawns <- OneProgram
  HandleUsers = {1}
  HandleSlots = 4
  IndexBase = 8
  GenerationBase = 4
INVARIANT
  UsersFindTheirObjects
