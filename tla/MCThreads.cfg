\* Three threads create, start, join, detach and end one another, and wait for a
\* semaphore and a mutex with and without a timeout.
SPECIFICATION Spec
CONSTANTS
  t1 = t1
  t2 = t2
  t3 = t3
  Idle = Idle
  NULL = NULL
  Threads <- ThreeThreads
  Events = {}
  DeviceEvents = {}
  Semaphores = {s1}
  Mutexes = {m1}
  Limit <- SmallLimit
  KTHREAD_PRIORITY_COUNT = 1
  Priority <- AllLow
  Timeouts = {1}
  Quantum = 2
  MaxDelta = 2
  Calls = {"create", "createJoinable", "start", "wait", "releaseSemaphore", "releaseMutex", "exit", "join", "detach"}
SYMMETRY Symmetry
INVARIANTS
  TerminatedHasOneOwner
  JoinTargetStable
  NoDanglingThread
  QueuesMatchStates
  NoLostWakeup
  MutexOwnership
PROPERTIES
  WaitOutcomeMatchesOwnership
CHECK_DEADLOCK FALSE
