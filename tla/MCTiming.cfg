\* Two priorities, sleep, yield and timed waits for an event that threads and a
\* device signal, under the fair specification.
SPECIFICATION FairSpec
CONSTANTS
  t1 = t1
  t2 = t2
  t3 = t3
  Idle = Idle
  NULL = NULL
  Threads <- ThreeThreads
  Events = {e1}
  DeviceEvents = {e1}
  Semaphores = {}
  Mutexes = {}
  Limit <- SmallLimit
  KTHREAD_PRIORITY_COUNT = 3
  Priority <- T3Low
  Timeouts = {1, 2}
  Quantum = 2
  MaxDelta = 1
  Calls = {"create", "start", "wait", "setEvent", "resetEvent", "yield", "sleep"}
INVARIANTS
  TimerCoversObligations
PROPERTIES
  TimedWaitEnds
  ReadyThreadRuns
CHECK_DEADLOCK FALSE
