\* Destruction during timed acquires: who becomes the holder?
SPECIFICATION MutexSpec
CONSTANTS
  idle = idle
  a = a
  b = b
  c = c
  Threads <- MCThreads
  Idle = idle
  Priorities <- MCPriorities
  IdlePriority = 0
  StartPriority <- MCStartPriority
  SettablePriorities = {}
  BootThreads <- MCBoot
  Slice = 1
  Queues = {m1}
  Mutexes = {m1}
  AcquireModes = {TRUE, FALSE}
  MayDestroy = TRUE
  NoQueue = NoQueue
  NoThread = NoThread
  ExclusiveResume = TRUE
  MaxLeaks = 1
INVARIANT HolderWasGranted
