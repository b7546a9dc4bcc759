\* Mutexes without timeouts and destruction, threads of one priority: a lock.
SPECIFICATION FairMutexSpec
CONSTANTS
  idle = idle
  a = a
  b = b
  c = c
  Threads <- MCThreads
  Idle = idle
  Priorities <- MCPriorities
  IdlePriority = 0
  StartPriority <- MCEqualPriority
  SettablePriorities = {}
  BootThreads <- MCEqualBoot
  Slice = 1
  Queues = {m1}
  Mutexes = {m1}
  AcquireModes = {FALSE}
  MayDestroy = FALSE
  NoQueue = NoQueue
  NoThread = NoThread
  ExclusiveResume = TRUE
  MaxLeaks = 0
PROPERTY ImplementsLock
