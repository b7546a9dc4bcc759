\* The scheduler with timeouts that may fire late: what the leaked count does.
SPECIFICATION ThreadSpec
CONSTANTS
  idle = idle
  a = a
  b = b
  Threads <- MCThreads
  Idle = idle
  Priorities <- MCPriorities
  IdlePriority = 0
  StartPriority <- MCStartPriority
  SettablePriorities = {}
  BootThreads <- MCBoot
  Slice = 2
  Queues = {q1}
  NoQueue = NoQueue
  NoThread = NoThread
  ExclusiveResume = TRUE
  MaxLeaks = 1
INVARIANT CriticalSectionDisablesInts
