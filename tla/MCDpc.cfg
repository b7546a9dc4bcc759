\* Threads that are created, exit and are freed by the dpc thread.
SPECIFICATION FairDpcSpec
CONSTANTS
  idle = idle
  dpc = dpc
  a = a
  b = b
  DpcThread = dpc
  DpcEvent = dpcevent
  Callback = callback
  MaxJobs = 2
  Threads <- MCThreads
  Idle = idle
  Priorities <- MCPriorities
  IdlePriority = 0
  StartPriority <- MCStartPriority
  SettablePriorities = {}
  BootThreads <- MCBoot
  Slice = 1
  Queues = {dpcevent}
  Events = {dpcevent}
  AutoUnsignal = {}
  WaitModes = {FALSE}
  MayDestroyEvent = FALSE
  NoQueue = NoQueue
  NoThread = NoThread
  ExclusiveResume = TRUE
  MaxLeaks = 0
INVARIANTS
  DpcTypeOK
  DeadPendOnce
  DpcThreadAwake
PROPERTIES
  DeadAreFreed
