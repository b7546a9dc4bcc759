\* Scheduler with one wait queue; two threads of one priority.
SPECIFICATION FairThreadSpec
CONSTANTS
  idle = idle
  a = a
  b = b
  Threads <- MCThreads
  Idle = idle
  Priorities <- MCPriorities
  IdlePriority = 0
  StartPriority <- MCStartPriority
  SettablePriorities = {}
  BootThreads <- MCBoot
  Slice = 2
  Queues = {q1}
  NoQueue = NoQueue
  NoThread = NoThread
  ExclusiveResume = TRUE
  MaxLeaks = 1
INVARIANTS
  TypeOK
  RunQueuesMatch
  WaitQueuesMatch
  CpuAccounted
  StackTimersDisarmed
  CallsMatch
PROPERTIES
  WokenOnce
  TickRunsHighest
  ReadyThreadsRun
