\* Events with timeouts, interrupts that signal, and destruction.
SPECIFICATION EventSpec
CONSTANTS
  idle = idle
  a = a
  b = b
  Threads <- MCThreads
  Idle = idle
  Priorities <- MCPriorities
  IdlePriority = 0
  StartPriority <- MCStartPriority
  SettablePriorities = {1}
  BootThreads <- MCBoot
  Slice = 1
  Queues = {auto, manual}
  Events = {auto, manual}
  AutoUnsignal = {auto}
  WaitModes = {TRUE, FALSE}
  MayDestroyEvent = TRUE
  NoQueue = NoQueue
  NoThread = NoThread
  ExclusiveResume = TRUE
  MaxLeaks = 1
INVARIANTS
  EventTypeOK
  EachSignalReleasesOne
PROPERTY ImplementsSignals
