\* Three timers; a clock that wraps at 12.
SPECIFICATION TimerSpec
CONSTANTS
  Timers = {t1, t2, t3}
  NoTimer = NoTimer
  Modulus = 12
  Delays = {0, 3}
  Periods = {2}
  MaxLate = 1
INVARIANTS
  TimerTypeOK
  QueueSorted
PROPERTIES
  ImplementsAlarms
  TickEnds
