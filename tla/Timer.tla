-------------------------------- MODULE Timer --------------------------------
(***************************************************************************)
(* The timer queue (kernel/timer.c): a list sorted by expiry time, served  *)
(* by timer_tick in the timer interrupt.  Time is a counter of Modulus     *)
(* values (2^32 milliseconds in the code) that wraps around and is         *)
(* compared by the sign of a difference.  Each entry of the queue also     *)
(* carries "left", the true time until it is due, which the code does not  *)
(* have and the properties are about.                                      *)
(***************************************************************************)
EXTENDS Integers, SequencesExt

CONSTANTS
  Timers,
  NoTimer,
  Modulus,   \* of time_t
  Delays,    \* delay arguments of timer_set_oneshot
  Periods,   \* period arguments of timer_set_periodic
  MaxLate    \* bound on how late a tick, or the end of one, may come

\* Comparison by difference needs all times in use within half the range.
ASSUME TimerAssumption ==
  /\ NoTimer \notin Timers
  /\ Modulus \in Nat /\ Modulus % 2 = 0
  /\ Delays \subseteq Nat /\ Periods \subseteq Nat /\ MaxLate \in Nat
  /\ 2 * (MaxLate + 2) < Modulus
  /\ \A d \in Delays \cup Periods : 2 * (d + MaxLate + 1) < Modulus

VARIABLES
  clock,    \* current_time()
  queue,    \* timer_queue: [timer, time (scheduled_time), period, left]
  tick,     \* timer_tick: whether it runs, its argument now, clock - now
  setting   \* timer_set before its critical section: the entry to insert

timervars == <<clock, queue, tick, setting>>

\* TIME_GT(a, b): (long)(a - b) > 0; TIME_LT(a, b): (long)(a - b) < 0.
SignedDifference(x, y) ==
  LET d == (x - y) % Modulus IN IF 2 * d >= Modulus THEN d - Modulus ELSE d
\* Mutant of TimeGT: times are compared as plain numbers.
TimeGTPlain(x, y) == x > y

TimeGT(x, y) == SignedDifference(x, y) > 0
TimeLT(x, y) == SignedDifference(x, y) < 0

InQueue(list, t) == \E i \in DOMAIN list : list[i].timer = t

\* insert_timer_in_queue: before the first entry that expires later.
InsertTimer(list, e) ==
  LET later == {i \in DOMAIN list : TimeGT(list[i].time, e.time)}
      place == IF later = {} THEN Len(list) + 1
               ELSE CHOOSE i \in later : \A j \in later : i <= j
  IN  InsertAt(list, place, e)

\* list_delete of a timer that is in the list.
RemoveTimer(list, t) ==
  IF InQueue(list, t)
  THEN RemoveAt(list, CHOOSE i \in DOMAIN list : list[i].timer = t)
  ELSE list

\* An entry that expires "delay" after "from", a time "ago" before the clock.
Entry(t, from, ago, delay, period) ==
  [timer |-> t, time |-> (from + delay) % Modulus, period |-> period, left |-> delay - ago]

\* Mutant of Arguments: a delay of zero stays zero.
ArgumentsRaw ==
  {[delay |-> d, period |-> 0] : d \in Delays} \cup
  {[delay |-> p, period |-> p] : p \in Periods}

\* What timer_set_oneshot and timer_set_periodic ask of timer_set: a delay or
\* period of zero counts as one.
Arguments ==
  {[delay |-> IF d = 0 THEN 1 ELSE d, period |-> 0] : d \in Delays} \cup
  {[delay |-> IF p = 0 THEN 1 ELSE p, period |-> IF p = 0 THEN 1 ELSE p] : p \in Periods}

TimerInit ==
  /\ clock = 0
  /\ queue = <<>>
  /\ tick = [on |-> FALSE, now |-> 0, lag |-> 0]
  /\ setting = [timer |-> NoTimer]

-----------------------------------------------------------------------------
(* Threads.  A tick may come between the two halves of timer_set.          *)

\* Mutant of SetBegin: a timer that is in the list is set again.
SetBeginAgain(t, a) ==
  /\ ~tick.on
  /\ setting.timer = NoTimer
  /\ setting' = Entry(t, clock, 0, a.delay, a.period)
  /\ UNCHANGED <<clock, queue, tick>>

\* timer_set up to its critical section: it panics if the timer is in the
\* list, reads the time and fills in the timer.
SetBegin(t, a) ==
  /\ ~tick.on
  /\ setting.timer = NoTimer
  /\ ~InQueue(queue, t)
  /\ setting' = Entry(t, clock, 0, a.delay, a.period)
  /\ UNCHANGED <<clock, queue, tick>>

SetEnd ==
  /\ ~tick.on
  /\ setting.timer # NoTimer
  /\ queue' = InsertTimer(queue, setting)
  /\ setting' = [timer |-> NoTimer]
  /\ UNCHANGED <<clock, tick>>

\* timer_cancel by a thread.
Cancel(t) ==
  /\ ~tick.on
  /\ InQueue(queue, t)
  /\ queue' = RemoveTimer(queue, t)
  /\ UNCHANGED <<clock, tick, setting>>

-----------------------------------------------------------------------------
(* The interrupt.                                                          *)

TickBegin ==
  /\ ~tick.on
  /\ tick' = [on |-> TRUE, now |-> clock, lag |-> 0]
  /\ UNCHANGED <<clock, queue, setting>>

\* Mutants of HeadIsDue: a timer is run a millisecond early; a timer that is due
\* just now is left.
HeadIsAlmostDue == queue # <<>> /\ ~TimeLT(tick.now + 1, Head(queue).time)

HeadIsOverdue == queue # <<>> /\ TimeLT(Head(queue).time, tick.now)

HeadIsDue == queue # <<>> /\ ~TimeLT(tick.now, Head(queue).time)

\* A periodic timer goes back into the queue unless its callback has already
\* put it there, or has cancelled it.
Requeue(list, e, kept) ==
  IF e.period > 0 /\ kept /\ ~InQueue(list, e.timer)
  THEN InsertTimer(list, Entry(e.timer, tick.now, tick.lag, e.period, e.period))
  ELSE list

\* One round of the loop: dequeue the head and run its callback, which may set
\* a timer that is not in the list, or cancel one, its own included (but no timer
\* that an interrupted timer_set has begun to fill in: its owner alone uses it).
Fire ==
  LET e == Head(queue)
      rest == Tail(queue)
  IN  /\ tick.on
      /\ HeadIsDue
      /\ \/ queue' = Requeue(rest, e, TRUE)
         \/ \E t \in Timers \ {setting.timer} :
              \/ queue' = Requeue(RemoveTimer(rest, t), e, t # e.timer)
              \/ /\ ~InQueue(rest, t)
                 /\ \E a \in Arguments :
                      queue' = Requeue(InsertTimer(rest, Entry(t, clock, 0, a.delay, a.period)),
                                       e, TRUE)
      /\ UNCHANGED <<clock, tick, setting>>

TickEnd ==
  /\ tick.on
  /\ ~HeadIsDue
  /\ tick' = [on |-> FALSE, now |-> 0, lag |-> 0]
  /\ UNCHANGED <<clock, queue, setting>>

\* A millisecond passes, outside or inside the interrupt.
Advance ==
  /\ \A i \in DOMAIN queue : queue[i].left > -MaxLate
  /\ setting.timer # NoTimer => setting.left > -MaxLate
  /\ tick.on => tick.lag < MaxLate
  /\ clock' = (clock + 1) % Modulus
  /\ queue' = [i \in DOMAIN queue |-> [queue[i] EXCEPT !.left = @ - 1]]
  /\ setting' = IF setting.timer = NoTimer THEN setting ELSE [setting EXCEPT !.left = @ - 1]
  /\ tick' = IF tick.on THEN [tick EXCEPT !.lag = @ + 1] ELSE tick

TimerNext ==
  \/ \E t \in Timers, a \in Arguments : SetBegin(t, a)
  \/ \E t \in Timers : Cancel(t)
  \/ SetEnd \/ TickBegin \/ Fire \/ TickEnd \/ Advance

\* The interrupt handler, once entered, goes on.
TimerSpec == TimerInit /\ [][TimerNext]_timervars /\ WF_timervars(Fire \/ TickEnd)

-----------------------------------------------------------------------------
(* Properties.                                                             *)

\* Type invariant; a timer is in the list at most once.
TimerTypeOK ==
  /\ clock \in 0..(Modulus - 1)
  /\ \A i \in DOMAIN queue :
       /\ queue[i].timer \in Timers
       /\ queue[i].time \in 0..(Modulus - 1)
       /\ queue[i].period \in Nat /\ queue[i].left \in Int
  /\ \A i, j \in DOMAIN queue : queue[i].timer = queue[j].timer => i = j
  /\ tick.on \in BOOLEAN

\* The list is sorted by the true time left, across the wrap of the clock and
\* although entries can be late, inserted late or put back by the interrupt.
QueueSorted ==
  \A i, j \in DOMAIN queue : i < j => queue[i].left <= queue[j].left

\* No callback runs before its time.
NeverEarly ==
  [][queue # <<>> /\ Fire => Head(queue).left <= 0]_timervars

\* Looking at the head alone is enough: when the handler is done, nothing in
\* the queue was due at the time it was called with.
TickLeavesNothingDue ==
  [][tick.on /\ ~tick'.on => \A i \in DOMAIN queue : queue[i].left + tick.lag > 0]_timervars

\* The loop of the handler ends, whatever timers the callbacks set.
TickEnds == tick.on ~> ~tick.on

\* The timers as alarms: the list as a set, without times on the clock.
Seen(e) == [timer |-> e.timer, left |-> e.left, period |-> e.period]
Seens(list) == {Seen(list[i]) : i \in DOMAIN list}

Pending == Seens(queue)
Setting == IF setting.timer = NoTimer THEN {} ELSE {Seen(setting)}
Handler == [on |-> tick.on, late |-> tick.lag]

TheAlarms == INSTANCE Alarms WITH
  Asked <- Arguments, pending <- Pending, setting <- Setting, handler <- Handler

\* A sorted list of times on a clock that wraps around, searched from its head,
\* serves timers as if each of them ran down by itself.
ImplementsAlarms == TheAlarms!Spec
=============================================================================
