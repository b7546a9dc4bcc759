------------------------------- MODULE Alarms -------------------------------
(***************************************************************************)
(* What timers promise, in true time.  A set of alarms runs down; the      *)
(* handler serves those that were due when it was called, the most overdue *)
(* first, and does not end before.  There is no clock here that wraps      *)
(* around, and no order in which the alarms are kept.                      *)
(***************************************************************************)
EXTENDS Integers

CONSTANTS
  Timers,
  Asked     \* what is asked for: the delay, and the period or 0

VARIABLES
  pending,  \* the alarms that are set: their timer, the time left, their period
  setting,  \* the alarm that a thread is about to set, if there is one
  handler   \* whether the handler runs, and for how long it has done so

alarmvars == <<pending, setting, handler>>

Alarm(t, left, period) == [timer |-> t, left |-> left, period |-> period]
In(P, t) == \E a \in P : a.timer = t
Without(P, t) == {a \in P : a.timer # t}
Later(P) == {[a EXCEPT !.left = @ - 1] : a \in P}

Init ==
  /\ pending = {}
  /\ setting = {}
  /\ handler = [on |-> FALSE, late |-> 0]

\* A thread sets an alarm: it runs from the first of these two on.
Ask(t, x) ==
  /\ ~handler.on
  /\ setting = {} /\ ~In(pending, t)
  /\ setting' = {Alarm(t, x.delay, x.period)}
  /\ UNCHANGED <<pending, handler>>

Set ==
  /\ ~handler.on
  /\ setting # {}
  /\ pending' = pending \cup setting
  /\ setting' = {}
  /\ UNCHANGED handler

Cancel(t) ==
  /\ ~handler.on
  /\ In(pending, t)
  /\ pending' = Without(pending, t)
  /\ UNCHANGED <<setting, handler>>

Begin ==
  /\ ~handler.on
  /\ handler' = [on |-> TRUE, late |-> 0]
  /\ UNCHANGED <<pending, setting>>

\* An alarm with a period is set again, to ring one period after the handler was
\* called, unless its timer has been set otherwise.
Again(P, a) ==
  IF a.period > 0 /\ ~In(P, a.timer)
  THEN P \cup {Alarm(a.timer, a.period - handler.late, a.period)}
  ELSE P

\* The most overdue alarm rings.  Its callback may cancel itself, which is then
\* not set again, or another timer, or set one.
Ring(a) ==
  /\ handler.on
  /\ a.left + handler.late <= 0
  /\ \A b \in pending : a.left <= b.left
  /\ LET rest == Without(pending, a.timer)
     IN  \/ pending' = Again(rest, a)
         \/ pending' = rest
         \/ \E t \in Timers :
              /\ ~In(setting, t)
              /\ \/ pending' = Again(Without(rest, t), a)
                 \/ /\ ~In(rest, t)
                    /\ \E x \in Asked :
                         pending' = Again(rest \cup {Alarm(t, x.delay, x.period)}, a)
  /\ UNCHANGED <<setting, handler>>

End ==
  /\ handler.on
  /\ \A a \in pending : a.left + handler.late > 0
  /\ handler' = [on |-> FALSE, late |-> 0]
  /\ UNCHANGED <<pending, setting>>

\* A millisecond passes.
Pass ==
  /\ pending' = Later(pending)
  /\ setting' = Later(setting)
  /\ handler' = [handler EXCEPT !.late = IF handler.on THEN @ + 1 ELSE @]

Next ==
  \/ \E t \in Timers : Cancel(t) \/ \E x \in Asked : Ask(t, x)
  \/ \E a \in pending : Ring(a)
  \/ Set \/ Begin \/ End \/ Pass

Spec == Init /\ [][Next]_alarmvars
=============================================================================
