-------------------------------- MODULE Event --------------------------------
(***************************************************************************)
(* Events (kernel/event.c) on top of the scheduler.  e->wait is the wait   *)
(* queue that has the name of the event.  Threads wait, signal, unsignal   *)
(* and destroy; device interrupts signal with reschedule = false, as       *)
(* include/kernel/event.h asks.                                            *)
(* As in Thread, the model ends with the first kernel call that a thread   *)
(* makes with a critical section leaked by a late timeout: EnterUnmasked.  *)
(***************************************************************************)
EXTENDS Thread

CONSTANTS
  Events,        \* the events, each also the name of its wait queue
  AutoUnsignal,  \* those with EVENT_FLAG_AUTOUNSIGNAL
  WaitModes,     \* TRUE: with a timeout, FALSE: INFINITE_TIME
  MayDestroyEvent

ASSUME EventAssumption ==
  /\ IsFiniteSet(Threads)
  /\ Events \subseteq Queues
  /\ AutoUnsignal \subseteq Events
  /\ WaitModes \subseteq BOOLEAN
  /\ MayDestroyEvent \in BOOLEAN

VARIABLES
  ev,      \* alive (the magic number) and signalled
  credit   \* history: signals given to an auto-unsignal event, less those
           \* that a wait has returned for

evvars == <<ev, credit>>
evars == <<k, wq, cs, ints, at, frame, timer, target, drain, ev, credit>>

EventInit ==
  /\ ThreadInit
  /\ ev = [alive |-> [e \in Events |-> TRUE], signalled |-> [e \in Events |-> FALSE]]
  /\ credit = [e \in Events |-> 0]

\* Mutant of WaitPass: an auto-unsignal event stays signalled.
WaitPassKeepsSignal(e) ==
  /\ ev.alive[e]
  /\ ev.signalled[e]
  /\ credit' = [credit EXCEPT ![e] = IF e \in AutoUnsignal THEN @ - 1 ELSE @]
  /\ UNCHANGED <<tvars, ev>>

\* event_wait_timeout on a signalled event.  (On one that is not signalled a
\* timeout of 0 returns at once and changes nothing.)
WaitPass(e) ==
  /\ ev.alive[e]
  /\ ev.signalled[e]
  /\ ev' = [ev EXCEPT !.signalled[e] = e \notin AutoUnsignal]
  /\ credit' = [credit EXCEPT ![e] = IF e \in AutoUnsignal THEN @ - 1 ELSE @]
  /\ UNCHANGED tvars

WaitBlock(e, timed) ==
  /\ ev.alive[e]
  /\ ~ev.signalled[e]
  /\ Block(e, timed)
  /\ UNCHANGED evvars

WaitReturn(e) ==
  /\ BlockReturn(e)
  /\ credit' = [credit EXCEPT ![e] =
                  IF e \in AutoUnsignal /\ wq.ret[k.cur] = "ok" THEN @ - 1 ELSE @]
  /\ UNCHANGED ev

\* Mutants of Signal: a manual event wakes one thread only; an auto-unsignal
\* event stays signalled although it has woken a thread.
SignalWakesOne(e, reschedule) ==
  /\ ev.alive[e]
  /\ ~ev.signalled[e]
  /\ LET woken == e \in AutoUnsignal /\ wq.list[e] # <<>>
     IN  ev' = [ev EXCEPT !.signalled[e] = ~woken]
  /\ credit' = [credit EXCEPT ![e] = IF e \in AutoUnsignal THEN @ + 1 ELSE @]
  /\ WakeOne(e, reschedule, "ok") \/ (wq.list[e] = <<>> /\ UNCHANGED tvars)

SignalTwice(e, reschedule) ==
  /\ ev.alive[e]
  /\ ~ev.signalled[e]
  /\ ev' = [ev EXCEPT !.signalled[e] = TRUE]
  /\ credit' = [credit EXCEPT ![e] = IF e \in AutoUnsignal THEN @ + 1 ELSE @]
  /\ \/ e \in AutoUnsignal /\ WakeOne(e, reschedule, "ok")
     \/ e \notin AutoUnsignal /\ WakeAll(e, reschedule, "ok")
     \/ wq.list[e] = <<>> /\ UNCHANGED tvars

\* event_signal.  Auto-unsignal: release one thread, or stay signalled when
\* there is none; otherwise stay signalled and release all.
Signal(e, reschedule) ==
  /\ ev.alive[e]
  /\ ~ev.signalled[e]
  /\ LET woken == e \in AutoUnsignal /\ wq.list[e] # <<>>
     IN  ev' = [ev EXCEPT !.signalled[e] = ~woken]
  /\ credit' = [credit EXCEPT ![e] = IF e \in AutoUnsignal THEN @ + 1 ELSE @]
  /\ \/ e \in AutoUnsignal /\ WakeOne(e, reschedule, "ok")
     \/ e \notin AutoUnsignal /\ WakeAll(e, reschedule, "ok")
     \/ wq.list[e] = <<>> /\ UNCHANGED tvars

Unsignal(e) ==
  /\ ev.alive[e]
  /\ ev.signalled[e]
  /\ ev' = [ev EXCEPT !.signalled[e] = FALSE]
  /\ credit' = [credit EXCEPT ![e] = IF e \in AutoUnsignal THEN @ - 1 ELSE @]
  /\ UNCHANGED tvars

\* Mutant of DestroyEvent: the waiters are left on the queue.
DestroyEventOnly(e) ==
  /\ ev.alive[e]
  /\ ev' = [ev EXCEPT !.alive[e] = FALSE, !.signalled[e] = FALSE]
  /\ UNCHANGED <<tvars, credit>>

\* event_destroy: every waiter is resumed with ERR_OBJECT_DESTROYED.
DestroyEvent(e) ==
  /\ ev.alive[e]
  /\ ev' = [ev EXCEPT !.alive[e] = FALSE, !.signalled[e] = FALSE]
  /\ \/ WakeAll(e, TRUE, "destroyed")
     \/ wq.count[e] = 0 /\ UNCHANGED tvars
  /\ UNCHANGED credit

DeviceHandler == at[k.cur] = "device" /\ drain.q = NoQueue

EventClient(e) ==
  \/ Caller /\ WaitPass(e)
  \/ \E timed \in WaitModes : WaitBlock(e, timed)
  \/ WaitReturn(e)
  \/ Caller /\ \E reschedule \in BOOLEAN : Signal(e, reschedule)
  \/ DeviceHandler /\ Signal(e, FALSE)
  \/ Caller /\ Unsignal(e)
  \/ MayDestroyEvent /\ Caller /\ DestroyEvent(e)

EventNext == (Core /\ UNCHANGED evvars) \/ \E e \in Events : EventClient(e)

EventSpec == EventInit /\ [][EventNext]_evars

-----------------------------------------------------------------------------
(* Properties.                                                             *)

\* Type invariant of the events.  No wait on an auto-unsignal event returns
\* without a signal of its own: the credit is never negative.
EventTypeOK ==
  /\ ev \in [alive : [Events -> BOOLEAN], signalled : [Events -> BOOLEAN]]
  /\ credit \in [Events -> Nat]

\* A signalled event keeps nobody waiting: a thread that finds the event
\* unsignalled and blocks cannot miss a signal, whatever the order of the
\* waits, signals, unsignals and timeouts.  (The loop that releases the
\* waiters of a manual event is inside the critical section.)
SignalledHasNoWaiters ==
  \A e \in Events : ev.signalled[e] /\ drain.q # e => wq.list[e] = <<>>

\* An auto-unsignal event lets exactly one wait return for each signal: what
\* has been signalled and not returned for is either the signalled state or
\* one woken thread each.  A timeout that fires after the wakeup neither eats
\* the signal nor frees a second thread.  (This is said of calls that run with
\* interrupts disabled, up to the first one made with the count that such a
\* timeout leaks, EnterUnmasked: a signal that cuts such an event_wait between
\* its test and its block leaves a waiter on a signalled event.)
EachSignalReleasesOne ==
  \A e \in AutoUnsignal : ev.alive[e] =>
    credit[e] = (IF ev.signalled[e] THEN 1 ELSE 0)
                + Cardinality({t \in Threads :
                     frame[t].q = e /\ k.state[t] # "blocked" /\ wq.ret[t] = "ok"})

\* "Any threads still waiting on the event will be resumed": once event_destroy
\* is done no thread is left on the event, and none ever waits on it again.
DestroyedHasNoWaiters ==
  \A e \in Events : ~ev.alive[e] /\ drain.q # e => wq.list[e] = <<>>

\* What the wait of thread t returns, once that is settled.  A thread that the
\* loop of event_signal or event_destroy (drain) is still to wake has its answer:
\* nothing else runs until the loop is done.
Answer(t) ==
  IF k.state[t] # "blocked" THEN wq.ret[t]
  ELSE IF drain.q = frame[t].q THEN drain.err ELSE "none"

Passing(e) == {t \in Threads : frame[t].q = e /\ Answer(t) = "ok"}
Failing(e) == {t \in Threads : frame[t].q = e /\ Answer(t) \notin {"none", "ok"}}
Sleepers(e) == IF drain.q = e THEN <<>> ELSE wq.list[e]

\* The events as signals.
Alive == [e \in Events |-> ev.alive[e]]
Signalled == [e \in Events |-> ev.signalled[e]]
Lines == [e \in Events |-> Sleepers(e)]
Passers == [e \in Events |-> Passing(e)]
Failers == [e \in Events |-> Failing(e)]

TheSignals == INSTANCE Signals WITH
  Signs <- Events, Clients <- Threads, OneShot <- AutoUnsignal,
  open <- Alive, set <- Signalled, waiting <- Lines, passing <- Passers, failing <- Failers

\* Events are signals that reach everybody, or one, or nobody in one step, as
\* if event_signal and event_destroy did not wake the waiters one after another.
ImplementsSignals == TheSignals!Spec
=============================================================================
