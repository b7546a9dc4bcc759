----------------------------- MODULE EventProofs -----------------------------
(***************************************************************************)
(* No signal of an event is lost or used twice, for any number of threads  *)
(* and events.  A wait is described by the frame of the thread that is     *)
(* inside it; what the scheduler does to such a thread is CoreWaiters of   *)
(* ThreadProofs, and each operation of an event adds what it does to one.  *)
(* Then, that events implement Signals, where nothing is done in a loop;   *)
(* and that what holds of the scheduler holds under them.                  *)
(***************************************************************************)
EXTENDS Event, ThreadProofs, FiniteSetTheorems

Waiting(t, e) == frame[t].q = e /\ k.state[t] = "blocked"

\* The threads that a signal of e has released and that have not run since.
Released(e) == {t \in Threads : frame[t].q = e /\ k.state[t] # "blocked" /\ wq.ret[t] = "ok"}

Pledged(e) == (IF ev.signalled[e] THEN 1 ELSE 0) + Cardinality(Released(e))

EventTypes ==
  /\ ev \in [alive : [Events -> BOOLEAN], signalled : [Events -> BOOLEAN]]
  /\ credit \in [Events -> Int]

\* Nobody waits on an event that is signalled or gone.
NobodyWaits ==
  \A e \in Events : (ev.signalled[e] \/ ~ev.alive[e]) /\ drain.q # e =>
    \A t \in Threads : ~Waiting(t, e)

\* All the waiters of an auto-unsignal event are woken only by its end.
DrainsAreEnds == \A e \in AutoUnsignal : drain.q = e => drain.err = "destroyed"

\* The credit is what is pledged; signals that an event took with it remain.
CreditKept ==
  /\ \A e \in Events \ AutoUnsignal : credit[e] = 0
  /\ \A e \in AutoUnsignal :
       credit[e] >= Pledged(e) /\ (ev.alive[e] => credit[e] = Pledged(e))

EventInv == ThreadInv /\ EventTypes /\ NobodyWaits /\ DrainsAreEnds /\ CreditKept

-----------------------------------------------------------------------------
(* Types and finiteness.                                                   *)

LEMMA EventIsQueue ==
  ASSUME NEW e \in Events
  PROVE  e \in Queues /\ e # NoQueue
BY EventAssumption, ThreadAssumption

LEMMA EventTypesApart ==
  ASSUME EventTypes
  PROVE  /\ ev.alive \in [Events -> BOOLEAN] /\ ev.signalled \in [Events -> BOOLEAN]
         /\ ev = [alive |-> ev.alive, signalled |-> ev.signalled]
         /\ credit \in [Events -> Int]
BY DEF EventTypes

LEMMA ReleasedFinite ==
  ASSUME NEW e
  PROVE  IsFiniteSet(Released(e)) /\ Cardinality(Released(e)) \in Nat
<1>1. Released(e) \subseteq Threads
  BY DEF Released
<1>2. IsFiniteSet(Released(e))
  BY <1>1, EventAssumption, FS_Subset
<1>3. QED
  BY <1>2, FS_CardinalityType

\* A wait queue is empty when nobody waits on it.
LEMMA EmptyIsNobody ==
  ASSUME NEW x, NEW w \in Waits, WaitMatch(x, w), NEW f,
         \A t \in Threads : x[t] = "blocked" => f[t].q = w.blockq[t], NEW q \in Queues
  PROVE  w.list[q] = <<>> <=> \A t \in Threads : ~(f[t].q = q /\ x[t] = "blocked")
<1>1. w.list[q] \in Seq(Threads)
  BY DEF Waits
<1>2. \A u : Listed(u, w.list[q]) => u \in Threads
  BY <1>1 DEF Listed
<1>3. \A t \in Threads : Listed(t, w.list[q]) <=> f[t].q = q /\ x[t] = "blocked"
  BY DEF WaitMatch
<1> QED
  BY <1>1, <1>2, <1>3, EmptyIffNoneListed

LEMMA EmptyNow ==
  ASSUME ThreadInv, NEW e \in Events
  PROVE  wq.list[e] = <<>> <=> \A t \in Threads : ~Waiting(t, e)
<1> DEFINE x == k.state
           f == frame
<1>1. wq \in Waits /\ WaitMatch(x, wq) /\ e \in Queues
  BY EventIsQueue DEF ThreadInv, TypeOK, WaitQueuesMatch
<1>2. \A t \in Threads : x[t] = "blocked" => f[t].q = wq.blockq[t]
  BY DEF ThreadInv, CallsMatch
<1>3. \A t \in Threads : Waiting(t, e) <=> f[t].q = e /\ x[t] = "blocked"
  BY DEF Waiting
<1> HIDE DEF x, f
<1> QED
  BY <1>1, <1>2, <1>3, EmptyIsNobody

LEMMA EmptyNext ==
  ASSUME ThreadInv', NEW e \in Events
  PROVE  wq'.list[e] = <<>> <=> \A t \in Threads : ~Waiting(t, e)'
<1> DEFINE x == k'.state
           f == frame'
<1>1. wq' \in Waits /\ WaitMatch(x, wq') /\ e \in Queues
  BY EventIsQueue DEF ThreadInv, TypeOK, WaitQueuesMatch
<1>2. \A t \in Threads : x[t] = "blocked" => f[t].q = wq'.blockq[t]
  BY DEF ThreadInv, CallsMatch
<1>3. \A t \in Threads : Waiting(t, e)' <=> f[t].q = e /\ x[t] = "blocked"
  BY DEF Waiting
<1> HIDE DEF x, f
<1> QED
  BY <1>1, <1>2, <1>3, EmptyIsNobody

-----------------------------------------------------------------------------
(* Steps that no thread inside a wait notices but by being woken without a *)
(* signal.                                                                 *)

\* What is pledged stays when nobody is released and the signals stay.
LEMMA SamePledged ==
  ASSUME NEW e, Released(e)' = Released(e), ev'.signalled[e] = ev.signalled[e]
  PROVE  Pledged(e)' = Pledged(e)
BY DEF Pledged

LEMMA EventCoreOK ==
  ASSUME EventInv, ThreadInv', Core, UNCHANGED evvars
  PROVE  EventInv'
<1>1. /\ frame' = frame
      /\ drain' = drain \/ (drain' = NoDrain /\ wq'.list[drain.q] = <<>>)
      /\ \A u \in Threads : frame[u].q # NoQueue =>
           \/ Untouched(u)
           \/ Woken(u, drain.err) /\ drain.q = frame[u].q
           \/ Woken(u, "timeout") /\ frame[u].timed
  BY CoreWaiters DEF EventInv
<1>2. \A u \in Threads, e \in Events : Waiting(u, e)' => Waiting(u, e)
  BY <1>1, EventIsQueue DEF Waiting, Untouched, Woken
<1>3. EventTypes'
  BY DEF EventInv, EventTypes, evvars
<1>4. NobodyWaits'
  <2> SUFFICES ASSUME NEW e \in Events, ev.signalled[e] \/ ~ev.alive[e], drain'.q # e,
                      NEW t \in Threads
               PROVE  ~Waiting(t, e)'
    BY DEF NobodyWaits, evvars
  <2>1. CASE drain.q # e
    BY <1>2, <2>1 DEF EventInv, NobodyWaits
  <2>2. CASE drain.q = e
    <3>1. wq'.list[e] = <<>>
      BY <1>1, <2>2
    <3> QED
      BY <3>1, EmptyNext
  <2> QED
    BY <2>1, <2>2
<1>5. DrainsAreEnds'
  BY <1>1, EventIsQueue, EventAssumption DEF EventInv, DrainsAreEnds, NoDrain
<1>6. CreditKept'
  <2>1. ASSUME NEW e \in AutoUnsignal PROVE Released(e)' = Released(e)
    <3>1. ASSUME NEW u \in Threads, frame[u].q = e
          PROVE  k'.state[u] # "blocked" /\ wq'.ret[u] = "ok" <=>
                 k.state[u] # "blocked" /\ wq.ret[u] = "ok"
      <4>1. e # NoQueue
        BY EventIsQueue, EventAssumption
      <4>2. CASE Untouched(u)
        BY <4>2 DEF Untouched
      <4>3. CASE Woken(u, drain.err) /\ drain.q = e
        BY <4>3 DEF Woken, EventInv, DrainsAreEnds
      <4>4. CASE Woken(u, "timeout")
        BY <4>4 DEF Woken
      <4> QED
        BY <1>1, <3>1, <4>1, <4>2, <4>3, <4>4
    <3> QED
      BY <1>1, <3>1 DEF Released
  <2>2. ev' = ev /\ credit' = credit
    BY DEF evvars
  <2>3. \A e \in AutoUnsignal : Pledged(e)' = Pledged(e)
    BY <2>1, <2>2, SamePledged
  <2> QED
    BY <2>2, <2>3 DEF EventInv, CreditKept
<1> QED
  BY <1>3, <1>4, <1>5, <1>6 DEF EventInv

-----------------------------------------------------------------------------
(* The operations of an event.                                             *)

\* A step that changes neither the threads nor what is pledged, only the
\* signalled state of e and its credit, by the same number.
LEMMA FlipOK ==
  ASSUME EventInv, NEW e \in Events, UNCHANGED tvars, ev.alive[e], drain.q # e,
         NEW s \in BOOLEAN, ev' = [ev EXCEPT !.signalled[e] = s],
         s => \A t \in Threads : ~Waiting(t, e),
         NEW d \in Int, credit' = [credit EXCEPT ![e] = @ + d],
         e \notin AutoUnsignal => d = 0,
         e \in AutoUnsignal =>
           d = (IF s THEN 1 ELSE 0) - (IF ev.signalled[e] THEN 1 ELSE 0)
  PROVE  EventInv'
<1>1. ThreadInv'
  BY StutterOK DEF EventInv
<1>2. k' = k /\ wq' = wq /\ frame' = frame /\ drain' = drain
  BY DEF tvars
<1>3. /\ ev'.alive = ev.alive
      /\ \A z \in Events : ev'.signalled[z] = IF z = e THEN s ELSE ev.signalled[z]
      /\ \A z \in Events : credit'[z] = IF z = e THEN credit[z] + d ELSE credit[z]
      /\ EventTypes'
  <2>1. ev' = [alive |-> ev.alive, signalled |-> [ev.signalled EXCEPT ![e] = s]]
    BY EventTypesApart DEF EventInv, EventTypes
  <2>2. credit' = [credit EXCEPT ![e] = credit[e] + d]
    OBVIOUS
  <2> QED
    BY <2>1, <2>2, EventTypesApart DEF EventInv, EventTypes
<1>4. NobodyWaits'
  BY <1>2, <1>3 DEF EventInv, NobodyWaits, Waiting
<1>5. DrainsAreEnds'
  BY <1>2 DEF EventInv, DrainsAreEnds
<1>6. CreditKept'
  <2>1. \A z \in Events : Released(z)' = Released(z) /\ Cardinality(Released(z)) \in Nat
    BY <1>2, ReleasedFinite DEF Released
  <2>2. \A z \in AutoUnsignal : z \in Events
    BY EventAssumption
  <2>3. ASSUME NEW z \in AutoUnsignal, z # e PROVE Pledged(z)' = Pledged(z) /\ credit'[z] = credit[z]
    BY <1>3, <2>1, <2>2, <2>3 DEF Pledged
  <2>4. ASSUME e \in AutoUnsignal PROVE credit[e] = Pledged(e) /\ credit'[e] = Pledged(e)'
    <3>1. credit[e] = Pledged(e)
      BY <2>4 DEF EventInv, CreditKept
    <3>2. Pledged(e)' = (IF s THEN 1 ELSE 0) + Cardinality(Released(e))
      BY <1>3, <2>1 DEF Pledged
    <3>3. Pledged(e) = (IF ev.signalled[e] THEN 1 ELSE 0) + Cardinality(Released(e))
      BY DEF Pledged
    <3> QED
      BY <1>3, <2>1, <2>4, <3>1, <3>2, <3>3
  <2>5. ASSUME NEW z \in AutoUnsignal
        PROVE  credit'[z] >= Pledged(z)' /\ (ev'.alive[z] => credit'[z] = Pledged(z)')
    <3>1. CASE z = e
      <4>1. credit'[e] = Pledged(e)' /\ credit'[e] \in Int
        BY <1>3, <2>4, <3>1 DEF EventTypes
      <4> QED
        BY <3>1, <4>1
    <3>2. CASE z # e
      BY <1>3, <2>3, <3>2 DEF EventInv, CreditKept
    <3> QED
      BY <3>1, <3>2
  <2>6. ASSUME NEW z \in Events \ AutoUnsignal PROVE credit'[z] = 0
    BY <1>3 DEF EventInv, CreditKept
  <2> QED
    BY <2>5, <2>6 DEF CreditKept
<1> QED
  BY <1>1, <1>3, <1>4, <1>5, <1>6 DEF EventInv

LEMMA WaitPassOK ==
  ASSUME EventInv, NEW e \in Events, WaitPass(e), Caller
  PROVE  EventInv'
<1> DEFINE d == IF e \in AutoUnsignal THEN -1 ELSE 0
           s == e \notin AutoUnsignal
<1>1. /\ ev.alive[e] /\ ev.signalled[e] /\ UNCHANGED tvars /\ drain.q # e
      /\ ev' = [ev EXCEPT !.signalled[e] = s] /\ s \in BOOLEAN
  BY CallerStands, EventIsQueue DEF WaitPass, EventInv
<1>2. credit' = [credit EXCEPT ![e] = @ + d]
  <2>1. credit[e] + d = IF e \in AutoUnsignal THEN credit[e] - 1 ELSE credit[e]
    BY EventTypesApart DEF EventInv
  <2> HIDE DEF d
  <2> QED
    BY <2>1 DEF WaitPass
<1>3. \A t \in Threads : ~Waiting(t, e)
  BY <1>1 DEF EventInv, NobodyWaits
<1>4. d = (IF s THEN 1 ELSE 0) - (IF ev.signalled[e] THEN 1 ELSE 0) /\ d \in Int
  BY <1>1
<1>5. e \notin AutoUnsignal => d = 0
  OBVIOUS
<1> HIDE DEF d, s
<1> QED
  BY <1>1, <1>2, <1>3, <1>4, <1>5, FlipOK

LEMMA UnsignalOK ==
  ASSUME EventInv, NEW e \in Events, Unsignal(e), Caller
  PROVE  EventInv'
<1> DEFINE d == IF e \in AutoUnsignal THEN -1 ELSE 0
<1>1. /\ ev.alive[e] /\ ev.signalled[e] /\ UNCHANGED tvars /\ drain.q # e
      /\ ev' = [ev EXCEPT !.signalled[e] = FALSE]
  BY CallerStands, EventIsQueue DEF Unsignal, EventInv
<1>2. credit' = [credit EXCEPT ![e] = @ + d]
  <2>1. credit[e] + d = IF e \in AutoUnsignal THEN credit[e] - 1 ELSE credit[e]
    BY EventTypesApart DEF EventInv
  <2> HIDE DEF d
  <2> QED
    BY <2>1 DEF Unsignal
<1>3. e \in AutoUnsignal => d = 0 - (IF ev.signalled[e] THEN 1 ELSE 0)
  BY <1>1
<1>4. d \in Int /\ (e \notin AutoUnsignal => d = 0)
  OBVIOUS
<1> HIDE DEF d
<1> QED
  BY <1>1, <1>2, <1>3, <1>4, FlipOK

\* A signal that finds nobody waiting.
LEMMA SignalNobodyOK ==
  ASSUME EventInv, NEW e \in Events, NEW reschedule, Signal(e, reschedule),
         wq.list[e] = <<>>, UNCHANGED tvars, drain.q = NoQueue
  PROVE  EventInv'
<1> DEFINE d == IF e \in AutoUnsignal THEN 1 ELSE 0
<1>1. /\ ev.alive[e] /\ ~ev.signalled[e] /\ drain.q # e
      /\ ev' = [ev EXCEPT !.signalled[e] = TRUE]
  BY EventIsQueue DEF Signal
<1>2. credit' = [credit EXCEPT ![e] = @ + d]
  <2>1. credit[e] + d = IF e \in AutoUnsignal THEN credit[e] + 1 ELSE credit[e]
    BY EventTypesApart DEF EventInv
  <2> HIDE DEF d
  <2> QED
    BY <2>1 DEF Signal
<1>3. \A t \in Threads : ~Waiting(t, e)
  BY EmptyNow DEF EventInv
<1>4. e \in AutoUnsignal => d = 1 - (IF ev.signalled[e] THEN 1 ELSE 0)
  BY <1>1
<1>5. d \in Int /\ (e \notin AutoUnsignal => d = 0)
  OBVIOUS
<1> HIDE DEF d
<1> QED
  BY <1>1, <1>2, <1>3, <1>4, <1>5, FlipOK

LEMMA WaitBlockOK ==
  ASSUME EventInv, NEW e \in Events, NEW timed \in BOOLEAN, WaitBlock(e, timed)
  PROVE  EventInv'
<1> DEFINE c == k.cur
<1>1. /\ c \in Threads /\ ev.alive[e] /\ ~ev.signalled[e] /\ Block(e, timed) /\ e \in Queues
      /\ frame[c].q = NoQueue /\ k.state[c] = "running" /\ drain.q = NoQueue /\ c # Idle
      /\ drain' = drain /\ ev' = ev /\ credit' = credit
  BY Types, EventIsQueue
     DEF EventInv, WaitBlock, Block, Caller, InThread, ThreadInv, CallsMatch, CpuAccounted, evvars
<1>2. ThreadInv'
  BY <1>1, BlockOK DEF EventInv
<1>3. frame' = [frame EXCEPT ![c] = [q |-> e, timed |-> timed]]
  BY <1>1 DEF Block
<1>4. wq'.ret = [wq.ret EXCEPT ![c] = "ok"]
  BY <1>1 DEF Block, PushWaiter, EventInv, ThreadInv, TypeOK, Waits
<1>5. PICK new \in Threads :
        /\ new # c /\ k.state[new] = "ready"
        /\ \A t \in Threads : k'.state[t] = IF t = new THEN "running"
                                           ELSE IF t = c THEN "blocked" ELSE k.state[t]
  BY <1>1, LeavesCpu DEF Block, EventInv
<1>6. /\ \A t \in Threads : frame'[t] = IF t = c THEN [q |-> e, timed |-> timed] ELSE frame[t]
      /\ \A t \in Threads : wq'.ret[t] = IF t = c THEN "ok" ELSE wq.ret[t]
      /\ \A t \in Threads : k'.state[t] = "blocked" <=> k.state[t] = "blocked" \/ t = c
  <2>1. frame \in [Threads -> [q : Queues \cup {NoQueue}, timed : BOOLEAN]] /\ wq.ret \in [Threads -> Results]
    BY Types DEF EventInv, ThreadInv
  <2>2. \A t \in Threads : frame'[t] = IF t = c THEN [q |-> e, timed |-> timed] ELSE frame[t]
    BY <1>1, <1>3, <2>1
  <2>3. \A t \in Threads : wq'.ret[t] = IF t = c THEN "ok" ELSE wq.ret[t]
    BY <1>1, <1>4, <2>1
  <2>4. \A t \in Threads : k'.state[t] = "blocked" <=> k.state[t] = "blocked" \/ t = c
    BY <1>1, <1>5
  <2> QED
    BY <2>2, <2>3, <2>4
<1> HIDE DEF c
<1>7. \A z \in Events : Released(z)' = Released(z)
  BY <1>1, <1>6, EventIsQueue DEF Released
<1>8. CreditKept'
  <2>1. \A z \in AutoUnsignal : Pledged(z)' = Pledged(z)
    BY <1>1, <1>7, EventAssumption, SamePledged
  <2> QED
    BY <1>1, <2>1 DEF EventInv, CreditKept
<1>9. NobodyWaits'
  BY <1>1, <1>6 DEF EventInv, NobodyWaits, Waiting
<1> QED
  BY <1>1, <1>2, <1>8, <1>9 DEF EventInv, EventTypes, DrainsAreEnds

LEMMA WaitReturnOK ==
  ASSUME EventInv, NEW e \in Events, WaitReturn(e)
  PROVE  EventInv'
<1> DEFINE c == k.cur
           got == e \in AutoUnsignal /\ wq.ret[c] = "ok"
<1>1. /\ c \in Threads /\ e \in Queues /\ e # NoQueue /\ BlockReturn(e)
      /\ frame[c].q = e /\ k.state[c] = "running" /\ drain.q = NoQueue
      /\ UNCHANGED <<k, wq, drain, ev>> /\ frame' = [frame EXCEPT ![c] = NoFrame]
  BY Types, EventIsQueue DEF WaitReturn, BlockReturn, EventInv, ThreadInv, CpuAccounted
<1>2. ThreadInv'
  BY <1>1, BlockReturnOK DEF EventInv
<1>3. credit' = [credit EXCEPT ![e] = IF got THEN credit[e] - 1 ELSE credit[e]]
  BY DEF WaitReturn
<1>4. \A t \in Threads : frame'[t] = IF t = c THEN NoFrame ELSE frame[t]
  BY <1>1, Types DEF EventInv, ThreadInv
<1>5. EventTypes' /\ \A z \in Events : credit'[z] = IF z = e /\ got THEN credit[z] - 1 ELSE credit[z]
  <2>1. credit[e] \in Int /\ credit \in [Events -> Int]
    BY EventTypesApart DEF EventInv
  <2> QED
    BY <1>1, <1>3, <2>1 DEF EventInv, EventTypes
<1> HIDE DEF c
<1>6. \A z \in Events : Released(z)' = IF z = e /\ wq.ret[c] = "ok" THEN Released(z) \ {c} ELSE Released(z)
  <2> TAKE z \in Events
  <2>1. z # NoQueue
    BY EventIsQueue
  <2> QED
    BY <1>1, <1>4, <2>1 DEF Released, NoFrame
<1>7. CreditKept'
  <2>1. ASSUME NEW z \in AutoUnsignal
        PROVE  credit'[z] >= Pledged(z)' /\ (ev'.alive[z] => credit'[z] = Pledged(z)')
    <3>1. z \in Events /\ credit[z] \in Int /\ credit[z] >= Pledged(z)
          /\ (ev.alive[z] => credit[z] = Pledged(z))
      BY EventAssumption, EventTypesApart DEF EventInv, CreditKept
    <3>2. CASE z = e /\ got
      <4>1. c \in Released(e)
        BY <1>1, <3>2 DEF Released
      <4>2. Cardinality(Released(e) \ {c}) = Cardinality(Released(e)) - 1
        BY <4>1, ReleasedFinite, FS_RemoveElement
      <4>3. Released(e)' = Released(e) \ {c}
        BY <1>6, <3>1, <3>2
      <4>4. Pledged(e)' = Pledged(e) - 1
        BY <1>1, <4>2, <4>3, ReleasedFinite DEF Pledged
      <4>5. credit'[z] = credit[z] - 1
        BY <1>5, <3>1, <3>2
      <4>6. Pledged(e) \in Int
        BY ReleasedFinite DEF Pledged
      <4> QED
        BY <1>1, <3>1, <3>2, <4>4, <4>5, <4>6
    <3>3. CASE ~(z = e /\ got)
      <4>1. Released(z)' = Released(z) /\ credit'[z] = credit[z]
        BY <1>5, <1>6, <3>1, <3>3
      <4>2. Pledged(z)' = Pledged(z)
        BY <1>1, <4>1, SamePledged
      <4> QED
        BY <1>1, <3>1, <4>1, <4>2
    <3> QED
      BY <3>2, <3>3
  <2>2. ASSUME NEW z \in Events \ AutoUnsignal PROVE credit'[z] = 0
    BY <1>5 DEF EventInv, CreditKept
  <2> QED
    BY <2>1, <2>2 DEF CreditKept
<1>8. NobodyWaits'
  <2>1. \A u \in Threads, z \in Events : Waiting(u, z)' => Waiting(u, z)
    BY <1>1, <1>4, EventIsQueue DEF Waiting, NoFrame
  <2> QED
    BY <1>1, <2>1 DEF EventInv, NobodyWaits
<1> QED
  BY <1>1, <1>2, <1>5, <1>7, <1>8 DEF EventInv, DrainsAreEnds

\* event_signal of an auto-unsignal event that has a waiter.
LEMMA SignalOneOK ==
  ASSUME EventInv, NEW e \in AutoUnsignal, NEW reschedule \in BOOLEAN, Signal(e, reschedule),
         WakeOne(e, reschedule, "ok"), InKernelCaller, reschedule => at[k.cur] = "user"
  PROVE  EventInv'
<1> DEFINE h == Head(wq.list[e])
           x == k.state
<1>1. /\ e \in Events /\ e \in Queues /\ e # NoQueue /\ ev.alive[e] /\ ~ev.signalled[e]
      /\ wq.list[e] # <<>> /\ wq' = PopWaiter(wq, e, "ok") /\ "ok" \in Results
      /\ wq \in Waits /\ WaitMatch(x, wq) /\ frame' = frame /\ drain' = drain
      /\ drain.q = NoQueue
  BY EventIsQueue, EventAssumption
     DEF Signal, WakeOne, Results, EventInv, ThreadInv, TypeOK, WaitQueuesMatch, InKernelCaller
<1>2. ThreadInv'
  BY <1>1, WakeOneOK DEF EventInv
<1>3. h \in Threads /\ x[h] = "blocked" /\ wq.blockq[h] = e /\ frame[h].q = e
  BY <1>1, HeadBlocked DEF EventInv
<1> HIDE DEF x
<1>4. Removed(wq', wq, e, h, "ok")
  BY <1>1, PopOK
<1> HIDE DEF h
<1>5. /\ \A u \in Threads : k'.state[u] = "blocked" <=> k.state[u] = "blocked" /\ u # h
      /\ \A u \in Threads : wq'.ret[u] = IF u = h THEN "ok" ELSE wq.ret[u]
  BY <1>1, <1>2, <1>3, <1>4, RemovedIsUnblocked DEF x, EventInv
<1>6. /\ ev'.alive = ev.alive /\ ev'.signalled = ev.signalled
      /\ EventTypes'
      /\ \A z \in Events : credit'[z] = IF z = e THEN credit[z] + 1 ELSE credit[z]
  <2>1. ev' = [ev EXCEPT !.signalled[e] = FALSE]
    BY <1>1 DEF Signal
  <2>2. ev'.alive = ev.alive /\ ev'.signalled = [ev.signalled EXCEPT ![e] = FALSE]
    BY <2>1, EventTypesApart DEF EventInv, EventTypes
  <2>3. ev'.signalled = ev.signalled
    BY <1>1, <2>2, EventTypesApart DEF EventInv
  <2>4. ev' = [alive |-> ev.alive, signalled |-> [ev.signalled EXCEPT ![e] = FALSE]]
    BY <2>1, EventTypesApart DEF EventInv, EventTypes
  <2>5. credit' = [credit EXCEPT ![e] = credit[e] + 1] /\ credit[e] \in Int
    BY <1>1, EventTypesApart DEF Signal, EventInv
  <2> QED
    BY <1>1, <2>2, <2>3, <2>4, <2>5, EventTypesApart DEF EventInv, EventTypes
<1>7. \A z \in Events : Released(z)' = IF z = e THEN Released(z) \cup {h} ELSE Released(z)
  BY <1>1, <1>3, <1>5 DEF Released
<1>8. Pledged(e)' = Pledged(e) + 1
  <2>1. h \notin Released(e)
    BY <1>3 DEF Released, x
  <2>2. Cardinality(Released(e) \cup {h}) = Cardinality(Released(e)) + 1
    BY <2>1, ReleasedFinite, FS_AddElement
  <2>3. Released(e)' = Released(e) \cup {h}
    BY <1>1, <1>7
  <2>4. Pledged(e)' = 0 + Cardinality(Released(e) \cup {h})
    BY <1>1, <1>6, <2>3 DEF Pledged
  <2>5. Pledged(e) = 0 + Cardinality(Released(e))
    BY <1>1 DEF Pledged
  <2> QED
    BY <2>2, <2>4, <2>5, ReleasedFinite
<1>9. CreditKept'
  <2>1. ASSUME NEW z \in AutoUnsignal
        PROVE  credit'[z] >= Pledged(z)' /\ (ev'.alive[z] => credit'[z] = Pledged(z)')
    <3>1. z \in Events /\ credit[z] >= Pledged(z) /\ (ev.alive[z] => credit[z] = Pledged(z))
      BY EventAssumption DEF EventInv, CreditKept
    <3>2. CASE z = e
      <4>1. Pledged(e) \in Int /\ credit[e] \in Int
        BY <1>1, ReleasedFinite, EventTypesApart DEF Pledged, EventInv
      <4>2. credit'[e] = credit[e] + 1
        BY <1>1, <1>6
      <4> QED
        BY <1>1, <1>8, <3>1, <3>2, <4>1, <4>2
    <3>3. CASE z # e
      <4>1. Pledged(z)' = Pledged(z)
        BY <1>6, <1>7, <3>1, <3>3, SamePledged
      <4> QED
        BY <1>6, <3>1, <3>3, <4>1
    <3> QED
      BY <3>2, <3>3
  <2>2. ASSUME NEW z \in Events \ AutoUnsignal PROVE credit'[z] = 0
    BY <1>6 DEF EventInv, CreditKept
  <2> QED
    BY <2>1, <2>2 DEF CreditKept
<1>10. NobodyWaits'
  <2>1. \A u \in Threads, z \in Events : Waiting(u, z)' => Waiting(u, z)
    BY <1>1, <1>5 DEF Waiting
  <2> QED
    BY <1>1, <1>6, <2>1 DEF EventInv, NobodyWaits
<1> QED
  BY <1>1, <1>2, <1>6, <1>9, <1>10 DEF EventInv, DrainsAreEnds

\* What event_signal of a manual event and event_destroy have in common: all
\* the waiters are about to be woken, or there is none.
LEMMA EverybodyOK ==
  ASSUME EventInv, ThreadInv', NEW e \in Events, wq' = wq, frame' = frame, credit' = credit,
         drain.q = NoQueue,
         \/ drain'.q = e /\ (drain'.err = "destroyed" \/ e \notin AutoUnsignal)
         \/ drain' = drain /\ wq.list[e] = <<>>,
         EventTypes',
         \A z \in Events : z # e => ev'.alive[z] = ev.alive[z] /\ ev'.signalled[z] = ev.signalled[z],
         e \in AutoUnsignal => ~ev'.alive[e] /\ ~ev'.signalled[e]
  PROVE  EventInv'
<1>1. \A u \in Threads : k'.state[u] = "blocked" <=> k.state[u] = "blocked"
  BY SameListsSameBlocked DEF EventInv
<1>2. \A z \in Events : Released(z)' = Released(z)
  BY <1>1 DEF Released
<1>3. NobodyWaits'
  <2> SUFFICES ASSUME NEW z \in Events, ev'.signalled[z] \/ ~ev'.alive[z], drain'.q # z,
                      NEW t \in Threads
               PROVE  ~Waiting(t, z)'
    BY DEF NobodyWaits
  <2>1. Waiting(t, z)' <=> Waiting(t, z)
    BY <1>1 DEF Waiting
  <2>2. CASE z = e
    BY <2>1, <2>2, EmptyNow DEF EventInv
  <2>3. CASE z # e
    <3>1. ev.signalled[z] \/ ~ev.alive[z]
      BY <2>3
    <3>2. drain.q # z
      BY EventIsQueue
    <3>3. ~Waiting(t, z)
      BY <3>1, <3>2 DEF EventInv, NobodyWaits
    <3> QED
      BY <2>1, <3>3
  <2> QED
    BY <2>2, <2>3
<1>4. DrainsAreEnds'
  BY EventIsQueue, EventAssumption DEF EventInv, DrainsAreEnds
<1>5. CreditKept'
  <2>1. ASSUME NEW z \in AutoUnsignal
        PROVE  credit'[z] >= Pledged(z)' /\ (ev'.alive[z] => credit'[z] = Pledged(z)')
    <3>1. z \in Events /\ credit[z] >= Pledged(z) /\ (ev.alive[z] => credit[z] = Pledged(z))
      BY EventAssumption DEF EventInv, CreditKept
    <3>2. CASE z = e
      <4>1. Pledged(e)' = Cardinality(Released(e)) /\ credit[e] \in Int
        BY <1>2, <3>2, EventTypesApart, ReleasedFinite DEF Pledged, EventInv
      <4>2. Pledged(e) >= Cardinality(Released(e)) /\ Pledged(e) \in Int
        BY ReleasedFinite DEF Pledged
      <4> QED
        BY <3>1, <3>2, <4>1, <4>2, ReleasedFinite
    <3>3. CASE z # e
      BY <1>2, <3>1, <3>3, SamePledged
    <3> QED
      BY <3>2, <3>3
  <2> QED
    BY <2>1 DEF EventInv, CreditKept
<1> QED
  BY <1>3, <1>4, <1>5 DEF EventInv

LEMMA SignalOK ==
  ASSUME EventInv, NEW e \in Events, NEW reschedule \in BOOLEAN, Signal(e, reschedule),
         InKernelCaller, reschedule => at[k.cur] = "user"
  PROVE  EventInv'
<1>1. CASE wq.list[e] = <<>> /\ UNCHANGED tvars
  BY <1>1, SignalNobodyOK DEF InKernelCaller
<1>2. CASE e \in AutoUnsignal /\ WakeOne(e, reschedule, "ok")
  BY <1>2, SignalOneOK
<1>3. CASE e \notin AutoUnsignal /\ WakeAll(e, reschedule, "ok")
  <2>1. ThreadInv'
    BY <1>3, WakeAllOK, EventIsQueue DEF EventInv, Results
  <2>2. /\ wq' = wq /\ frame' = frame /\ drain'.q = e /\ drain.q = NoQueue
    BY <1>3 DEF WakeAll, InKernelCaller
  <2>3. ev' = [ev EXCEPT !.signalled[e] = TRUE]
    BY <1>3 DEF Signal
  <2>4. ev' = [alive |-> ev.alive, signalled |-> [ev.signalled EXCEPT ![e] = TRUE]]
    BY <2>3, EventTypesApart DEF EventInv, EventTypes
  <2>5. credit' = credit
    <3>1. credit' = [credit EXCEPT ![e] = credit[e]]
      BY <1>3 DEF Signal
    <3> QED
      BY <3>1, EventTypesApart DEF EventInv
  <2>6. EventTypes'
    BY <2>4, <2>5, EventTypesApart DEF EventInv, EventTypes
  <2>7. \A z \in Events : z # e => ev'.alive[z] = ev.alive[z] /\ ev'.signalled[z] = ev.signalled[z]
    BY <2>4, EventTypesApart DEF EventInv
  <2> QED
    BY <1>3, <2>1, <2>2, <2>5, <2>6, <2>7, EverybodyOK
<1> QED
  BY <1>1, <1>2, <1>3 DEF Signal

LEMMA DestroyEventOK ==
  ASSUME EventInv, NEW e \in Events, DestroyEvent(e), Caller
  PROVE  EventInv'
<1>1. e \in Queues /\ drain.q = NoQueue /\ credit' = credit
  BY CallerStands, EventIsQueue DEF DestroyEvent, EventInv
<1>2. /\ wq' = wq /\ frame' = frame /\ ThreadInv'
      /\ (drain'.q = e /\ drain'.err = "destroyed") \/ (drain' = drain /\ wq.list[e] = <<>>)
  <2>1. CASE WakeAll(e, TRUE, "destroyed")
    <3>1. ThreadInv'
      BY <1>1, <2>1, CallerStands, WakeAllOK DEF EventInv, Results
    <3> QED
      BY <2>1, <3>1 DEF WakeAll
  <2>2. CASE wq.count[e] = 0 /\ UNCHANGED tvars
    <3>1. wq.list[e] \in Seq(Threads) /\ Len(wq.list[e]) = 0
      BY <1>1, <2>2 DEF EventInv, ThreadInv, TypeOK, Waits, WaitQueuesMatch, WaitMatch
    <3>2. wq.list[e] = <<>>
      BY <3>1, EmptySeq
    <3> QED
      BY <2>2, <3>2, StutterOK DEF EventInv, tvars
  <2> QED
    BY <2>1, <2>2 DEF DestroyEvent
<1>3. ev' = [alive |-> [ev.alive EXCEPT ![e] = FALSE],
             signalled |-> [ev.signalled EXCEPT ![e] = FALSE]]
  BY EventTypesApart DEF DestroyEvent, EventInv, EventTypes
<1>4. EventTypes' /\ ~ev'.alive[e] /\ ~ev'.signalled[e]
  BY <1>1, <1>3, EventTypesApart DEF EventInv, EventTypes
<1>5. \A z \in Events : z # e => ev'.alive[z] = ev.alive[z] /\ ev'.signalled[z] = ev.signalled[z]
  BY <1>3, EventTypesApart DEF EventInv
<1> QED
  BY <1>1, <1>2, <1>4, <1>5, EverybodyOK

-----------------------------------------------------------------------------
(* The theorems.                                                           *)

LEMMA EventInitOK == ASSUME EventInit PROVE EventInv
<1>1. ThreadInv
  BY InitOK DEF EventInit
<1>2. /\ \A t \in Threads : frame[t].q = NoQueue
      /\ \A e \in Events : ev.alive[e] /\ ~ev.signalled[e] /\ credit[e] = 0
      /\ drain.q = NoQueue /\ EventTypes
  BY DEF EventInit, ThreadInit, NoFrame, NoDrain, EventTypes
<1>3. \A e \in Events : Pledged(e) = 0
  <2>1. \A e \in Events : Released(e) = {}
    BY <1>2, EventIsQueue DEF Released
  <2> QED
    BY <1>2, <2>1, FS_EmptySet DEF Pledged
<1>4. NobodyWaits /\ DrainsAreEnds
  BY <1>2, EventIsQueue, EventAssumption DEF NobodyWaits, DrainsAreEnds, Waiting
<1>5. CreditKept
  BY <1>2, <1>3, EventAssumption DEF CreditKept
<1> QED
  BY <1>1, <1>2, <1>4, <1>5 DEF EventInv

\* The events keep their invariant for any number of threads and events, with
\* any mixture of timeouts, signals from interrupts and destructions, up to the
\* first kernel call that a thread makes with a leaked critical section.
THEOREM EventInvariant ==
  ASSUME ExclusiveResume
  PROVE  EventSpec => []EventInv
<1>1. EventInit => EventInv
  BY EventInitOK
<1>2. EventInv /\ [EventNext]_evars => EventInv'
  <2> SUFFICES ASSUME EventInv, [EventNext]_evars PROVE EventInv'
    OBVIOUS
  <2>1. CASE Core /\ UNCHANGED evvars
    BY <2>1, CoreOK, EventCoreOK DEF EventInv
  <2>2. ASSUME NEW e \in Events, EventClient(e) PROVE EventInv'
    <3>1. CASE Caller /\ (WaitPass(e) \/ Unsignal(e) \/ DestroyEvent(e))
      BY <3>1, WaitPassOK, UnsignalOK, DestroyEventOK
    <3>2. CASE (\E timed \in WaitModes : WaitBlock(e, timed)) \/ WaitReturn(e)
      BY <3>2, WaitBlockOK, WaitReturnOK, EventAssumption
    <3>3. CASE Caller /\ \E reschedule \in BOOLEAN : Signal(e, reschedule)
      BY <3>3, CallerStands, SignalOK DEF EventInv
    <3>4. CASE DeviceHandler /\ Signal(e, FALSE)
      BY <3>4, SignalOK DEF DeviceHandler, InKernelCaller
    <3> QED
      BY <2>2, <3>1, <3>2, <3>3, <3>4 DEF EventClient
  <2>3. CASE UNCHANGED evars
    <3>1. UNCHANGED tvars /\ ev' = ev /\ credit' = credit
      BY <2>3 DEF evars, tvars
    <3>2. ThreadInv'
      BY <3>1, StutterOK DEF EventInv
    <3>3. k' = k /\ wq' = wq /\ frame' = frame /\ drain' = drain
      BY <3>1 DEF tvars
    <3>4. \A e : Released(e)' = Released(e) /\ Pledged(e)' = Pledged(e)
      BY <3>1, <3>3, SamePledged DEF Released
    <3> QED
      BY <3>1, <3>2, <3>3, <3>4
         DEF EventInv, EventTypes, NobodyWaits, Waiting, DrainsAreEnds, CreditKept
  <2> QED
    BY <2>1, <2>2, <2>3 DEF EventNext
<1> QED
  BY <1>1, <1>2, PTL DEF EventSpec

\* No wait on an auto-unsignal event returns without a signal of its own: the
\* credit is never negative, also once the event is destroyed.
THEOREM EventsTyped ==
  ASSUME ExclusiveResume
  PROVE  EventSpec => []EventTypeOK
<1>1. EventInv => EventTypeOK
  <2> SUFFICES ASSUME EventInv PROVE EventTypeOK
    OBVIOUS
  <2>1. ASSUME NEW e \in Events PROVE credit[e] \in Nat
    <3>1. credit[e] \in Int
      BY EventTypesApart DEF EventInv
    <3>2. CASE e \in AutoUnsignal
      <4>1. credit[e] >= Pledged(e)
        BY <3>2 DEF EventInv, CreditKept
      <4>2. Pledged(e) \in Nat
        BY ReleasedFinite DEF Pledged
      <4> QED
        BY <3>1, <4>1, <4>2
    <3>3. CASE e \notin AutoUnsignal
      BY <3>3 DEF EventInv, CreditKept
    <3> QED
      BY <3>2, <3>3
  <2>2. credit \in [Events -> Nat]
    BY <2>1, EventTypesApart DEF EventInv
  <2> QED
    BY <2>2 DEF EventInv, EventTypes, EventTypeOK
<1> QED
  BY <1>1, EventInvariant, PTL

\* A thread that finds the event unsignalled and blocks cannot miss a signal.
THEOREM SignalsReachAll ==
  ASSUME ExclusiveResume
  PROVE  EventSpec => []SignalledHasNoWaiters
<1>1. EventInv => SignalledHasNoWaiters
  BY EmptyNow DEF EventInv, NobodyWaits, SignalledHasNoWaiters
<1> QED
  BY <1>1, EventInvariant, PTL

\* An auto-unsignal event lets exactly one wait return for each signal, as long
\* as event_wait runs with interrupts disabled: up to the first kernel call that
\* a thread makes with a leaked critical section, after which a signal may come
\* between the test of event_wait and its block.
THEOREM SignalsReleaseOne ==
  ASSUME ExclusiveResume
  PROVE  EventSpec => []EachSignalReleasesOne
<1>1. EventInv => EachSignalReleasesOne
  BY DEF EventInv, CreditKept, EachSignalReleasesOne, Pledged, Released
<1> QED
  BY <1>1, EventInvariant, PTL

\* Once event_destroy is done no thread is left on the event, nor comes to it.
THEOREM DestroyLeavesNobody ==
  ASSUME ExclusiveResume
  PROVE  EventSpec => []DestroyedHasNoWaiters
<1>1. EventInv => DestroyedHasNoWaiters
  BY EmptyNow DEF EventInv, NobodyWaits, DestroyedHasNoWaiters
<1> QED
  BY <1>1, EventInvariant, PTL

-----------------------------------------------------------------------------
(* The events are signals.                                                  *)

\* To a client an event is these five; a step that leaves an event alone leaves
\* them alone.
SameSign(e) ==
  /\ ev'.alive[e] = ev.alive[e] /\ ev'.signalled[e] = ev.signalled[e]
  /\ Sleepers(e)' = Sleepers(e)
  /\ Passing(e)' = Passing(e) /\ Failing(e)' = Failing(e)

OthersSame(e) == \A z \in Events : z # e => SameSign(z)

\* The variables of the signals after a step that leaves all events but e alone.
LEMMA ViewsMove ==
  ASSUME NEW e \in Events, OthersSame(e)
  PROVE  /\ Alive[e] = ev.alive[e] /\ Signalled[e] = ev.signalled[e] /\ Lines[e] = Sleepers(e)
         /\ Passers[e] = Passing(e) /\ Failers[e] = Failing(e)
         /\ Alive' = [Alive EXCEPT ![e] = ev'.alive[e]]
         /\ Signalled' = [Signalled EXCEPT ![e] = ev'.signalled[e]]
         /\ Lines' = [Lines EXCEPT ![e] = Sleepers(e)']
         /\ Passers' = [Passers EXCEPT ![e] = Passing(e)']
         /\ Failers' = [Failers EXCEPT ![e] = Failing(e)']
<1>1. Alive' = [Alive EXCEPT ![e] = ev'.alive[e]]
  BY DEF Alive, OthersSame, SameSign
<1>2. Signalled' = [Signalled EXCEPT ![e] = ev'.signalled[e]]
  BY DEF Signalled, OthersSame, SameSign
<1>3. Lines' = [Lines EXCEPT ![e] = Sleepers(e)']
  BY DEF Lines, OthersSame, SameSign
<1>4. Passers' = [Passers EXCEPT ![e] = Passing(e)']
  BY DEF Passers, OthersSame, SameSign
<1>5. Failers' = [Failers EXCEPT ![e] = Failing(e)']
  BY DEF Failers, OthersSame, SameSign
<1> QED
  BY <1>1, <1>2, <1>3, <1>4, <1>5 DEF Alive, Signalled, Lines, Passers, Failers

LEMMA ViewsStay ==
  ASSUME NEW e \in Events, OthersSame(e)
  PROVE  /\ ev'.alive[e] = ev.alive[e] => Alive' = Alive
         /\ ev'.signalled[e] = ev.signalled[e] => Signalled' = Signalled
         /\ Sleepers(e)' = Sleepers(e) => Lines' = Lines
         /\ Passing(e)' = Passing(e) => Passers' = Passers
         /\ Failing(e)' = Failing(e) => Failers' = Failers
BY DEF OthersSame, SameSign, Alive, Signalled, Lines, Passers, Failers

LEMMA AllSame ==
  ASSUME \A e \in Events : SameSign(e)
  PROVE  UNCHANGED TheSignals!svars
BY DEF SameSign, TheSignals!svars, Alive, Signalled, Lines, Passers, Failers

\* Who sleeps on an event: those who are blocked on it and have no answer.
LEMMA SleepersAre ==
  ASSUME ThreadInv, NEW e \in Events
  PROVE  /\ Sleepers(e) \in Seq(Threads)
         /\ ToSet(Sleepers(e)) =
              {t \in Threads : frame[t].q = e /\ k.state[t] = "blocked" /\ drain.q # e}
<1>1. e \in Queues /\ wq.list[e] \in Seq(Threads)
  BY EventIsQueue DEF ThreadInv, TypeOK, Waits
<1>2. \A t \in Threads : Listed(t, wq.list[e]) <=> frame[t].q = e /\ k.state[t] = "blocked"
  BY <1>1 DEF ThreadInv, CallsMatch, WaitQueuesMatch, WaitMatch
<1>3. ToSet(wq.list[e]) = {t \in Threads : Listed(t, wq.list[e])}
  BY <1>1 DEF ToSet, Listed
<1>4. ToSet(<<>>) = {}
  BY DEF ToSet
<1> QED
  BY <1>1, <1>2, <1>3, <1>4 DEF Sleepers

\* A wait that has not begun or is over has no part in an event.
LEMMA NotInside ==
  ASSUME ThreadInv, NEW c \in Threads, NEW e \in Events, frame[c].q # e
  PROVE  c \notin ToSet(Sleepers(e)) \cup Passing(e) \cup Failing(e)
BY SleepersAre DEF Passing, Failing

LEMMA SignsUntouched ==
  ASSUME ThreadInv, ThreadInv', UNCHANGED <<ev, drain>>, frame' = frame, NEW e \in Events,
         wq'.list[e] = wq.list[e],
         \A u \in Threads : frame[u].q = e => Untouched(u)
  PROVE  SameSign(e)
<1>1. Sleepers(e)' = Sleepers(e)
  BY DEF Sleepers
<1>2. \A u \in Threads : frame[u].q = e => Answer(u)' = Answer(u)
  BY DEF Answer, Untouched
<1> QED
  BY <1>1, <1>2 DEF SameSign, Passing, Failing

\* The loop that wakes the waiters is not seen.
LEMMA DrainIsSame ==
  ASSUME ThreadInv, ThreadInv', UNCHANGED ev, frame' = frame,
         NEW q \in Queues, NEW t \in Threads, drain.q = q, TakenOff(q, t, 1, drain.err),
         drain' = drain \/ (drain' = NoDrain /\ wq'.list[q] = <<>>)
  PROVE  \A e \in Events : SameSign(e)
<1>1. /\ \A u \in Threads : k'.state[u] = "blocked" <=> k.state[u] = "blocked" /\ u # t
      /\ \A u \in Threads : wq'.ret[u] = IF u = t THEN drain.err ELSE wq.ret[u]
  BY RemovedIsUnblocked DEF TakenOff
<1>2. frame[t].q = q /\ k.state[t] = "blocked" /\ NoDrain.q = NoQueue
  BY DEF ThreadInv, CallsMatch, TakenOff, NoDrain
<1> TAKE e \in Events
<1>3. e \in Queues /\ e # NoQueue
  BY EventIsQueue
<1>4. Sleepers(e)' = Sleepers(e)
  <2>1. CASE e = q
    BY <1>2, <2>1 DEF Sleepers
  <2>2. CASE e # q
    BY <1>2, <1>3, <2>2 DEF Sleepers, TakenOff, Removed
  <2> QED
    BY <2>1, <2>2
<1>5. ASSUME NEW u \in Threads, frame[u].q = e PROVE Answer(u)' = Answer(u)
  <2>1. CASE e # q
    BY <1>1, <1>2, <1>3, <1>5, <2>1 DEF Answer
  <2>2. CASE e = q /\ drain' = drain
    BY <1>1, <1>2, <1>5, <2>2 DEF Answer
  <2>3. CASE e = q /\ drain' = NoDrain /\ wq'.list[q] = <<>>
    <3>1. ~Waiting(u, e)'
      BY <2>3, EmptyNext
    <3>2. k'.state[u] # "blocked"
      BY <1>5, <3>1 DEF Waiting
    <3> QED
      BY <1>1, <1>2, <1>5, <2>3, <3>2 DEF Answer
  <2> QED
    BY <2>1, <2>2, <2>3
<1> QED
  BY <1>4, <1>5 DEF SameSign, Passing, Failing

\* A timeout is one client that gives up.
LEMMA TimeoutGivesUp ==
  ASSUME ThreadInv, ThreadInv', UNCHANGED ev, frame' = frame,
         NEW q \in Queues, NEW t \in Threads, NEW i, drain.q = NoQueue, drain' = drain,
         TakenOff(q, t, i, "timeout")
  PROVE  (\A e \in Events : SameSign(e)) \/ TheSignals!Next
<1>1. /\ \A u \in Threads : k'.state[u] = "blocked" <=> k.state[u] = "blocked" /\ u # t
      /\ \A u \in Threads : wq'.ret[u] = IF u = t THEN "timeout" ELSE wq.ret[u]
  BY RemovedIsUnblocked DEF TakenOff
<1>2. frame[t].q = q /\ k.state[t] = "blocked"
  BY DEF ThreadInv, CallsMatch, TakenOff
<1>3. \A e \in Events : e \in Queues /\ e # NoQueue
  BY EventIsQueue
<1>4. ASSUME NEW e \in Events, e # q PROVE SameSign(e)
  <2>1. wq'.list[e] = wq.list[e]
    BY <1>3, <1>4 DEF TakenOff, Removed
  <2>2. \A u \in Threads : frame[u].q = e => Untouched(u)
    BY <1>1, <1>2, <1>4 DEF Untouched
  <2> QED
    BY <2>1, <2>2, SignsUntouched
<1>5. CASE q \notin Events
  BY <1>4, <1>5
<1>6. CASE q \in Events
  <2>1. OthersSame(q)
    BY <1>4 DEF OthersSame
  <2>2. /\ Sleepers(q) = wq.list[q] /\ Sleepers(q)' = RemoveAt(wq.list[q], i)
        /\ i \in DOMAIN wq.list[q] /\ wq.list[q][i] = t
    BY <1>3, <1>6 DEF Sleepers, TakenOff
  <2>3. \A u \in Threads : frame[u].q = q =>
          IF u = t THEN Answer(u) = "none" /\ Answer(u)' = "timeout" ELSE Answer(u)' = Answer(u)
    BY <1>1, <1>2, <1>3, <1>6 DEF Answer
  <2>4. Passing(q)' = Passing(q)
    BY <2>3 DEF Passing
  <2>5. Failing(q)' = Failing(q) \cup {t}
    BY <1>2, <2>3 DEF Failing
  <2>6. /\ Lines' = [Lines EXCEPT ![q] = RemoveAt(Lines[q], i)]
        /\ Failers' = [Failers EXCEPT ![q] = Failers[q] \cup {Lines[q][i]}]
        /\ UNCHANGED <<Alive, Signalled, Passers>> /\ i \in DOMAIN Lines[q]
    BY <1>6, <2>1, <2>2, <2>4, <2>5, ViewsMove, ViewsStay
  <2>7. TheSignals!GiveUp(q, i)
    BY <2>6 DEF TheSignals!GiveUp, RemoveAt, TheSignals!RemoveAt
  <2> QED
    BY <1>6, <2>6, <2>7 DEF TheSignals!Next
<1> QED
  BY <1>5, <1>6

\* Operations that let no thread run change nothing but the event itself.
LEMMA NobodyMoves ==
  ASSUME NEW e \in Events, UNCHANGED tvars,
         \A z \in Events : z # e => ev'.alive[z] = ev.alive[z] /\ ev'.signalled[z] = ev.signalled[z]
  PROVE  /\ OthersSame(e)
         /\ Sleepers(e)' = Sleepers(e) /\ Passing(e)' = Passing(e) /\ Failing(e)' = Failing(e)
<1>1. k' = k /\ wq' = wq /\ frame' = frame /\ drain' = drain
  BY DEF tvars
<1>2. \A z \in Events : /\ Sleepers(z)' = Sleepers(z)
                        /\ Passing(z)' = Passing(z) /\ Failing(z)' = Failing(z)
  BY <1>1 DEF Sleepers, Passing, Failing, Answer
<1> QED
  BY <1>2 DEF OthersSame, SameSign

LEMMA PassMoves ==
  ASSUME EventInv, NEW e \in Events, WaitPass(e) \/ Unsignal(e)
  PROVE  TheSignals!Next
<1>1. ev.alive[e] /\ ev.signalled[e] = TRUE /\ UNCHANGED tvars
  BY EventTypesApart DEF WaitPass, Unsignal, EventInv
<1>2. PICK b \in BOOLEAN : /\ ev' = [ev EXCEPT !.signalled[e] = b]
                           /\ (b <=> e \notin AutoUnsignal) \/ ~b
  BY DEF WaitPass, Unsignal
<1>3. /\ ev'.alive = ev.alive /\ ev'.signalled = [ev.signalled EXCEPT ![e] = b]
      /\ ev.signalled \in [Events -> BOOLEAN]
  BY <1>2, EventTypesApart DEF EventInv, EventTypes
<1>4. /\ OthersSame(e)
      /\ Sleepers(e)' = Sleepers(e) /\ Passing(e)' = Passing(e) /\ Failing(e)' = Failing(e)
  BY <1>1, <1>3, NobodyMoves
<1>5. /\ Alive[e] /\ Signalled[e] /\ UNCHANGED <<Alive, Lines, Passers, Failers>>
      /\ Signalled' = [Signalled EXCEPT ![e] = b]
  BY <1>1, <1>3, <1>4, ViewsMove, ViewsStay
<1>6. CASE b <=> e \notin AutoUnsignal
  <2>1. TheSignals!Pass(e)
    BY <1>5, <1>6 DEF TheSignals!Pass
  <2> QED
    BY <2>1 DEF TheSignals!Next
<1>7. CASE b = FALSE
  <2>1. TheSignals!TakeBack(e)
    BY <1>5, <1>7 DEF TheSignals!TakeBack
  <2> QED
    BY <2>1 DEF TheSignals!Next
<1> QED
  BY <1>2, <1>6, <1>7

LEMMA BlockJoins ==
  ASSUME EventInv, NEW e \in Events, NEW timed \in BOOLEAN, WaitBlock(e, timed)
  PROVE  TheSignals!Next
<1> USE DEF EventInv
<1>1. PICK c \in Threads : c = k.cur
  BY Types DEF ThreadInv
<1>2. /\ ev.alive[e] /\ ~ev.signalled[e] /\ Block(e, timed) /\ e \in Queues
      /\ frame[c].q = NoQueue /\ k.state[c] = "running" /\ drain.q = NoQueue /\ c # Idle
      /\ drain' = drain /\ ev' = ev
  BY <1>1, Types, EventIsQueue
     DEF WaitBlock, Block, Caller, InThread, ThreadInv, CallsMatch, CpuAccounted, evvars
<1>3. /\ frame' = [frame EXCEPT ![c] = [q |-> e, timed |-> timed]]
      /\ wq'.ret = [wq.ret EXCEPT ![c] = "ok"]
      /\ wq'.list = [wq.list EXCEPT ![e] = Append(wq.list[e], c)]
  BY <1>1, <1>2 DEF Block, PushWaiter, ThreadInv, TypeOK, Waits
<1>4. PICK new \in Threads :
        /\ new # c /\ k.state[new] = "ready"
        /\ \A t \in Threads : k'.state[t] = IF t = new THEN "running"
                                           ELSE IF t = c THEN "blocked" ELSE k.state[t]
  BY <1>1, <1>2, LeavesCpu DEF Block
<1>5. /\ \A t \in Threads : frame'[t].q = IF t = c THEN e ELSE frame[t].q
      /\ \A t \in Threads : wq'.ret[t] = IF t = c THEN "ok" ELSE wq.ret[t]
      /\ \A t \in Threads : k'.state[t] = "blocked" <=> k.state[t] = "blocked" \/ t = c
      /\ \A z \in Queues : wq'.list[z] = IF z = e THEN Append(wq.list[e], c) ELSE wq.list[z]
  <2>1. /\ wq.list \in [Queues -> Seq(Threads)] /\ wq.ret \in [Threads -> Results]
        /\ frame \in [Threads -> [q : Queues \cup {NoQueue}, timed : BOOLEAN]]
    BY DEF ThreadInv, TypeOK, Waits
  <2>2. \A t \in Threads : k'.state[t] = "blocked" <=> k.state[t] = "blocked" \/ t = c
    BY <1>2, <1>4
  <2>3. \A z \in Queues : wq'.list[z] = IF z = e THEN Append(wq.list[e], c) ELSE wq.list[z]
    BY <1>2, <1>3, <2>1
  <2>4. QED
    BY <1>3, <2>1, <2>2, <2>3
<1>6. \A z \in Events : z \in Queues /\ z # NoQueue
  BY EventIsQueue
<1>7. \A t \in Threads : t # c /\ frame[t].q # NoQueue => Answer(t)' = Answer(t)
  BY <1>2, <1>5 DEF Answer
<1>8. Answer(c)' = "none"
  BY <1>2, <1>5, <1>6 DEF Answer
<1>9. \A z \in Events : Passing(z)' = Passing(z) /\ Failing(z)' = Failing(z)
  BY <1>2, <1>5, <1>6, <1>7, <1>8 DEF Passing, Failing
<1>10. \A z \in Events : Sleepers(z)' = IF z = e THEN Append(Sleepers(e), c) ELSE Sleepers(z)
  BY <1>2, <1>5, <1>6 DEF Sleepers
<1>11. OthersSame(e)
  BY <1>2, <1>9, <1>10 DEF OthersSame, SameSign
<1>12. c \notin ToSet(Sleepers(e)) \cup Passing(e) \cup Failing(e)
  BY <1>2, <1>6, NotInside
<1>13. /\ Alive[e] /\ ~Signalled[e] /\ c \notin ToSet(Lines[e]) \cup Passers[e] \cup Failers[e]
       /\ Lines' = [Lines EXCEPT ![e] = Append(Lines[e], c)]
       /\ UNCHANGED <<Alive, Signalled, Passers, Failers>>
  BY <1>2, <1>9, <1>10, <1>11, <1>12, ViewsMove, ViewsStay
<1>14. TheSignals!Wait(e, c)
  BY <1>13 DEF TheSignals!Wait, ToSet, TheSignals!ToSet
<1> QED
  BY <1>14 DEF TheSignals!Next

LEMMA ReturnLeaves ==
  ASSUME EventInv, NEW e \in Events, WaitReturn(e)
  PROVE  TheSignals!Next
<1> USE DEF EventInv
<1>1. PICK c \in Threads : c = k.cur
  BY Types DEF ThreadInv
<1>2. /\ frame[c].q = e /\ k.state[c] = "running" /\ drain.q = NoQueue
      /\ UNCHANGED <<k, wq, drain, ev>> /\ frame' = [frame EXCEPT ![c] = NoFrame]
  BY <1>1 DEF WaitReturn, BlockReturn, ThreadInv, CpuAccounted
<1>3. \A t \in Threads : frame'[t].q = IF t = c THEN NoQueue ELSE frame[t].q
  BY <1>2, Types DEF ThreadInv, NoFrame
<1>4. \A z \in Events : z # NoQueue
  BY EventIsQueue
<1>5. Answer(c) = wq.ret[c] /\ wq.ret[c] # "none" /\ \A t \in Threads : t # c => Answer(t)' = Answer(t)
  <2>1. wq.ret[c] \in Results
    BY Types DEF ThreadInv
  <2> QED
    BY <1>2, <1>3, <2>1 DEF Answer, Results
<1>6. \A z \in Events : /\ Sleepers(z)' = Sleepers(z)
                        /\ Passing(z)' = Passing(z) \ {c} /\ Failing(z)' = Failing(z) \ {c}
  BY <1>2, <1>3, <1>4, <1>5 DEF Sleepers, Passing, Failing
<1>7. \A z \in Events : z # e => c \notin Passing(z) /\ c \notin Failing(z)
  BY <1>2 DEF Passing, Failing
<1>8. OthersSame(e)
  <2> SUFFICES ASSUME NEW z \in Events, z # e PROVE SameSign(z)
    BY DEF OthersSame
  <2>1. Passing(z)' = Passing(z) /\ Failing(z)' = Failing(z)
    BY <1>6, <1>7
  <2> QED
    BY <1>2, <1>6, <2>1 DEF SameSign
<1>9. /\ UNCHANGED <<Alive, Signalled, Lines>> /\ Passers[e] = Passing(e) /\ Failers[e] = Failing(e)
      /\ Passers' = [Passers EXCEPT ![e] = Passing(e) \ {c}]
      /\ Failers' = [Failers EXCEPT ![e] = Failing(e) \ {c}]
      /\ Passing(e)' = Passing(e) => Passers' = Passers
      /\ Failing(e)' = Failing(e) => Failers' = Failers
  BY <1>2, <1>6, <1>8, ViewsMove, ViewsStay
<1>10. CASE wq.ret[c] = "ok"
  <2>1. c \in Passing(e) /\ c \notin Failing(e)
    BY <1>2, <1>5, <1>10 DEF Passing, Failing
  <2>2. Failing(e)' = Failing(e)
    BY <1>6, <2>1
  <2>3. TheSignals!Return(e, c)
    BY <1>9, <2>1, <2>2 DEF TheSignals!Return
  <2> QED
    BY <2>3 DEF TheSignals!Next
<1>11. CASE wq.ret[c] # "ok"
  <2>1. c \notin Passing(e) /\ c \in Failing(e)
    BY <1>2, <1>5, <1>11 DEF Passing, Failing
  <2>2. Passing(e)' = Passing(e)
    BY <1>6, <2>1
  <2>3. TheSignals!Return(e, c)
    BY <1>9, <2>1, <2>2 DEF TheSignals!Return
  <2> QED
    BY <2>3 DEF TheSignals!Next
<1> QED
  BY <1>10, <1>11

\* event_signal of an automatic event that somebody waits for.
LEMMA WakeOneFrees ==
  ASSUME EventInv, EventInv', NEW e \in AutoUnsignal, NEW reschedule \in BOOLEAN,
         Signal(e, reschedule), WakeOne(e, reschedule, "ok"), InKernelCaller
  PROVE  TheSignals!Next
<1> USE DEF EventInv
<1> DEFINE h == Head(wq.list[e])
           x == k.state
<1>1. /\ e \in Events /\ e \in Queues /\ e # NoQueue /\ ev.alive[e] /\ ~ev.signalled[e]
      /\ wq.list[e] # <<>> /\ wq' = PopWaiter(wq, e, "ok") /\ "ok" \in Results
      /\ wq \in Waits /\ WaitMatch(x, wq) /\ frame' = frame /\ drain' = drain
      /\ drain.q = NoQueue
  BY EventIsQueue, EventAssumption
     DEF Signal, WakeOne, Results, ThreadInv, TypeOK, WaitQueuesMatch, InKernelCaller
<1>2. h \in Threads /\ x[h] = "blocked" /\ wq.blockq[h] = e /\ frame[h].q = e
  BY <1>1, HeadBlocked
<1> HIDE DEF x
<1>3. Removed(wq', wq, e, h, "ok") /\ wq'.list[e] = Tail(wq.list[e])
  BY <1>1, PopOK
<1> HIDE DEF h
<1>4. /\ \A u \in Threads : k'.state[u] = "blocked" <=> k.state[u] = "blocked" /\ u # h
      /\ \A u \in Threads : wq'.ret[u] = IF u = h THEN "ok" ELSE wq.ret[u]
  BY <1>1, <1>2, <1>3, RemovedIsUnblocked DEF x
<1>5. ev'.alive = ev.alive /\ ev'.signalled = ev.signalled
  <2>1. ev' = [ev EXCEPT !.signalled[e] = FALSE] /\ ev.signalled[e] = FALSE
    BY <1>1, EventTypesApart DEF Signal
  <2>2. ev'.alive = ev.alive /\ ev'.signalled = [ev.signalled EXCEPT ![e] = FALSE]
    BY <2>1, EventTypesApart DEF EventTypes
  <2> QED
    BY <1>1, <2>1, <2>2, EventTypesApart
<1>6. \A z \in Events : z \in Queues /\ z # NoQueue
  BY EventIsQueue
<1>7. \A u \in Threads : frame[u].q # NoQueue =>
        IF u = h THEN Answer(u) = "none" /\ Answer(u)' = "ok" ELSE Answer(u)' = Answer(u)
  BY <1>1, <1>2, <1>4 DEF Answer, x
<1>8. /\ \A z \in Events : Failing(z)' = Failing(z)
      /\ \A z \in Events : z # e => Passing(z)' = Passing(z)
      /\ Passing(e)' = Passing(e) \cup {h}
  <2>1. ASSUME NEW z \in Events PROVE Failing(z)' = Failing(z)
    BY <1>1, <1>6, <1>7 DEF Failing
  <2>2. ASSUME NEW z \in Events, z # e PROVE Passing(z)' = Passing(z)
    BY <1>1, <1>2, <1>6, <1>7, <2>2 DEF Passing
  <2>3. Passing(e)' = Passing(e) \cup {h}
    BY <1>1, <1>2, <1>7 DEF Passing
  <2> QED
    BY <2>1, <2>2, <2>3
<1>9. \A z \in Events : z # e => Sleepers(z)' = Sleepers(z)
  BY <1>1, <1>3, <1>6 DEF Sleepers, Removed
<1>10. Sleepers(e) = wq.list[e] /\ Sleepers(e)' = Tail(wq.list[e])
  BY <1>1, <1>3 DEF Sleepers
<1>11. OthersSame(e)
  BY <1>5, <1>8, <1>9 DEF OthersSame, SameSign
<1>12. /\ Alive[e] /\ ~Signalled[e] /\ Lines[e] = wq.list[e] /\ Lines[e] # <<>>
       /\ Lines' = [Lines EXCEPT ![e] = Tail(Lines[e])]
       /\ Passers' = [Passers EXCEPT ![e] = Passers[e] \cup {h}]
       /\ UNCHANGED <<Alive, Signalled, Failers>>
  BY <1>1, <1>5, <1>8, <1>10, <1>11, ViewsMove, ViewsStay
<1>13. TheSignals!SignalOne(e)
  BY <1>12 DEF TheSignals!SignalOne, h
<1> QED
  BY <1>1, <1>13 DEF TheSignals!Next

\* event_signal of a manual event and event_destroy: all who wait have their
\* answer at once, if there is anybody.
LEMMA EverybodyAnswered ==
  ASSUME EventInv, ThreadInv', NEW e \in Events, wq' = wq, frame' = frame, drain.q = NoQueue,
         NEW err \in {"ok", "destroyed"},
         drain' = [q |-> e, err |-> err] \/ (drain' = drain /\ wq.list[e] = <<>>),
         \A z \in Events : z # e => ev'.alive[z] = ev.alive[z] /\ ev'.signalled[z] = ev.signalled[z]
  PROVE  /\ OthersSame(e) /\ Sleepers(e)' = <<>>
         /\ err = "ok" => /\ Passing(e)' = Passing(e) \cup ToSet(Sleepers(e))
                          /\ Failing(e)' = Failing(e)
         /\ err = "destroyed" => /\ Failing(e)' = Failing(e) \cup ToSet(Sleepers(e))
                                 /\ Passing(e)' = Passing(e)
<1> USE DEF EventInv
<1>1. \A u \in Threads : k'.state[u] = "blocked" <=> k.state[u] = "blocked"
  BY SameListsSameBlocked
<1>2. \A z \in Events : z \in Queues /\ z # NoQueue
  BY EventIsQueue
<1>3. ToSet(Sleepers(e)) = {t \in Threads : Waiting(t, e)}
  BY <1>2, SleepersAre DEF Waiting
<1>4. Sleepers(e)' = <<>>
  BY <1>2 DEF Sleepers
<1>5. \A u \in Threads : frame[u].q = e =>
        IF Waiting(u, e) THEN Answer(u) = "none" /\ Answer(u)' = err ELSE Answer(u)' = Answer(u)
  <2>1. CASE drain' = [q |-> e, err |-> err]
    BY <1>1, <1>2, <2>1 DEF Answer, Waiting
  <2>2. CASE drain' = drain /\ wq.list[e] = <<>>
    <3>1. \A u \in Threads : ~Waiting(u, e)
      BY <2>2, EmptyNow
    <3> QED
      BY <1>1, <2>2, <3>1 DEF Answer, Waiting
  <2> QED
    BY <2>1, <2>2
<1>6. \A z \in Events, u \in Threads : z # e /\ frame[u].q = z => Answer(u)' = Answer(u)
  BY <1>1, <1>2 DEF Answer
<1>7. OthersSame(e)
  <2> SUFFICES ASSUME NEW z \in Events, z # e PROVE SameSign(z)
    BY DEF OthersSame
  <2>1. Sleepers(z)' = Sleepers(z)
    BY <1>2 DEF Sleepers
  <2>2. Passing(z)' = Passing(z) /\ Failing(z)' = Failing(z)
    BY <1>6 DEF Passing, Failing
  <2> QED
    BY <2>1, <2>2 DEF SameSign
<1>8. ASSUME err = "ok"
      PROVE  /\ Passing(e)' = Passing(e) \cup {t \in Threads : Waiting(t, e)}
             /\ Failing(e)' = Failing(e)
  BY <1>5, <1>8 DEF Passing, Failing, Waiting
<1>9. ASSUME err = "destroyed"
      PROVE  /\ Failing(e)' = Failing(e) \cup {t \in Threads : Waiting(t, e)}
             /\ Passing(e)' = Passing(e)
  BY <1>5, <1>9 DEF Passing, Failing, Waiting
<1> QED
  BY <1>3, <1>4, <1>7, <1>8, <1>9

LEMMA SignalMoves ==
  ASSUME EventInv, EventInv', NEW e \in Events, NEW reschedule \in BOOLEAN,
         Signal(e, reschedule), InKernelCaller
  PROVE  TheSignals!Next
<1>1. /\ ev.alive[e] /\ ~ev.signalled[e] /\ drain.q = NoQueue
      /\ ev' = [ev EXCEPT !.signalled[e] = ~(e \in AutoUnsignal /\ wq.list[e] # <<>>)]
  BY DEF Signal, InKernelCaller
<1>2. /\ ev'.alive = ev.alive
      /\ ev'.signalled = [ev.signalled EXCEPT ![e] = ~(e \in AutoUnsignal /\ wq.list[e] # <<>>)]
  BY <1>1, EventTypesApart DEF EventInv
<1>3. \A z \in Events : z # e => ev'.alive[z] = ev.alive[z] /\ ev'.signalled[z] = ev.signalled[z]
  BY <1>2, EventTypesApart DEF EventInv
<1>4. CASE e \in AutoUnsignal /\ WakeOne(e, reschedule, "ok")
  BY <1>4, WakeOneFrees
<1>5. CASE e \notin AutoUnsignal
           /\ (WakeAll(e, reschedule, "ok") \/ (wq.list[e] = <<>> /\ UNCHANGED tvars))
  <2>1. /\ wq' = wq /\ frame' = frame /\ ThreadInv'
        /\ drain' = [q |-> e, err |-> "ok"] \/ (drain' = drain /\ wq.list[e] = <<>>)
    BY <1>5 DEF WakeAll, tvars, EventInv
  <2>2. /\ OthersSame(e) /\ Sleepers(e)' = <<>>
        /\ Passing(e)' = Passing(e) \cup ToSet(Sleepers(e)) /\ Failing(e)' = Failing(e)
    BY <1>1, <1>3, <2>1, EverybodyAnswered
  <2>3. /\ Alive[e] /\ ~Signalled[e] /\ UNCHANGED <<Alive, Failers>>
        /\ Signalled' = [Signalled EXCEPT ![e] = TRUE] /\ Lines' = [Lines EXCEPT ![e] = <<>>]
        /\ Passers' = [Passers EXCEPT ![e] = Passers[e] \cup ToSet(Lines[e])]
    BY <1>1, <1>2, <1>5, <2>2, ViewsMove, ViewsStay, EventTypesApart DEF EventInv
  <2>4. TheSignals!SignalAll(e)
    BY <1>5, <2>3 DEF TheSignals!SignalAll, ToSet, TheSignals!ToSet
  <2> QED
    BY <2>4 DEF TheSignals!Next
<1>6. CASE e \in AutoUnsignal /\ wq.list[e] = <<>> /\ UNCHANGED tvars
  <2>1. /\ OthersSame(e)
        /\ Sleepers(e)' = Sleepers(e) /\ Passing(e)' = Passing(e) /\ Failing(e)' = Failing(e)
    BY <1>3, <1>6, NobodyMoves
  <2>2. Sleepers(e) = <<>>
    BY <1>6 DEF Sleepers
  <2>3. /\ Alive[e] /\ ~Signalled[e] /\ Lines[e] = <<>> /\ UNCHANGED <<Alive, Lines, Passers, Failers>>
        /\ Signalled' = [Signalled EXCEPT ![e] = TRUE]
    BY <1>1, <1>2, <1>6, <2>1, <2>2, ViewsMove, ViewsStay, EventTypesApart DEF EventInv
  <2>4. TheSignals!SignalOne(e)
    BY <1>6, <2>3 DEF TheSignals!SignalOne
  <2> QED
    BY <2>4 DEF TheSignals!Next
<1> QED
  BY <1>4, <1>5, <1>6 DEF Signal

LEMMA DestroyCloses ==
  ASSUME EventInv, EventInv', NEW e \in Events, DestroyEvent(e), Caller
  PROVE  TheSignals!Next
<1>1. ev.alive[e] /\ drain.q = NoQueue /\ e \in Queues
  BY CallerStands, EventIsQueue DEF DestroyEvent, EventInv
<1>2. /\ wq' = wq /\ frame' = frame /\ ThreadInv'
      /\ drain' = [q |-> e, err |-> "destroyed"] \/ (drain' = drain /\ wq.list[e] = <<>>)
  <2>1. CASE WakeAll(e, TRUE, "destroyed")
    BY <2>1 DEF WakeAll, EventInv
  <2>2. CASE wq.count[e] = 0 /\ UNCHANGED tvars
    <3>1. wq.list[e] \in Seq(Threads) /\ Len(wq.list[e]) = 0
      BY <1>1, <2>2 DEF EventInv, ThreadInv, TypeOK, Waits, WaitQueuesMatch, WaitMatch
    <3>2. wq.list[e] = <<>>
      BY <3>1, EmptySeq
    <3> QED
      BY <2>2, <3>2 DEF tvars, EventInv
  <2> QED
    BY <2>1, <2>2 DEF DestroyEvent
<1>3. /\ ev'.alive = [ev.alive EXCEPT ![e] = FALSE]
      /\ ev'.signalled = [ev.signalled EXCEPT ![e] = FALSE]
  BY EventTypesApart DEF DestroyEvent, EventInv
<1>4. \A z \in Events : z # e => ev'.alive[z] = ev.alive[z] /\ ev'.signalled[z] = ev.signalled[z]
  BY <1>3, EventTypesApart DEF EventInv
<1>5. /\ OthersSame(e) /\ Sleepers(e)' = <<>>
      /\ Failing(e)' = Failing(e) \cup ToSet(Sleepers(e)) /\ Passing(e)' = Passing(e)
  BY <1>1, <1>2, <1>4, EverybodyAnswered
<1>6. /\ Alive[e] /\ UNCHANGED Passers /\ Alive' = [Alive EXCEPT ![e] = FALSE]
      /\ Signalled' = [Signalled EXCEPT ![e] = FALSE] /\ Lines' = [Lines EXCEPT ![e] = <<>>]
      /\ Failers' = [Failers EXCEPT ![e] = Failers[e] \cup ToSet(Lines[e])]
  <2>1. ev'.alive[e] = FALSE /\ ev'.signalled[e] = FALSE
    BY <1>3, EventTypesApart DEF EventInv
  <2>2. UNCHANGED Passers
    BY <1>5, ViewsStay
  <2> QED
    BY <1>1, <1>5, <2>1, <2>2, ViewsMove
<1>7. TheSignals!Close(e)
  BY <1>6 DEF TheSignals!Close, ToSet, TheSignals!ToSet
<1> QED
  BY <1>7 DEF TheSignals!Next

LEMMA CoreMoves ==
  ASSUME EventInv, EventInv', Core, UNCHANGED evvars
  PROVE  (\A e \in Events : SameSign(e)) \/ TheSignals!Next
<1>1. frame' = frame /\ ev' = ev /\ ThreadInv /\ ThreadInv'
  BY CoreWaiters DEF EventInv, evvars
<1>2. CASE /\ wq'.list = wq.list /\ drain' = drain
           /\ \A u \in Threads : frame[u].q # NoQueue => Untouched(u)
  <2>1. ASSUME NEW e \in Events PROVE SameSign(e)
    <3>1. wq'.list[e] = wq.list[e] /\ \A u \in Threads : frame[u].q = e => Untouched(u)
      BY <1>2, EventIsQueue
    <3> QED
      BY <1>1, <1>2, <3>1, SignsUntouched
  <2> QED
    BY <2>1
<1>3. CASE \E q \in Queues, t \in Threads :
             /\ drain.q = q /\ TakenOff(q, t, 1, drain.err)
             /\ drain' = drain \/ (drain' = NoDrain /\ wq'.list[q] = <<>>)
  BY <1>1, <1>3, DrainIsSame
<1>4. CASE \E q \in Queues, t \in Threads, i \in Nat :
             /\ drain.q = NoQueue /\ drain' = drain /\ TakenOff(q, t, i, "timeout")
  BY <1>1, <1>4, TimeoutGivesUp
<1> QED
  BY <1>1, <1>2, <1>3, <1>4, CoreTakesOff

LEMMA SignalsInit ==
  ASSUME EventInit
  PROVE  TheSignals!Init
<1>1. /\ \A t \in Threads : frame[t].q = NoQueue
      /\ \A e \in Events : /\ ev.alive[e] = TRUE /\ ev.signalled[e] = FALSE
                           /\ wq.list[e] = <<>> /\ e # NoQueue
  BY EventIsQueue DEF EventInit, ThreadInit, NoFrame
<1>2. \A e \in Events : Sleepers(e) = <<>> /\ Passing(e) = {} /\ Failing(e) = {}
  BY <1>1 DEF Sleepers, Passing, Failing
<1> QED
  BY <1>1, <1>2 DEF TheSignals!Init, Alive, Signalled, Lines, Passers, Failers

\* Every step of the events is a step of the signals or none: that event_signal
\* and event_destroy wake the waiters one after another, and that timeouts race
\* with them, no client can see.
THEOREM EventIsSignals ==
  ASSUME ExclusiveResume
  PROVE  EventSpec => ImplementsSignals
<1>1. EventInit => TheSignals!Init
  BY SignalsInit
<1>2. EventInv /\ EventInv' /\ [EventNext]_evars => [TheSignals!Next]_(TheSignals!svars)
  <2> SUFFICES ASSUME EventInv, EventInv', [EventNext]_evars
               PROVE  TheSignals!Next \/ UNCHANGED TheSignals!svars
    OBVIOUS
  <2>1. CASE Core /\ UNCHANGED evvars
    BY <2>1, CoreMoves, AllSame
  <2>2. ASSUME NEW e \in Events, EventClient(e) PROVE TheSignals!Next
    <3>1. CASE Caller /\ (WaitPass(e) \/ Unsignal(e) \/ DestroyEvent(e))
      BY <3>1, PassMoves, DestroyCloses
    <3>2. CASE (\E timed \in WaitModes : WaitBlock(e, timed)) \/ WaitReturn(e)
      BY <3>2, BlockJoins, ReturnLeaves, EventAssumption
    <3>3. CASE Caller /\ \E reschedule \in BOOLEAN : Signal(e, reschedule)
      BY <3>3, CallerStands, SignalMoves DEF EventInv
    <3>4. CASE DeviceHandler /\ Signal(e, FALSE)
      BY <3>4, SignalMoves DEF DeviceHandler, InKernelCaller
    <3> QED
      BY <2>2, <3>1, <3>2, <3>3, <3>4 DEF EventClient
  <2>3. CASE UNCHANGED evars
    <3>1. k' = k /\ wq' = wq /\ frame' = frame /\ drain' = drain /\ ev' = ev
      BY <2>3 DEF evars
    <3>2. \A e \in Events : SameSign(e)
      BY <3>1 DEF SameSign, Sleepers, Passing, Failing, Answer
    <3> QED
      BY <3>2, AllSame
  <2> QED
    BY <2>1, <2>2, <2>3 DEF EventNext
<1>3. EventSpec => []EventInv
  BY EventInvariant
<1> QED
  BY <1>1, <1>2, <1>3, PTL DEF EventSpec, ImplementsSignals, TheSignals!Spec

-----------------------------------------------------------------------------
(* Events run on the scheduler: what it promises, it promises their callers. *)

LEMMA EventStepsRunThreads ==
  ASSUME [EventNext]_evars
  PROVE  [ThreadNext]_tvars
<1>1. CASE Core /\ UNCHANGED evvars
  BY <1>1 DEF ThreadNext
<1>2. ASSUME NEW e \in Events, EventClient(e) PROVE WaitClient \/ UNCHANGED tvars
  <2>1. e \in Queues
    BY EventAssumption
  <2>2. CASE WaitPass(e) \/ Unsignal(e)
    BY <2>2 DEF WaitPass, Unsignal
  <2>3. CASE \E timed \in WaitModes : WaitBlock(e, timed)
    BY <2>1, <2>3, EventAssumption DEF WaitBlock, WaitClient
  <2>4. CASE WaitReturn(e)
    BY <2>1, <2>4 DEF WaitReturn, WaitClient
  <2>5. CASE Caller /\ \E reschedule \in BOOLEAN : Signal(e, reschedule)
    BY <2>1, <2>5 DEF Signal, WaitClient
  <2>6. CASE DeviceHandler /\ Signal(e, FALSE)
    BY <2>1, <2>6 DEF DeviceHandler, Signal, WaitClient
  <2>7. CASE Caller /\ DestroyEvent(e)
    BY <2>1, <2>7 DEF DestroyEvent, WaitClient
  <2> QED
    BY <1>2, <2>2, <2>3, <2>4, <2>5, <2>6, <2>7 DEF EventClient
<1>3. CASE UNCHANGED evars
  BY <1>3 DEF evars, tvars
<1> QED
  BY <1>1, <1>2, <1>3 DEF EventNext, ThreadNext

\* Events, with their timeouts, signals from interrupts and event_destroy, are
\* one more client of the wait queues.
THEOREM EventRunsThreads == EventSpec => ThreadSpec
<1>1. EventInit => ThreadInit
  BY DEF EventInit
<1>2. [EventNext]_evars => [ThreadNext]_tvars
  BY EventStepsRunThreads
<1> QED
  BY <1>1, <1>2, PTL DEF EventSpec, ThreadSpec

\* Also under events: the result of a wait is that of what woke it, and every
\* tick leaves the CPU to a thread that none outranks.  With waits that time
\* out late this is said up to the first kernel call that a thread makes with
\* the critical section which such a timeout leaks (EnterUnmasked).
THEOREM EventKeepsScheduler ==
  ASSUME ExclusiveResume
  PROVE  EventSpec => WokenOnce /\ TickRunsHighest
BY EventRunsThreads, WakeupsStand, TicksRunHighest
=============================================================================
