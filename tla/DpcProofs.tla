------------------------------- MODULE DpcProofs -------------------------------
(***************************************************************************)
(* A dead thread is freed exactly once, when nothing in the kernel refers  *)
(* to it any more, and the dpc thread never sleeps on a call, for any      *)
(* number of threads and calls.  The scheduler's invariant is carried over *)
(* the two steps that ThreadProofs does not know, the death of a thread    *)
(* and its freeing; all others neither kill nor free.                      *)
(***************************************************************************)
EXTENDS Dpc, ThreadProofs

\* Nobody dies on the way from s to r, and nobody is freed.
Spares(s, r) ==
  \A t \in Threads : /\ r.state[t] = "death" <=> s.state[t] = "death"
                     /\ r.state[t] = "none" => s.state[t] = "none"

EventOK ==
  /\ ev \in [alive : [Events -> BOOLEAN], signalled : [Events -> BOOLEAN]]

\* The dpc thread alone waits, on its event.
OneWaiter ==
  /\ \A t \in Threads : frame[t].q # NoQueue => t = DpcThread /\ frame[t].q = DpcEvent
  /\ \A t \in Threads : wq.blockq[t] # NoQueue => t = DpcThread
  /\ drain.q \in {NoQueue, DpcEvent}

\* A call in the list, or the loop that wakes the dpc thread, has signalled.
Announced ==
  /\ jobs # <<>> => ev.signalled[DpcEvent]
  /\ ev.signalled[DpcEvent] /\ drain.q = NoQueue => k.state[DpcThread] # "blocked"

\* The cleanup of a dead thread is in the list or in hand, once.
OnceEach ==
  /\ \A t \in Threads : k.state[t] = "death" <=> Pending(t)
  /\ \A i, j \in DOMAIN jobs : jobs[i] = jobs[j] => i = j \/ jobs[i] = Callback
  /\ \A t \in Threads : loop.pc = "run" /\ loop.job = t => ~Listed(t, jobs)

DpcStays == k.state[DpcThread] \notin {"none", "death"}

DpcInv ==
  ThreadInv /\ DpcTypeOK /\ EventOK /\ OneWaiter /\ Announced /\ OnceEach /\ DpcStays

-----------------------------------------------------------------------------
(* Steps that kill and free nobody.                                        *)

LEMMA LivesSpares ==
  ASSUME NEW s, NEW r, Lives(s, r)
  PROVE  Spares(s, r)
BY DEF Lives, Spares

\* What the scheduler's own steps do to life and death, and to the recorded queues.
LEMMA CoreSpares ==
  ASSUME ThreadInv, Core
  PROVE  /\ Spares(k, k')
         /\ \A t \in Threads : wq'.blockq[t] \in {wq.blockq[t], NoQueue}
<1>1. ASSUME NEW t \in Threads, Create(t) PROVE Spares(k, k')
  <2>1. k'.state = [k.state EXCEPT ![t] = "suspended"] /\ k.state[t] = "none"
        /\ k.state \in [Threads -> States]
    BY <1>1, Types DEF Create, ThreadInv, TypeOK, Sched
  <2> QED
    BY <2>1 DEF Spares
<1>2. Lives(k, k') => Spares(k, k')
  BY LivesSpares
<1> QED
  BY <1>1, <1>2, CoreLives

\* A step that signals nobody, queues nothing and neither kills nor frees.
LEMMA QuietDpcOK ==
  ASSUME DpcInv, ThreadInv', UNCHANGED <<ev, jobs, loop>>, Spares(k, k'), OneWaiter',
         ev.signalled[DpcEvent] /\ drain'.q = NoQueue => k'.state[DpcThread] # "blocked"
  PROVE  DpcInv'
<1>1. DpcThread \in Threads
  BY DpcAssumption, ThreadAssumption
<1>2. DpcTypeOK' /\ EventOK' /\ Announced'
  BY DEF DpcInv, DpcTypeOK, EventOK, Announced
<1>3. OnceEach'
  BY DEF DpcInv, OnceEach, Pending, Spares
<1>4. DpcStays'
  BY <1>1 DEF DpcInv, DpcStays, Spares
<1> QED
  BY <1>2, <1>3, <1>4 DEF DpcInv

\* The dpc thread, when it is blocked, is on the list of its event.
LEMMA BlockedOnEvent ==
  ASSUME ThreadInv, OneWaiter, wq.list[DpcEvent] = <<>>
  PROVE  k.state[DpcThread] # "blocked"
<1>1. DpcThread \in Threads /\ DpcEvent \in Queues
  BY DpcAssumption, ThreadAssumption, EventAssumption
<1>2. ASSUME k.state[DpcThread] = "blocked" PROVE wq.blockq[DpcThread] = DpcEvent
  BY <1>1, <1>2 DEF ThreadInv, CallsMatch, OneWaiter
<1> QED
  BY <1>1, <1>2 DEF ThreadInv, WaitQueuesMatch, WaitMatch, Listed

LEMMA BlockedOnEventNext ==
  ASSUME ThreadInv', OneWaiter', wq'.list[DpcEvent] = <<>>
  PROVE  k'.state[DpcThread] # "blocked"
<1>1. DpcThread \in Threads /\ DpcEvent \in Queues
  BY DpcAssumption, ThreadAssumption, EventAssumption
<1>2. ASSUME k'.state[DpcThread] = "blocked" PROVE wq'.blockq[DpcThread] = DpcEvent
  BY <1>1, <1>2 DEF ThreadInv, CallsMatch, OneWaiter
<1> QED
  BY <1>1, <1>2 DEF ThreadInv, WaitQueuesMatch, WaitMatch, Listed

LEMMA DpcCoreOK ==
  ASSUME DpcInv, ExclusiveResume, Core, UNCHANGED <<ev, credit, jobs, loop>>
  PROVE  DpcInv'
<1>1. ThreadInv'
  BY CoreOK DEF DpcInv
<1>2. Spares(k, k') /\ \A t \in Threads : wq'.blockq[t] \in {wq.blockq[t], NoQueue}
  BY CoreSpares DEF DpcInv
<1>3. /\ frame' = frame
      /\ drain' = drain \/ (drain' = NoDrain /\ wq'.list[drain.q] = <<>>)
      /\ \A u \in Threads : frame[u].q # NoQueue =>
           (k'.state[u] = "blocked" => k.state[u] = "blocked")
  BY <1>1, CoreWaiters DEF DpcInv, Untouched, Woken
<1>4. OneWaiter'
  BY <1>2, <1>3 DEF DpcInv, OneWaiter, NoDrain
<1>5. DpcThread \in Threads
  BY DpcAssumption, ThreadAssumption
<1>6. ASSUME ev.signalled[DpcEvent], drain'.q = NoQueue PROVE k'.state[DpcThread] # "blocked"
  <2>1. CASE drain.q = NoQueue
    <3>1. k.state[DpcThread] # "blocked"
      BY <1>6, <2>1 DEF DpcInv, Announced
    <3>2. CASE frame[DpcThread].q = NoQueue
      BY <1>1, <1>3, <1>5, <3>2 DEF ThreadInv, CallsMatch
    <3>3. CASE frame[DpcThread].q # NoQueue
      BY <1>3, <1>5, <3>1, <3>3
    <3> QED
      BY <3>2, <3>3
  <2>2. CASE drain.q # NoQueue
    <3>1. wq'.list[DpcEvent] = <<>>
      BY <1>3, <1>6, <2>2 DEF DpcInv, OneWaiter
    <3> QED
      BY <1>1, <1>4, <3>1, BlockedOnEventNext
  <2> QED
    BY <2>1, <2>2
<1> QED
  BY <1>1, <1>2, <1>4, <1>6, QuietDpcOK

-----------------------------------------------------------------------------
(* Lists of calls.                                                         *)

LEMMA AppendLists ==
  ASSUME NEW S, NEW s \in Seq(S), NEW x \in S
  PROVE  /\ Append(s, x) \in Seq(S)
         /\ \A u : Listed(u, Append(s, x)) <=> Listed(u, s) \/ u = x
<1>1. /\ Append(s, x) \in Seq(S) /\ Len(s) \in Nat
      /\ \A i \in 1..Len(s) : Append(s, x)[i] = s[i]
      /\ Append(s, x)[Len(s) + 1] = x
      /\ DOMAIN Append(s, x) = 1..(Len(s) + 1) /\ DOMAIN s = 1..Len(s)
  OBVIOUS
<1> DEFINE r == Append(s, x)
           n == Len(s) + 1
<1>2. n \in DOMAIN r /\ r[n] = x /\ DOMAIN r = DOMAIN s \cup {n}
      /\ \A i \in DOMAIN s : r[i] = s[i]
  BY <1>1
<1> HIDE DEF r, n
<1>3. \A u : Listed(u, r) <=> Listed(u, s) \/ u = x
  BY <1>2 DEF Listed
<1> QED
  BY <1>1, <1>3 DEF r

\* No call but a Callback is twice in the list.
Distinct(s) == \A i, j \in DOMAIN s : s[i] = s[j] => i = j \/ s[i] = Callback

LEMMA AppendDistinct ==
  ASSUME NEW S, NEW s \in Seq(S), NEW x \in S, Distinct(s), Listed(x, s) => x = Callback
  PROVE  Distinct(Append(s, x))
<1> DEFINE r == Append(s, x)
           n == Len(s) + 1
<1>1. n \in DOMAIN r /\ r[n] = x /\ DOMAIN r = DOMAIN s \cup {n}
      /\ \A i \in DOMAIN s : r[i] = s[i]
  <2>1. /\ Append(s, x) \in Seq(S) /\ Len(s) \in Nat
        /\ \A i \in 1..Len(s) : Append(s, x)[i] = s[i]
        /\ Append(s, x)[Len(s) + 1] = x
        /\ DOMAIN Append(s, x) = 1..(Len(s) + 1) /\ DOMAIN s = 1..Len(s)
    OBVIOUS
  <2> QED
    BY <2>1
<1> HIDE DEF r, n
<1>2. ASSUME NEW i \in DOMAIN r, NEW j \in DOMAIN r, r[i] = r[j], r[i] # Callback
      PROVE  i = j
  <2>1. CASE i \in DOMAIN s /\ j \in DOMAIN s
    BY <1>1, <1>2, <2>1 DEF Distinct
  <2>2. CASE i \notin DOMAIN s \/ j \notin DOMAIN s
    <3>1. x # Callback
      BY <1>1, <1>2, <2>2
    <3>2. \A m \in DOMAIN s : s[m] # x
      BY <3>1 DEF Listed
    <3> QED
      BY <1>1, <1>2, <2>2, <3>2
  <2> QED
    BY <2>1, <2>2
<1>3. Distinct(r)
  BY <1>2 DEF Distinct
<1> QED
  BY <1>3 DEF r

LEMMA TailLists ==
  ASSUME NEW S, NEW s \in Seq(S), s # <<>>, Distinct(s)
  PROVE  /\ Tail(s) \in Seq(S) /\ Head(s) \in S /\ Distinct(Tail(s))
         /\ \A u : Listed(u, s) <=> Listed(u, Tail(s)) \/ u = Head(s)
         /\ Listed(Head(s), Tail(s)) => Head(s) = Callback
<1> DEFINE r == Tail(s)
           h == Head(s)
<1>1. /\ r \in Seq(S) /\ h \in S /\ Len(s) \in Nat \ {0}
      /\ DOMAIN s = 1..Len(s) /\ DOMAIN r = 1..(Len(s) - 1) /\ h = s[1]
      /\ \A i \in 1..(Len(s) - 1) : r[i] = s[i + 1]
  OBVIOUS
<1> HIDE DEF r, h
<1>2. \A i \in DOMAIN r : i + 1 \in DOMAIN s /\ i + 1 # 1 /\ r[i] = s[i + 1]
  BY <1>1
<1>3. \A i \in DOMAIN s : i = 1 \/ (i - 1 \in DOMAIN r /\ r[i - 1] = s[i])
  BY <1>1
<1>4. 1 \in DOMAIN s /\ h = s[1]
  BY <1>1
<1>5. \A u : Listed(u, s) <=> Listed(u, r) \/ u = h
  <2> TAKE u
  <2>1. ASSUME Listed(u, s) PROVE Listed(u, r) \/ u = h
    BY <1>3, <1>4, <2>1 DEF Listed
  <2>2. ASSUME Listed(u, r) \/ u = h PROVE Listed(u, s)
    BY <1>2, <1>4, <2>2 DEF Listed
  <2> QED
    BY <2>1, <2>2
<1>6. Listed(h, r) => h = Callback
  BY <1>2, <1>4 DEF Listed, Distinct
<1>7. Distinct(r)
  <2> SUFFICES ASSUME NEW i \in DOMAIN r, NEW j \in DOMAIN r, r[i] = r[j], r[i] # Callback
               PROVE  i = j
    BY DEF Distinct
  <2>1. i + 1 = j + 1
    BY <1>2 DEF Distinct
  <2> QED
    BY <1>1, <2>1
<1> QED
  BY <1>1, <1>5, <1>6, <1>7 DEF r, h

-----------------------------------------------------------------------------
(* Queueing.                                                               *)

LEMMA SignalDpcOK ==
  ASSUME DpcInv, NEW reschedule \in BOOLEAN, Signal(DpcEvent, reschedule),
         InKernelCaller, reschedule => at[k.cur] = "user"
  PROVE  /\ ThreadInv' /\ Spares(k, k') /\ OneWaiter' /\ EventOK' /\ ev'.signalled[DpcEvent]
         /\ drain'.q = NoQueue => k'.state[DpcThread] # "blocked"
<1>1. DpcEvent \in Queues /\ DpcEvent \in Events /\ DpcEvent \notin AutoUnsignal
      /\ DpcEvent # NoQueue
  BY DpcAssumption, EventAssumption, ThreadAssumption
<1>2. EventOK' /\ ev'.signalled[DpcEvent]
  <2>1. ev' = [ev EXCEPT !.signalled[DpcEvent] = TRUE]
    BY <1>1 DEF Signal
  <2>2. ev = [alive |-> ev.alive, signalled |-> ev.signalled]
        /\ ev.signalled \in [Events -> BOOLEAN] /\ ev.alive \in [Events -> BOOLEAN]
    BY DEF DpcInv, EventOK
  <2>3. ev' = [alive |-> ev.alive, signalled |-> [ev.signalled EXCEPT ![DpcEvent] = TRUE]]
    BY <2>1, <2>2
  <2> QED
    BY <1>1, <2>2, <2>3 DEF EventOK
<1>3. CASE WakeAll(DpcEvent, reschedule, "ok")
  <2>1. /\ drain' = [q |-> DpcEvent, err |-> "ok"] /\ wq' = wq /\ frame' = frame
        /\ k' = MadeReady(k, k.cur) \/ k' = k
    BY <1>3 DEF WakeAll
  <2>2. ThreadInv'
    <3>1. "ok" \in Results
      BY DEF Results
    <3> QED
      BY <1>1, <1>3, <3>1, WakeAllOK DEF DpcInv
  <2>3. Spares(k, k')
    <3>1. k \in Sched /\ RunqMatch(k) /\ k.cur \in Threads /\ k.state[k.cur] = "running"
      BY Types DEF DpcInv, ThreadInv, TypeOK, RunQueuesMatch, InKernelCaller, CpuAccounted
    <3> QED
      BY <2>1, <3>1, MadeReadyLives, LivesSpares DEF Spares
  <2>4. OneWaiter'
    BY <2>1 DEF DpcInv, OneWaiter
  <2> QED
    BY <1>1, <1>2, <2>1, <2>2, <2>3, <2>4
<1>4. CASE wq.list[DpcEvent] = <<>> /\ UNCHANGED tvars
  <2>1. k' = k /\ wq' = wq /\ frame' = frame /\ drain' = drain
    BY <1>4 DEF tvars
  <2>2. ThreadInv' /\ Spares(k, k') /\ OneWaiter'
    BY <1>4, <2>1, StutterOK DEF DpcInv, Spares, OneWaiter
  <2>3. k.state[DpcThread] # "blocked"
    BY <1>4, BlockedOnEvent DEF DpcInv
  <2> QED
    BY <1>2, <2>1, <2>2, <2>3
<1> QED
  BY <1>1, <1>3, <1>4 DEF Signal

LEMMA DpcQueueOK ==
  ASSUME DpcInv, NEW reschedule \in BOOLEAN, DpcQueue(reschedule),
         InKernelCaller, reschedule => at[k.cur] = "user"
  PROVE  DpcInv'
<1>1. jobs' = Append(jobs, Callback) /\ loop' = loop
  BY DEF DpcQueue
<1>2. DpcThread \in Threads /\ Callback \notin Threads
  BY DpcAssumption, ThreadAssumption
<1>3. /\ jobs' \in Seq(Threads \cup {Callback})
      /\ \A u : Listed(u, jobs') <=> Listed(u, jobs) \/ u = Callback
      /\ Distinct(jobs')
  BY <1>1, AppendLists, AppendDistinct DEF DpcInv, DpcTypeOK, OnceEach, Distinct
<1>4. /\ ThreadInv' /\ Spares(k, k') /\ OneWaiter' /\ EventOK' /\ ev'.signalled[DpcEvent]
      /\ drain'.q = NoQueue => k'.state[DpcThread] # "blocked"
  <2>1. CASE Signal(DpcEvent, reschedule)
    BY <2>1, SignalDpcOK
  <2>2. CASE ev.signalled[DpcEvent] /\ UNCHANGED <<tvars, evvars>>
    <3>1. k' = k /\ wq' = wq /\ frame' = frame /\ drain' = drain /\ ev' = ev /\ UNCHANGED tvars
      BY <2>2 DEF tvars, evvars
    <3> QED
      BY <2>2, <3>1, StutterOK DEF DpcInv, Spares, OneWaiter, EventOK, Announced
  <2> QED
    BY <2>1, <2>2 DEF DpcQueue
<1>5. DpcTypeOK' /\ Announced'
  BY <1>1, <1>3, <1>4 DEF DpcInv, DpcTypeOK, Announced
<1>6. OnceEach'
  BY <1>1, <1>2, <1>3, <1>4 DEF DpcInv, OnceEach, Pending, Spares, Distinct
<1>7. DpcStays'
  BY <1>2, <1>4 DEF DpcInv, DpcStays, Spares
<1> QED
  BY <1>4, <1>5, <1>6, <1>7 DEF DpcInv

-----------------------------------------------------------------------------
(* Dying.                                                                  *)

\* What the death of the current thread does to the threads.
LEMMA Dies ==
  ASSUME DpcInv, Exit
  PROVE  /\ k' \in Sched /\ RunQueuesMatch' /\ CpuAccounted'
         /\ k'.state[k.cur] = "death"
         /\ \A t \in Threads : t # k.cur =>
              k'.state[t] = k.state[t] \/ (k.state[t] = "ready" /\ k'.state[t] = "running")
<1> DEFINE c == k.cur
           dead == SetState(k, c, "death")
<1>1. /\ k.state[c] = "running" /\ drain.q = NoQueue /\ c # Idle /\ c \in Threads
      /\ k \in Sched /\ RunqMatch(k) /\ wq' = wq
  BY Types
     DEF Exit, Caller, InThread, DpcInv, ThreadInv, CpuAccounted, TypeOK, RunQueuesMatch
<1>2. CASE ~ev.signalled[DpcEvent] /\ wq.list[DpcEvent] # <<>>
  <2>1. k' = dead /\ drain' = [q |-> DpcEvent, err |-> "ok"]
    BY <1>2 DEF Exit
  <2>2. "death" \in States \ {"ready"}
    BY DEF States
  <2>3. /\ k' \in Sched /\ RunqMatch(k') /\ k'.state = [k.state EXCEPT ![c] = "death"]
        /\ k'.cur = c
    BY <1>1, <2>1, <2>2, LeftRunning
  <2>4. at'[c] = "exit"
    <3>1. at \in [Threads -> Places] /\ at' = [at EXCEPT ![c] = "exit"]
      BY Types DEF Exit, EnterKernel, DpcInv, ThreadInv
    <3> QED
      BY <1>1, <3>1
  <2>5. \A t \in Threads : k'.state[t] = IF t = c THEN "death" ELSE k.state[t]
    BY <1>1, <2>3 DEF Sched
  <2>6. CpuAccounted'
    <3>1. DpcEvent # NoQueue
      BY DpcAssumption, EventAssumption, ThreadAssumption
    <3>2. k.state[Idle] \in {"running", "ready"} /\ Idle \in Threads
          /\ \A t \in Threads : k.state[t] = "running" => t = c
      BY ThreadAssumption DEF DpcInv, ThreadInv, CpuAccounted
    <3> HIDE DEF dead, c
    <3> QED
      BY <1>1, <1>2, <2>1, <2>3, <2>4, <2>5, <3>1, <3>2 DEF CpuAccounted
  <2> QED
    BY <1>1, <2>3, <2>5, <2>6 DEF RunQueuesMatch
<1>3. CASE ~(~ev.signalled[DpcEvent] /\ wq.list[DpcEvent] # <<>>)
  <2>1. k' = Resched(dead) /\ drain' = drain
    BY <1>3 DEF Exit
  <2>2. PICK new \in Threads :
          /\ new # c /\ k.state[new] = "ready"
          /\ k' \in Sched /\ RunQueuesMatch' /\ CpuAccounted'
          /\ \A t \in Threads : k'.state[t] = IF t = new THEN "running"
                                             ELSE IF t = c THEN "death" ELSE k.state[t]
    BY <1>1, <2>1, LeavesCpu DEF DpcInv
  <2> QED
    BY <1>1, <2>2
<1> QED
  BY <1>2, <1>3

LEMMA ExitThreadOK ==
  ASSUME DpcInv, Exit
  PROVE  ThreadInv'
<1> DEFINE c == k.cur
<1>1. /\ k.state[c] = "running" /\ drain.q = NoQueue /\ c \in Threads /\ at[c] = "user"
      /\ UNCHANGED <<wq, frame, timer, target>>
  BY Types DEF Exit, Caller, InThread, DpcInv, ThreadInv, CpuAccounted
<1>2. /\ k' \in Sched /\ RunQueuesMatch' /\ CpuAccounted' /\ k'.state[c] = "death"
      /\ \A t \in Threads : t # c =>
           k'.state[t] = k.state[t] \/ (k.state[t] = "ready" /\ k'.state[t] = "running")
  BY Dies
<1>3. /\ cs' \in [Threads -> Int] /\ ints' \in BOOLEAN /\ at' \in [Threads -> Places]
      /\ at' = [at EXCEPT ![c] = "exit"]
  <2>1. "exit" \in Places /\ EnterKernel("exit") /\ TypeOK
    BY DEF Places, Exit, DpcInv, ThreadInv
  <2> QED
    BY <2>1, EnterOK
<1>4. \A t \in Threads : at'[t] = "block" <=> at[t] = "block"
  BY <1>1, <1>3, Types DEF DpcInv, ThreadInv
<1>5. TypeOK'
  <2>1. drain' \in [q : Queues \cup {NoQueue}, err : Results]
    <3>1. drain' = drain \/ drain' = [q |-> DpcEvent, err |-> "ok"]
      BY DEF Exit
    <3> QED
      BY <3>1, Types, DpcAssumption, EventAssumption DEF DpcInv, ThreadInv, Results
  <2> QED
    BY <1>1, <1>2, <1>3, <2>1 DEF DpcInv, ThreadInv, TypeOK
<1> HIDE DEF c
<1>6. \A t \in Threads : k.state[t] = "blocked" <=> k'.state[t] = "blocked"
  BY <1>1, <1>2
<1>7. WaitQueuesMatch'
  BY <1>1, <1>6, SameWaiters DEF WaitQueuesMatch, DpcInv, ThreadInv
<1>8. StackTimersDisarmed'
  BY <1>1, <1>2, <1>4 DEF StackTimersDisarmed, DpcInv, ThreadInv
<1>9. CallsMatch'
  <2>1. ASSUME NEW t \in Threads, at[t] = "block"
        PROVE  k'.state[t] \in {"blocked", "ready", "running"}
    <3>1. k.state[t] \in {"blocked", "ready", "running"} /\ t # c
      BY <1>1, <2>1 DEF DpcInv, ThreadInv, CallsMatch
    <3> QED
      BY <1>2, <3>1
  <2>2. \A t \in Threads : k.state[t] = "suspended" => k'.state[t] = "suspended"
    BY <1>1, <1>2
  <2> QED
    BY <1>1, <1>4, <1>6, <2>1, <2>2, CallsKept DEF DpcInv
<1>10. CallsMasked'
  BY CallerStands, EnterMasked DEF Exit, DpcInv
<1> QED
  BY <1>2, <1>5, <1>7, <1>8, <1>9, <1>10 DEF ThreadInv

LEMMA ExitOK ==
  ASSUME DpcInv, Exit
  PROVE  DpcInv'
<1> DEFINE c == k.cur
<1>1. ThreadInv'
  BY ExitThreadOK
<1>2. /\ c \in Threads /\ c # DpcThread /\ k.state[c] = "running" /\ drain.q = NoQueue
      /\ jobs' = Append(jobs, c) /\ UNCHANGED <<wq, frame, loop>>
      /\ ev' = [ev EXCEPT !.signalled[DpcEvent] = TRUE]
      /\ drain' = [q |-> DpcEvent, err |-> "ok"] \/ drain' = drain
      /\ (~ev.signalled[DpcEvent] /\ wq.list[DpcEvent] # <<>> => drain'.q = DpcEvent)
  BY Types DEF Exit, Caller, InThread, DpcInv, ThreadInv, CpuAccounted
<1>3. /\ k'.state[c] = "death"
      /\ \A t \in Threads : t # c =>
           k'.state[t] = k.state[t] \/ (k.state[t] = "ready" /\ k'.state[t] = "running")
  BY Dies
<1>4. ~Pending(c) /\ c # Callback
  BY <1>2, DpcAssumption DEF DpcInv, OnceEach
<1> HIDE DEF c
<1>5. /\ jobs' \in Seq(Threads \cup {Callback})
      /\ \A u : Listed(u, jobs') <=> Listed(u, jobs) \/ u = c
      /\ Distinct(jobs')
  <2>1. Distinct(jobs) /\ jobs \in Seq(Threads \cup {Callback})
    BY DEF DpcInv, OnceEach, Distinct, DpcTypeOK
  <2>2. ~Listed(c, jobs)
    BY <1>4 DEF Pending
  <2> QED
    BY <1>2, <2>1, <2>2, AppendLists, AppendDistinct
<1>6. DpcThread \in Threads /\ DpcEvent \in Events /\ DpcEvent # NoQueue
  BY DpcAssumption, ThreadAssumption, EventAssumption
<1>7. DpcTypeOK'
  BY <1>2, <1>5 DEF DpcInv, DpcTypeOK
<1>8. EventOK' /\ ev'.signalled[DpcEvent]
  <2>1. ev = [alive |-> ev.alive, signalled |-> ev.signalled]
        /\ ev.signalled \in [Events -> BOOLEAN] /\ ev.alive \in [Events -> BOOLEAN]
    BY DEF DpcInv, EventOK
  <2>2. ev' = [alive |-> ev.alive, signalled |-> [ev.signalled EXCEPT ![DpcEvent] = TRUE]]
    BY <1>2, <2>1
  <2> QED
    BY <1>6, <2>1, <2>2 DEF EventOK
<1>9. OneWaiter'
  BY <1>2 DEF DpcInv, OneWaiter
<1>10. Announced'
  <2>1. ASSUME drain'.q = NoQueue PROVE k'.state[DpcThread] # "blocked"
    <3>1. ev.signalled[DpcEvent] \/ wq.list[DpcEvent] = <<>>
      BY <1>2, <1>6, <2>1
    <3>2. k.state[DpcThread] # "blocked"
      BY <1>2, <3>1, BlockedOnEvent DEF DpcInv, Announced
    <3> QED
      BY <1>2, <1>3, <1>6, <3>2
  <2> QED
    BY <1>8, <2>1 DEF Announced
<1>11. OnceEach'
  <2>1. ASSUME NEW t \in Threads PROVE k'.state[t] = "death" <=> Pending(t)'
    BY <1>2, <1>3, <1>4, <1>5 DEF DpcInv, OnceEach, Pending
  <2>2. ASSUME NEW t \in Threads, loop.pc = "run", loop.job = t PROVE ~Listed(t, jobs')
    BY <1>4, <1>5, <2>2 DEF DpcInv, OnceEach, Pending
  <2> QED
    BY <1>2, <1>5, <2>1, <2>2 DEF OnceEach, Distinct
<1>12. DpcStays'
  BY <1>2, <1>3, <1>6 DEF DpcInv, DpcStays
<1> QED
  BY <1>1, <1>7, <1>8, <1>9, <1>10, <1>11, <1>12 DEF DpcInv

-----------------------------------------------------------------------------
(* The dpc thread.                                                         *)

\* No step of the loop but its wait touches the threads, save to free one.
LEMMA DpcReturnOK ==
  ASSUME DpcInv, WaitReturn(DpcEvent), UNCHANGED <<jobs, loop>>
  PROVE  DpcInv'
<1>1. DpcEvent \in Queues /\ DpcThread \in Threads
  BY DpcAssumption, EventAssumption, ThreadAssumption
<1>2. ThreadInv'
  BY <1>1, BlockReturnOK DEF DpcInv, WaitReturn
<1>3. /\ k' = k /\ wq' = wq /\ drain' = drain /\ ev' = ev
      /\ frame' = [frame EXCEPT ![k.cur] = NoFrame]
  BY DEF WaitReturn, BlockReturn
<1>4. \A t \in Threads : frame'[t].q # NoQueue => frame'[t] = frame[t]
  BY <1>3, Types DEF NoFrame, DpcInv, ThreadInv
<1>5. OneWaiter'
  BY <1>3, <1>4 DEF DpcInv, OneWaiter
<1>6. Spares(k, k')
  BY <1>3 DEF Spares
<1> QED
  BY <1>2, <1>3, <1>5, <1>6, QuietDpcOK DEF DpcInv, Announced

LEMMA LoopWaitOK ==
  ASSUME DpcInv, LoopWait
  PROVE  DpcInv'
<1>1. DpcEvent \in Queues /\ DpcEvent \notin AutoUnsignal /\ DpcThread \in Threads
      /\ DpcEvent \in Events /\ DpcEvent # NoQueue
  BY DpcAssumption, EventAssumption, ThreadAssumption
<1>2. /\ k.cur = DpcThread /\ drain.q = NoQueue /\ k.state[k.cur] = "running" /\ k.cur # Idle
      /\ loop.pc = "wait" /\ loop' = [loop EXCEPT !.pc = "take"] /\ jobs' = jobs
  BY DEF LoopWait, Caller, InThread, DpcInv, ThreadInv, CpuAccounted
<1>3. /\ loop' = [pc |-> "take", job |-> loop.job] /\ loop'.pc = "take" /\ DpcTypeOK'
  BY <1>2 DEF DpcInv, DpcTypeOK
<1>4. \A t \in Threads : Pending(t)' <=> Pending(t)
  BY <1>2, <1>3 DEF Pending
<1>5. CASE WaitPass(DpcEvent)
  <2>1. k' = k /\ wq' = wq /\ frame' = frame /\ drain' = drain /\ UNCHANGED tvars
    BY <1>5 DEF WaitPass, tvars
  <2>2. ev' = ev
    <3>1. ev' = [ev EXCEPT !.signalled[DpcEvent] = TRUE] /\ ev.signalled[DpcEvent]
      BY <1>1, <1>5 DEF WaitPass
    <3>2. ev = [alive |-> ev.alive, signalled |-> ev.signalled]
          /\ ev.signalled \in [Events -> BOOLEAN]
      BY DEF DpcInv, EventOK
    <3>3. ev' = [alive |-> ev.alive, signalled |-> [ev.signalled EXCEPT ![DpcEvent] = TRUE]]
      BY <3>1, <3>2
    <3> QED
      BY <3>1, <3>2, <3>3
  <2>3. ThreadInv' /\ EventOK' /\ OneWaiter' /\ Announced' /\ DpcStays'
    BY <1>2, <2>1, <2>2, StutterOK DEF DpcInv, EventOK, OneWaiter, Announced, DpcStays
  <2>4. OnceEach'
    BY <1>2, <1>3, <1>4, <2>1 DEF DpcInv, OnceEach
  <2> QED
    BY <1>3, <2>3, <2>4 DEF DpcInv
<1>6. CASE WaitBlock(DpcEvent, FALSE)
  <2>1. Block(DpcEvent, FALSE) /\ ev' = ev /\ ~ev.signalled[DpcEvent]
    BY <1>6 DEF WaitBlock, evvars
  <2>2. ThreadInv'
    BY <1>1, <2>1, BlockOK DEF DpcInv
  <2>3. /\ frame' = [frame EXCEPT ![k.cur] = [q |-> DpcEvent, timed |-> FALSE]]
        /\ wq' = PushWaiter(wq, DpcEvent, k.cur)
        /\ k' = Resched(SetState(k, k.cur, "blocked")) /\ drain' = drain
    BY <2>1 DEF Block
  <2>4. PICK new \in Threads :
          /\ new # k.cur /\ k.state[new] = "ready"
          /\ \A t \in Threads : k'.state[t] = IF t = new THEN "running"
                                             ELSE IF t = k.cur THEN "blocked" ELSE k.state[t]
    BY <1>2, <2>3, LeavesCpu DEF DpcInv
  <2>5. wq'.blockq = [wq.blockq EXCEPT ![k.cur] = DpcEvent]
    BY <2>3 DEF PushWaiter, DpcInv, ThreadInv, TypeOK, Waits
  <2>6. OneWaiter'
    BY <1>1, <1>2, <2>3, <2>5, Types DEF DpcInv, OneWaiter, ThreadInv
  <2>7. Announced' /\ EventOK'
    BY <1>2, <2>1 DEF DpcInv, Announced, EventOK
  <2>8. OnceEach'
    <3>1. \A t \in Threads : k'.state[t] = "death" <=> k.state[t] = "death"
      BY <1>2, <2>4
    <3> QED
      BY <1>2, <1>3, <1>4, <3>1 DEF DpcInv, OnceEach
  <2>9. DpcStays'
    BY <1>1, <1>2, <2>4 DEF DpcStays
  <2> QED
    BY <1>3, <2>2, <2>6, <2>7, <2>8, <2>9 DEF DpcInv
<1> QED
  BY <1>5, <1>6 DEF LoopWait

LEMMA LoopTakeOK ==
  ASSUME DpcInv, LoopTake
  PROVE  DpcInv'
<1>1. /\ k.cur = DpcThread /\ k.state[DpcThread] = "running" /\ loop.pc = "take"
      /\ UNCHANGED tvars /\ k' = k /\ wq' = wq /\ frame' = frame /\ drain' = drain
  BY DEF LoopTake, Caller, InThread, DpcInv, ThreadInv, CpuAccounted, tvars
<1>2. ThreadInv' /\ OneWaiter' /\ DpcStays'
  BY <1>1, StutterOK DEF DpcInv, OneWaiter, DpcStays
<1>3. CASE jobs # <<>>
  <2>1. /\ jobs' = Tail(jobs) /\ loop' = [pc |-> "run", job |-> Head(jobs)] /\ ev' = ev
    BY <1>3 DEF LoopTake
  <2> DEFINE h == Head(jobs)
  <2>2. /\ jobs' \in Seq(Threads \cup {Callback}) /\ h \in Threads \cup {Callback}
        /\ Distinct(jobs')
        /\ \A u : Listed(u, jobs) <=> Listed(u, jobs') \/ u = h
        /\ Listed(h, jobs') => h = Callback
    <3>1. Distinct(jobs) /\ jobs \in Seq(Threads \cup {Callback})
      BY DEF DpcInv, OnceEach, Distinct, DpcTypeOK
    <3> QED
      BY <1>3, <2>1, <3>1, TailLists
  <2>3. loop'.pc = "run" /\ loop'.job = h
    BY <2>1
  <2> HIDE DEF h
  <2>4. DpcTypeOK' /\ EventOK'
    BY <2>1, <2>2 DEF DpcInv, DpcTypeOK, EventOK, h
  <2>5. Announced'
    BY <1>1, <1>3, <2>1 DEF DpcInv, Announced
  <2>6. OnceEach'
    <3>1. \A t \in Threads : Pending(t)' <=> Pending(t)
      BY <1>1, <2>2, <2>3 DEF Pending
    <3>2. \A t \in Threads : t # Callback
      BY DpcAssumption
    <3> QED
      BY <1>1, <2>2, <2>3, <3>1, <3>2 DEF DpcInv, OnceEach, Distinct
  <2> QED
    BY <1>2, <2>4, <2>5, <2>6 DEF DpcInv
<1>4. CASE jobs = <<>>
  <2>1. /\ jobs' = jobs /\ loop' = [loop EXCEPT !.pc = "wait"]
        /\ ev' = [ev EXCEPT !.signalled[DpcEvent] = FALSE]
    BY <1>4 DEF LoopTake
  <2>2. loop' = [pc |-> "wait", job |-> loop.job] /\ loop'.pc = "wait" /\ DpcTypeOK'
    BY <2>1 DEF DpcInv, DpcTypeOK
  <2>3. EventOK' /\ ~ev'.signalled[DpcEvent]
    <3>1. ev = [alive |-> ev.alive, signalled |-> ev.signalled]
          /\ ev.signalled \in [Events -> BOOLEAN] /\ ev.alive \in [Events -> BOOLEAN]
          /\ DpcEvent \in Events
      BY DpcAssumption DEF DpcInv, EventOK
    <3>2. ev' = [alive |-> ev.alive, signalled |-> [ev.signalled EXCEPT ![DpcEvent] = FALSE]]
      BY <2>1, <3>1
    <3> QED
      BY <3>1, <3>2 DEF EventOK
  <2>4. Announced'
    BY <1>4, <2>1, <2>3 DEF Announced
  <2>5. OnceEach'
    <3>1. \A t \in Threads : Pending(t)' <=> Pending(t)
      BY <1>1, <2>1, <2>2 DEF Pending
    <3> QED
      BY <1>1, <2>1, <2>2, <3>1 DEF DpcInv, OnceEach
  <2> QED
    BY <1>2, <2>2, <2>3, <2>4, <2>5 DEF DpcInv
<1> QED
  BY <1>3, <1>4

\* Freeing a dead thread disturbs nobody: it is nowhere.
LEMMA FreedOK ==
  ASSUME ThreadInv, NEW j \in Threads, k.state[j] = "death", drain.q = NoQueue,
         k' = SetState(k, j, "none"),
         UNCHANGED <<wq, cs, ints, at, frame, timer, target, drain>>
  PROVE  /\ ThreadInv'
         /\ \A t \in Threads : k'.state[t] = IF t = j THEN "none" ELSE k.state[t]
<1>1. k \in Sched /\ RunqMatch(k) /\ "none" \in States \ {"ready"} /\ k.state[j] # "ready"
  BY DEF ThreadInv, TypeOK, RunQueuesMatch, States
<1>2. /\ k' \in Sched /\ RunqMatch(k') /\ k'.state = [k.state EXCEPT ![j] = "none"]
      /\ k'.cur = k.cur
  BY <1>1, LeftRunning
<1>3. \A t \in Threads : k'.state[t] = IF t = j THEN "none" ELSE k.state[t]
  BY <1>1, <1>2 DEF Sched
<1>4. TypeOK'
  BY <1>2 DEF ThreadInv, TypeOK
<1>5. WaitQueuesMatch'
  BY <1>3, SameWaiters DEF WaitQueuesMatch, ThreadInv
<1>6. CpuAccounted'
  BY <1>2, <1>3, ThreadAssumption, Types DEF CpuAccounted, ThreadInv
<1>7. StackTimersDisarmed'
  BY <1>3 DEF StackTimersDisarmed, ThreadInv
<1>8. CallsMatch'
  <2>1. \A t \in Threads : at[t] = "block" => k'.state[t] \in {"blocked", "ready", "running"}
    BY <1>3 DEF ThreadInv, CallsMatch
  <2>2. \A t \in Threads : k.state[t] = "suspended" => k'.state[t] = "suspended"
    BY <1>3
  <2> QED
    BY <1>3, <2>1, <2>2, CallsKept
<1>9. CallsMasked'
  BY <1>2, SameMasked
<1> QED
  BY <1>2, <1>3, <1>4, <1>5, <1>6, <1>7, <1>8, <1>9 DEF ThreadInv, RunQueuesMatch

LEMMA LoopRunOK ==
  ASSUME DpcInv, LoopRun
  PROVE  DpcInv'
<1>1. /\ k.cur = DpcThread /\ k.state[DpcThread] = "running" /\ loop.pc = "run"
      /\ drain.q = NoQueue /\ loop' = [pc |-> "wait", job |-> Callback] /\ loop'.pc = "wait"
      /\ UNCHANGED <<wq, cs, ints, at, frame, timer, target, drain, ev, credit, jobs>>
      /\ DpcThread \in Threads
  BY DpcAssumption, ThreadAssumption
     DEF LoopRun, Caller, InThread, DpcInv, ThreadInv, CpuAccounted
<1>2. DpcTypeOK' /\ EventOK' /\ OneWaiter'
  BY <1>1 DEF DpcInv, DpcTypeOK, EventOK, OneWaiter
<1>3. CASE loop.job = Callback
  <2>1. k' = k /\ UNCHANGED tvars
    BY <1>1, <1>3 DEF LoopRun, tvars
  <2>2. ThreadInv' /\ Announced' /\ DpcStays'
    BY <1>1, <2>1, StutterOK DEF DpcInv, Announced, DpcStays
  <2>3. OnceEach'
    BY <1>1, <1>3, <2>1, DpcAssumption DEF DpcInv, OnceEach, Pending
  <2> QED
    BY <1>2, <2>2, <2>3 DEF DpcInv
<1>4. CASE loop.job # Callback
  <2> DEFINE j == loop.job
  <2>1. j \in Threads /\ k.state[j] = "death" /\ k' = SetState(k, j, "none") /\ ~Listed(j, jobs)
    BY <1>1, <1>4 DEF DpcInv, DpcTypeOK, OnceEach, Pending, LoopRun
  <2> HIDE DEF j
  <2>2. /\ ThreadInv'
        /\ \A t \in Threads : k'.state[t] = IF t = j THEN "none" ELSE k.state[t]
    BY <1>1, <2>1, FreedOK DEF DpcInv
  <2>3. Announced' /\ DpcStays'
    <3>1. k'.state[DpcThread] = "running"
      BY <1>1, <2>1, <2>2
    <3> QED
      BY <1>1, <3>1 DEF DpcInv, Announced, DpcStays
  <2>4. OnceEach'
    <3>1. ASSUME NEW t \in Threads PROVE k'.state[t] = "death" <=> Pending(t)'
      BY <1>1, <2>1, <2>2 DEF DpcInv, OnceEach, Pending, j
    <3> QED
      BY <1>1, <3>1 DEF DpcInv, OnceEach
  <2> QED
    BY <1>2, <2>2, <2>3, <2>4 DEF DpcInv
<1> QED
  BY <1>3, <1>4

-----------------------------------------------------------------------------
(* The theorems.                                                           *)

LEMMA DpcInitOK == ASSUME DpcInit PROVE DpcInv
<1>1. ThreadInv
  BY InitOK DEF DpcInit, EventInit
<1>2. /\ jobs = <<>> /\ loop = [pc |-> "wait", job |-> Callback]
      /\ ev = [alive |-> [e \in Events |-> TRUE], signalled |-> [e \in Events |-> FALSE]]
      /\ k.state = [t \in Threads |-> IF t = Idle THEN "running"
                                      ELSE IF t \in BootThreads THEN "ready" ELSE "none"]
      /\ frame = [t \in Threads |-> NoFrame] /\ drain = NoDrain
      /\ wq.blockq = [t \in Threads |-> NoQueue]
  BY DEF DpcInit, EventInit, ThreadInit
<1>3. DpcTypeOK /\ EventOK
  BY <1>2 DEF DpcTypeOK, EventOK
<1>4. OneWaiter
  BY <1>2 DEF OneWaiter, NoFrame, NoDrain
<1>5. Announced
  BY <1>2, DpcAssumption DEF Announced
<1>6. OnceEach
  <2>1. \A u : ~Listed(u, jobs)
    BY <1>2 DEF Listed
  <2> QED
    BY <1>2, <2>1 DEF OnceEach, Pending
<1>7. DpcStays
  BY <1>2, DpcAssumption, ThreadAssumption DEF DpcStays
<1> QED
  BY <1>1, <1>3, <1>4, <1>5, <1>6, <1>7 DEF DpcInv

\* Threads may exit, be freed and be created again, and calls be queued, in any
\* order and from anywhere: the invariant stands for any number of each.
THEOREM DpcInvariant ==
  ASSUME ExclusiveResume
  PROVE  DpcSpec => []DpcInv
<1>1. DpcInit => DpcInv
  BY DpcInitOK
<1>2. DpcInv /\ [DpcNext]_dvars => DpcInv'
  <2> SUFFICES ASSUME DpcInv, [DpcNext]_dvars PROVE DpcInv'
    OBVIOUS
  <2>1. CASE (ThreadCalls \/ KernelSteps) /\ UNCHANGED <<ev, credit, jobs, loop>>
    BY <2>1, DpcCoreOK DEF Core
  <2>2. CASE WaitReturn(DpcEvent) /\ UNCHANGED <<jobs, loop>>
    BY <2>2, DpcReturnOK
  <2>3. CASE Caller /\ \E reschedule \in BOOLEAN : DpcQueue(reschedule)
    BY <2>3, CallerStands, DpcQueueOK DEF DpcInv
  <2>4. CASE DeviceHandler /\ DpcQueue(FALSE)
    BY <2>4, DpcQueueOK DEF DeviceHandler, InKernelCaller
  <2>5. CASE Exit
    BY <2>5, ExitOK
  <2>6. CASE DpcLoop
    BY <2>6, LoopWaitOK, LoopTakeOK, LoopRunOK DEF DpcLoop
  <2>7. CASE UNCHANGED dvars
    <3>1. /\ UNCHANGED tvars /\ k' = k /\ wq' = wq /\ frame' = frame /\ drain' = drain
          /\ UNCHANGED <<ev, jobs, loop>>
      BY <2>7 DEF dvars, tvars
    <3>2. Spares(k, k') /\ OneWaiter' /\ ThreadInv'
      BY <3>1, StutterOK DEF DpcInv, Spares, OneWaiter
    <3> QED
      BY <3>1, <3>2, QuietDpcOK DEF DpcInv, Announced
  <2> QED
    BY <2>1, <2>2, <2>3, <2>4, <2>5, <2>6, <2>7 DEF DpcNext
<1> QED
  BY <1>1, <1>2, PTL DEF DpcSpec

\* The list and the loop of the dpc thread keep their types.
THEOREM DpcTyped ==
  ASSUME ExclusiveResume
  PROVE  DpcSpec => []DpcTypeOK
<1>1. DpcInv => DpcTypeOK
  BY DEF DpcInv
<1> QED
  BY <1>1, DpcInvariant, PTL

\* The cleanup of a dead thread is pending exactly once, and neither a dead
\* nor a freed thread is on a run queue, on a wait queue or behind a timer: the
\* assertions of thread_cleanup_dpc hold, however many threads exit at once.
THEOREM DeadAreFreedOnce ==
  ASSUME ExclusiveResume
  PROVE  DpcSpec => []DeadPendOnce
<1>1. DpcInv => DeadPendOnce
  <2> SUFFICES ASSUME DpcInv PROVE DeadPendOnce
    OBVIOUS
  <2>1. ASSUME NEW t \in Threads, k.state[t] \in {"death", "none"}
        PROVE  /\ timer[t] = "off" /\ wq.blockq[t] = NoQueue
               /\ \A p \in Priorities : ~Listed(t, k.runq[p])
    <3>1. timer[t] # "sleep" /\ timer[t] # "wait"
      BY <2>1 DEF DpcInv, ThreadInv, StackTimersDisarmed, CallsMatch
    <3>2. timer[t] = "off"
      BY <3>1, Types DEF DpcInv, ThreadInv
    <3>3. wq.blockq[t] = NoQueue
      BY <2>1 DEF DpcInv, OneWaiter, DpcStays
    <3>4. \A p \in Priorities : ~Listed(t, k.runq[p])
      BY <2>1 DEF DpcInv, ThreadInv, RunQueuesMatch, RunqMatch
    <3> QED
      BY <3>2, <3>3, <3>4
  <2> QED
    BY <2>1 DEF DpcInv, OnceEach, DeadPendOnce
<1> QED
  BY <1>1, DpcInvariant, PTL

\* No deferred call waits for the next one to be queued.
THEOREM DpcStaysAwake ==
  ASSUME ExclusiveResume
  PROVE  DpcSpec => []DpcThreadAwake
<1>1. DpcInv => DpcThreadAwake
  BY DEF DpcInv, Announced, DpcThreadAwake
<1> QED
  BY <1>1, DpcInvariant, PTL

-----------------------------------------------------------------------------
(* Deferred calls run on the scheduler; only exit and the freeing of a thread *)
(* are steps that it does not know.                                           *)

LEMMA DpcStepsRunThreads ==
  ASSUME [DpcNext]_dvars
  PROVE  [ThreadNext]_tvars \/ Exit \/ LoopRun
<1>1. DpcEvent \in Events /\ DpcEvent \in Queues
  BY DpcAssumption, EventAssumption
<1>2. CASE (ThreadCalls \/ KernelSteps) /\ UNCHANGED <<ev, credit, jobs, loop>>
  BY <1>2 DEF ThreadNext, Core
<1>3. CASE WaitReturn(DpcEvent) /\ UNCHANGED <<jobs, loop>>
  BY <1>1, <1>3 DEF WaitReturn, WaitClient, ThreadNext
<1>4. CASE Caller /\ \E reschedule \in BOOLEAN : DpcQueue(reschedule)
  BY <1>1, <1>4 DEF DpcQueue, Signal, WaitClient, ThreadNext
<1>5. CASE DeviceHandler /\ DpcQueue(FALSE)
  BY <1>1, <1>5 DEF DeviceHandler, DpcQueue, Signal, WaitClient, ThreadNext
<1>6. CASE LoopWait
  <2>1. WaitPass(DpcEvent) \/ WaitBlock(DpcEvent, FALSE)
    BY <1>6 DEF LoopWait
  <2> QED
    BY <1>1, <2>1 DEF WaitPass, WaitBlock, WaitClient, ThreadNext
<1>7. CASE LoopTake
  BY <1>7 DEF LoopTake
<1>8. CASE UNCHANGED dvars
  BY <1>8 DEF dvars, tvars
<1> QED
  BY <1>2, <1>3, <1>4, <1>5, <1>6, <1>7, <1>8 DEF DpcNext, DpcLoop

\* Threads come and go, and still the result of a wait is that of what woke it
\* and no late timeout touches a woken thread.
THEOREM DpcKeepsWakeups ==
  ASSUME ExclusiveResume
  PROVE  DpcSpec => WokenOnce
<1> DEFINE Stands == \A t \in Threads :
                       (at[t] = "block" /\ k.state[t] = "ready") =>
                         /\ wq'.ret[t] = wq.ret[t]
                         /\ k'.state[t] \in {"ready", "running"}
<1>1. DpcInv /\ [DpcNext]_dvars => [Stands]_tvars
  <2> SUFFICES ASSUME DpcInv, [DpcNext]_dvars,
                      NEW t \in Threads, at[t] = "block", k.state[t] = "ready"
               PROVE  \/ wq'.ret[t] = wq.ret[t] /\ k'.state[t] \in {"ready", "running"}
                      \/ UNCHANGED tvars
    OBVIOUS
  <2>1. ThreadInv /\ Calm(k, t)
    BY DEF DpcInv, ThreadInv, TypeOK, Sched, Calm
  <2>2. CASE ThreadNext
    BY <2>1, <2>2, WokenIsLeftAlone DEF Calm
  <2>3. CASE Exit
    <3>1. k.cur # t /\ wq' = wq
      BY <2>3 DEF Exit, Caller, InThread
    <3>2. Calm(SetState(k, k.cur, "death"), t)
      BY <2>1, <3>1, CalmOperations
    <3>3. Calm(k', t)
      BY <2>3, <3>2, CalmOperations DEF Exit
    <3> QED
      BY <3>1, <3>3 DEF Calm
  <2>4. CASE LoopRun
    <3>1. wq' = wq /\ loop.pc = "run" /\ loop.job \in Threads \cup {Callback}
      BY <2>4 DEF LoopRun, DpcInv, DpcTypeOK
    <3>2. loop.job # t
      <4>1. loop.job \in Threads => k.state[loop.job] = "death"
        BY <3>1 DEF DpcInv, OnceEach, Pending
      <4> QED
        BY <4>1
    <3>3. k' = k \/ k' = SetState(k, loop.job, "none")
      BY <2>4 DEF LoopRun
    <3>4. Calm(k', t)
      BY <2>1, <3>2, <3>3, CalmOperations
    <3> QED
      BY <3>1, <3>4 DEF Calm
  <2> QED
    BY <2>2, <2>3, <2>4, DpcStepsRunThreads
<1> QED
  BY <1>1, DpcInvariant, PTL DEF DpcSpec, WokenOnce

\* Nor does any exit disturb the end of a tick.
THEOREM DpcTicksRunHighest ==
  ASSUME ExclusiveResume
  PROVE  DpcSpec => TickRunsHighest
<1> DEFINE Tops == (at[k.cur] = "tick" /\ at'[k.cur] # "tick") =>
                     \A t \in Threads : k'.state[t] = "ready" => k'.prio[t] <= k'.prio[k'.cur]
<1>1. DpcInv /\ [DpcNext]_dvars => [Tops]_tvars
  <2> SUFFICES ASSUME DpcInv, [DpcNext]_dvars, at[k.cur] = "tick", at'[k.cur] # "tick"
               PROVE  Tops
    BY DEF tvars
  <2>1. ThreadNext
    BY DpcStepsRunThreads DEF Exit, LoopRun, Caller, InThread, tvars
  <2> QED
    BY <2>1, TickTops DEF DpcInv
<1> QED
  BY <1>1, DpcInvariant, PTL DEF DpcSpec, TickRunsHighest
================================================================================
