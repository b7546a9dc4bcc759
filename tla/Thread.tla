------------------------------- MODULE Thread -------------------------------
(***************************************************************************)
(* The LK scheduler and wait queues (kernel/thread.c), with the ARM IRQ    *)
(* glue that preempts a thread (arch/arm/exceptions.S).                    *)
(*                                                                         *)
(* One CPU.  A kernel call runs inside a critical section, so a call is    *)
(* one action up to the thread_resched() that may switch the CPU, and one  *)
(* more action (Return, BlockReturn) for what the thread does when it is   *)
(* switched back in: at[t] says where it stands.  An interrupt is taken    *)
(* whenever interrupts are enabled (IrqEnter); the timer interrupt and     *)
(* device interrupts are SleepFire, TimeoutFire, TickExit and DeviceExit.  *)
(*                                                                         *)
(* A timeout that fires late leaves a critical section of the thread it    *)
(* interrupts entered for good.  That thread runs on, with interrupts, and *)
(* the model with it; but the next kernel call it makes disables nothing,  *)
(* and an interrupt may cut it anywhere.  With that call (EnterUnmasked)   *)
(* the model ends: it says what the scheduler does up to there.            *)
(***************************************************************************)
EXTENDS Integers, FiniteSets, SequencesExt

CONSTANTS
  Threads,          \* every thread structure, the bootstrap/idle one included
  Idle,             \* the bootstrap thread once it has become the idle thread
  Priorities,       \* the priorities in use, a set of numbers
  IdlePriority,     \* IDLE_PRIORITY
  StartPriority,    \* the priority argument of thread_create, by thread
  SettablePriorities, \* arguments of thread_set_priority to explore
  BootThreads,      \* threads already resumed when the idle loop starts
  Slice,            \* the quantum given to a thread (5 ticks in the code)
  Queues,           \* wait queues
  NoQueue,
  NoThread,
  ExclusiveResume,  \* TRUE: a thread is resumed once, by one thread, as every
                    \* call site does; FALSE: by anyone at any time
  MaxLeaks          \* bound on critical-section counts leaked into a thread

\* Priorities are numbers; the idle priority is the lowest.
ASSUME PriorityAssumption ==
  /\ Priorities \subseteq Nat
  /\ IdlePriority \in Priorities
  /\ \A p \in Priorities : IdlePriority <= p
  /\ SettablePriorities \subseteq Priorities

\* run_queue_bitmap has a highest bit whenever it has a bit.
ASSUME TopAssumption ==
  \A S \in SUBSET Priorities : S # {} => \E p \in S : \A q \in S : q <= p

ASSUME ThreadAssumption ==
  /\ Idle \in Threads
  /\ NoThread \notin Threads
  /\ StartPriority \in [Threads -> Priorities]
  /\ BootThreads \subseteq Threads \ {Idle}
  /\ \A t, u \in BootThreads : StartPriority[t] = StartPriority[u] => t = u
  /\ Slice \in Nat \ {0}
  /\ NoQueue \notin Queues
  /\ MaxLeaks \in Nat
  /\ ExclusiveResume \in BOOLEAN

VARIABLES
  k,        \* scheduler: cur, state, prio, quantum, runq, bitmap
  wq,       \* wait queues: list, count; and per thread blockq, ret
  cs,       \* critical_section_count for k.cur, the saved count for the others
  ints,     \* IRQs are enabled in the CPSR
  at,       \* where the kernel call of each thread stands
  frame,    \* the arguments of each thread's wait_queue_block in progress
  timer,    \* what the timer on each thread's stack is armed for
  target,   \* the thread each thread is about to make ready in thread_resume
  drain     \* the loop of wait_queue_wake_all in progress

tvars == <<k, wq, cs, ints, at, frame, timer, target, drain>>

States == {"none", "suspended", "ready", "running", "blocked", "sleeping", "death"}
Results == {"ok", "timeout", "destroyed"}
Switched == {"fresh", "yield", "sleep", "resume", "wake", "preempt"}
Places == Switched \cup {"user", "block", "waking", "exit", "tick", "device", "unmasked"}
NoFrame == [q |-> NoQueue, timed |-> FALSE]
NoDrain == [q |-> NoQueue, err |-> "ok"]

-----------------------------------------------------------------------------
(* Run queues.                                                             *)

SetState(s, t, x) == [s EXCEPT !.state[t] = x]

InsertHead(s, t) ==
  LET p == s.prio[t]
  IN  [s EXCEPT !.runq[p] = <<t>> \o @, !.bitmap = @ \cup {p}]

\* Mutant of InsertTail: run_queue_bitmap is not set.
InsertTailNoBit(s, t) == [s EXCEPT !.runq[s.prio[t]] = Append(@, t)]

InsertTail(s, t) ==
  LET p == s.prio[t]
  IN  [s EXCEPT !.runq[p] = Append(@, t), !.bitmap = @ \cup {p}]

\* Mutant of TopPriority: the lowest bit of the bitmap.
BottomPriority(s) == CHOOSE p \in s.bitmap : \A q \in s.bitmap : p <= q

TopPriority(s) == CHOOSE p \in s.bitmap : \A q \in s.bitmap : q <= p

\* Mutant of Resched: every thread switched in is given a whole quantum more.
ReschedAddsQuantum(s) ==
  LET p == TopPriority(s)
      new == Head(s.runq[p])
  IN  [s EXCEPT !.runq[p] = Tail(@),
                !.bitmap = IF Len(s.runq[p]) = 1 THEN @ \ {p} ELSE @,
                !.state[new] = "running",
                !.quantum[new] = IF new # s.cur THEN @ + Slice ELSE @,
                !.cur = new]

\* thread_resched: the head of the highest non-empty queue becomes current.
Resched(s) ==
  LET p == TopPriority(s)
      new == Head(s.runq[p])
      rest == Tail(s.runq[p])
      consumed == new # s.cur /\ s.quantum[new] = 0
  IN  [s EXCEPT !.runq[p] = rest,
                !.bitmap = IF rest = <<>> THEN @ \ {p} ELSE @,
                !.state[new] = "running",
                !.quantum[new] = IF consumed THEN Slice ELSE @,
                !.cur = new]

Yielded(s) ==
  Resched(InsertTail([SetState(s, s.cur, "ready") EXCEPT !.quantum[s.cur] = 0], s.cur))

\* Mutant of Preempted: the thread is queued but not marked ready.
PreemptedStillRunning(s) ==
  Resched(IF s.quantum[s.cur] > 0 THEN InsertHead(s, s.cur) ELSE InsertTail(s, s.cur))

\* thread_preempt: back to the head, or to the tail when the quantum is used up.
Preempted(s) ==
  LET r == SetState(s, s.cur, "ready")
  IN  Resched(IF s.quantum[s.cur] > 0 THEN InsertHead(r, s.cur) ELSE InsertTail(r, s.cur))

\* Mutant of Ticked: the quantum is never charged.
TickedForFree(s) == s

\* thread_timer_tick; a quantum below zero counts as zero.
Ticked(s) ==
  [s EXCEPT !.quantum[s.cur] = IF s.cur = Idle \/ @ = 0 THEN @ ELSE @ - 1]

MadeReady(s, t) == InsertHead(SetState(s, t, "ready"), t)

-----------------------------------------------------------------------------
(* Wait queues.                                                            *)

\* Mutants of PushWaiter: blocking_wait_queue is not set; the newest waiter is
\* put first.
PushWaiterUnrecorded(w, q, t) ==
  [w EXCEPT !.list[q] = Append(@, t), !.count[q] = @ + 1, !.ret[t] = "ok"]

PushWaiterFirst(w, q, t) ==
  [w EXCEPT !.list[q] = <<t>> \o @, !.count[q] = @ + 1,
            !.blockq[t] = q, !.ret[t] = "ok"]

PushWaiter(w, q, t) ==
  [w EXCEPT !.list[q] = Append(@, t), !.count[q] = @ + 1,
            !.blockq[t] = q, !.ret[t] = "ok"]

PopWaiter(w, q, err) ==
  [w EXCEPT !.list[q] = Tail(@), !.count[q] = @ - 1,
            !.blockq[Head(w.list[q])] = NoQueue, !.ret[Head(w.list[q])] = err]

\* Mutant of UnlinkWaiter: a timeout forgets wait->count.
UnlinkWaiterUncounted(w, t, err) ==
  LET q == w.blockq[t]
      i == CHOOSE j \in DOMAIN w.list[q] : w.list[q][j] = t
  IN  [w EXCEPT !.list[q] = RemoveAt(@, i), !.blockq[t] = NoQueue, !.ret[t] = err]

\* list_delete of a thread somewhere in the queue it is blocked on.
UnlinkWaiter(w, t, err) ==
  LET q == w.blockq[t]
      i == CHOOSE j \in DOMAIN w.list[q] : w.list[q][j] = t
  IN  [w EXCEPT !.list[q] = RemoveAt(@, i), !.count[q] = @ - 1,
                !.blockq[t] = NoQueue, !.ret[t] = err]

-----------------------------------------------------------------------------
(* Entering and leaving the kernel.                                        *)

\* The critical sections a thread has still to leave at each place.
Nest(place) ==
  CASE place = "user" -> 0
    [] place \in {"fresh", "yield", "sleep", "wake", "waking", "exit", "tick", "device",
                  "unmasked"} -> 1
    [] OTHER -> 2

\* The current thread runs its own code; the idle thread calls nothing.
InThread == at[k.cur] = "user" /\ k.cur # Idle

\* A call it makes now runs with interrupts disabled, and so in one piece.
Caller == InThread /\ cs[k.cur] = 0

\* The current thread enters n critical sections and goes to a place.
EnterKernel(place) ==
  /\ at' = [at EXCEPT ![k.cur] = place]
  /\ cs' = [cs EXCEPT ![k.cur] = @ + Nest(place)]
  /\ ints' = (ints /\ cs[k.cur] # 0)

\* exit_critical_section enables interrupts when the count comes to zero; an
\* interrupted thread gets back the CPSR it was interrupted with.
LeaveKernel ==
  LET place == at[k.cur]
      left == cs[k.cur] - Nest(place)
  IN  /\ at' = [at EXCEPT ![k.cur] = "user"]
      /\ cs' = [cs EXCEPT ![k.cur] = left]
      /\ ints' = (ints \/ left = 0 \/ place \in {"preempt", "tick", "device"})

\* Back from the thread_resched of a call, from the interrupt, or from the loop
\* of wait_queue_wake_all.
Return ==
  /\ drain.q = NoQueue
  /\ at[k.cur] \in Switched \cup {"waking"}
  /\ LeaveKernel
  /\ UNCHANGED <<k, wq, frame, timer, target, drain>>

\* A call by a thread with a leaked count: enter_critical_section counts from
\* one to two and disables nothing.
EnterUnmasked ==
  /\ InThread
  /\ cs[k.cur] # 0
  /\ EnterKernel("unmasked")
  /\ UNCHANGED <<k, wq, frame, timer, target, drain>>

\* From there on a call can be interrupted anywhere: the model goes no further.
Unmasked == at[k.cur] = "unmasked" /\ UNCHANGED tvars

-----------------------------------------------------------------------------
(* Thread operations.                                                      *)

\* thread_create, by a caller that goes on to thread_resume.
Create(t) ==
  /\ Caller
  /\ k.state[t] = "none"
  /\ k' = [k EXCEPT !.state[t] = "suspended", !.prio[t] = StartPriority[t],
                    !.quantum[t] = 0]
  /\ wq' = [wq EXCEPT !.blockq[t] = NoQueue, !.ret[t] = "ok"]
  /\ cs' = [cs EXCEPT ![t] = 1]
  /\ at' = [at EXCEPT ![t] = "fresh"]
  /\ UNCHANGED <<ints, frame, timer, target, drain>>

\* The test at the head of thread_resume, outside the critical section.
ResumeCheck(t) ==
  /\ InThread
  /\ target[k.cur] = NoThread
  /\ k.state[t] \notin {"none", "death", "ready", "running"}
  /\ ExclusiveResume => k.state[t] = "suspended" /\ \A u \in Threads : target[u] # t
  /\ target' = [target EXCEPT ![k.cur] = t]
  /\ UNCHANGED <<k, wq, cs, ints, at, frame, timer, drain>>

\* The rest of thread_resume: make it ready, then thread_yield.
Resume ==
  /\ Caller
  /\ target[k.cur] # NoThread
  /\ k' = Yielded(MadeReady(k, target[k.cur]))
  /\ target' = [target EXCEPT ![k.cur] = NoThread]
  /\ EnterKernel("resume")
  /\ UNCHANGED <<wq, frame, timer, drain>>

Yield ==
  /\ Caller
  /\ k' = Yielded(k)
  /\ EnterKernel("yield")
  /\ UNCHANGED <<wq, frame, timer, target, drain>>

Sleep ==
  /\ Caller
  /\ timer' = [timer EXCEPT ![k.cur] = "sleep"]
  /\ k' = Resched(SetState(k, k.cur, "sleeping"))
  /\ EnterKernel("sleep")
  /\ UNCHANGED <<wq, frame, target, drain>>

\* thread_set_priority: only of the running thread, which is in no run queue.
SetPriority(p) ==
  /\ InThread
  /\ k' = [k EXCEPT !.prio[k.cur] = p]
  /\ UNCHANGED <<wq, cs, ints, at, frame, timer, target, drain>>

-----------------------------------------------------------------------------
(* Wait queue operations.  The caller is in a critical section of its own. *)

\* wait_queue_block with a nonzero timeout; timed: it is not INFINITE_TIME.
Block(q, timed) ==
  /\ Caller
  /\ wq' = PushWaiter(wq, q, k.cur)
  /\ k' = Resched(SetState(k, k.cur, "blocked"))
  /\ timer' = [timer EXCEPT ![k.cur] = IF timed THEN "wait" ELSE @]
  /\ frame' = [frame EXCEPT ![k.cur] = [q |-> q, timed |-> timed]]
  /\ EnterKernel("block")
  /\ UNCHANGED <<target, drain>>

\* Mutant of BlockReturn: the timer on the stack is not cancelled.
BlockReturnTimerOn(q) ==
  /\ drain.q = NoQueue
  /\ at[k.cur] = "block"
  /\ frame[k.cur].q = q
  /\ frame' = [frame EXCEPT ![k.cur] = NoFrame]
  /\ LeaveKernel
  /\ UNCHANGED <<k, wq, timer, target, drain>>

\* Woken: cancel the timer and return wait_queue_block_ret.
BlockReturn(q) ==
  /\ drain.q = NoQueue
  /\ at[k.cur] = "block"
  /\ frame[k.cur].q = q
  /\ timer' = [timer EXCEPT ![k.cur] = IF frame[k.cur].timed THEN "off" ELSE @]
  /\ frame' = [frame EXCEPT ![k.cur] = NoFrame]
  /\ LeaveKernel
  /\ UNCHANGED <<k, wq, target, drain>>

\* wait_queue_wake_one when the queue is not empty.
WakeOne(q, reschedule, err) ==
  LET t == Head(wq.list[q])
  IN  /\ wq.list[q] # <<>>
      /\ wq' = PopWaiter(wq, q, err)
      /\ IF reschedule
         THEN /\ k' = Resched(MadeReady(MadeReady(k, k.cur), t))
              /\ EnterKernel("wake")
         ELSE /\ k' = MadeReady(k, t)
              /\ UNCHANGED <<at, cs, ints>>
      /\ UNCHANGED <<frame, timer, target, drain>>

\* wait_queue_wake_all up to its loop, when there is a waiter; a thread is in
\* its critical section for the whole of the loop, an interrupt handler is in
\* that of the interrupt.
WakeAll(q, reschedule, err) ==
  /\ wq.count[q] > 0
  /\ drain' = [q |-> q, err |-> err]
  /\ k' = IF reschedule THEN MadeReady(k, k.cur) ELSE k
  /\ IF at[k.cur] = "device"
     THEN UNCHANGED <<at, cs, ints>>
     ELSE EnterKernel(IF reschedule THEN "wake" ELSE "waking")
  /\ UNCHANGED <<wq, frame, timer, target>>

\* One round of that loop; after the last one the deferred thread_resched.
Drain ==
  LET q == drain.q
      woken == MadeReady(k, Head(wq.list[q]))
      last == Len(wq.list[q]) = 1
  IN  /\ q # NoQueue
      /\ wq.list[q] # <<>>
      /\ wq' = PopWaiter(wq, q, drain.err)
      /\ k' = IF last /\ at[k.cur] \in {"wake", "exit"} THEN Resched(woken) ELSE woken
      /\ drain' = IF last THEN NoDrain ELSE drain
      /\ UNCHANGED <<cs, ints, at, frame, timer, target>>

-----------------------------------------------------------------------------
(* Interrupts.                                                             *)

\* arm_irq up to the handler: "tick" is the 1 ms timer, "device" any other.  It
\* is taken whenever interrupts are enabled, as far as the model goes.
IrqEnter(source) ==
  /\ ints
  /\ at[k.cur] # "unmasked"
  /\ at' = [at EXCEPT ![k.cur] = source]
  /\ cs' = [cs EXCEPT ![k.cur] = @ + 1]
  /\ ints' = FALSE
  /\ UNCHANGED <<k, wq, frame, timer, target, drain>>

\* A due timer of thread t: thread_sleep_handler.
SleepFire(t) ==
  /\ at[k.cur] = "tick"
  /\ timer[t] = "sleep"
  /\ k' = MadeReady(k, t)
  /\ timer' = [timer EXCEPT ![t] = "off"]
  /\ UNCHANGED <<wq, cs, ints, at, frame, target, drain>>

\* Mutant of TimeoutFire: the result is stored before the thread is looked at.
TimeoutFireStoresFirst(t) ==
  /\ at[k.cur] = "tick"
  /\ timer[t] = "wait"
  /\ timer' = [timer EXCEPT ![t] = "off"]
  /\ IF k.state[t] = "blocked"
     THEN wq' = UnlinkWaiter(wq, t, "timeout") /\ k' = MadeReady(k, t)
     ELSE wq' = [wq EXCEPT !.ret[t] = "timeout"] /\ UNCHANGED k
  /\ UNCHANGED <<cs, ints, at, frame, target, drain>>

\* A due timer of thread t: wait_queue_timeout_handler, which calls
\* thread_unblock_from_wait_queue.  When t is no longer blocked that function
\* returns without leaving the critical section it has entered.
TimeoutFire(t) ==
  /\ at[k.cur] = "tick"
  /\ timer[t] = "wait"
  /\ timer' = [timer EXCEPT ![t] = "off"]
  /\ IF k.state[t] = "blocked"
     THEN /\ wq' = UnlinkWaiter(wq, t, "timeout")
          /\ k' = MadeReady(k, t)
          /\ UNCHANGED cs
     ELSE /\ cs[k.cur] <= MaxLeaks
          /\ cs' = [cs EXCEPT ![k.cur] = @ + 1]
          /\ UNCHANGED <<k, wq>>
  /\ UNCHANGED <<ints, at, frame, target, drain>>

\* The end of the tick: the quantum is charged and thread_preempt runs.
TickExit ==
  /\ at[k.cur] = "tick"
  /\ k' = Preempted(Ticked(k))
  /\ at' = [at EXCEPT ![k.cur] = "preempt"]
  /\ cs' = [cs EXCEPT ![k.cur] = @ + 1]
  /\ UNCHANGED <<wq, ints, frame, timer, target, drain>>

\* The end of a device interrupt; its handler may ask for a reschedule.
DeviceExit(reschedule) ==
  /\ at[k.cur] = "device"
  /\ drain.q = NoQueue
  /\ IF reschedule
     THEN /\ k' = Preempted(k)
          /\ at' = [at EXCEPT ![k.cur] = "preempt"]
          /\ cs' = [cs EXCEPT ![k.cur] = @ + 1]
          /\ UNCHANGED ints
     ELSE LeaveKernel /\ UNCHANGED k
  /\ UNCHANGED <<wq, frame, timer, target, drain>>

-----------------------------------------------------------------------------
(* kmain: the bootstrap thread has resumed the boot threads, left its      *)
(* critical section and become the idle thread.                            *)
ThreadInit ==
  /\ k = [cur      |-> Idle,
          state    |-> [t \in Threads |->
                         IF t = Idle THEN "running"
                         ELSE IF t \in BootThreads THEN "ready" ELSE "none"],
          prio     |-> [t \in Threads |->
                         IF t = Idle THEN IdlePriority ELSE StartPriority[t]],
          quantum  |-> [t \in Threads |-> 0],
          runq     |-> [p \in Priorities |->
                         IF \E t \in BootThreads : StartPriority[t] = p
                         THEN <<CHOOSE t \in BootThreads : StartPriority[t] = p>>
                         ELSE <<>>],
          bitmap   |-> {StartPriority[t] : t \in BootThreads}]
  /\ wq = [list   |-> [q \in Queues |-> <<>>],
           count  |-> [q \in Queues |-> 0],
           blockq |-> [t \in Threads |-> NoQueue],
           ret    |-> [t \in Threads |-> "ok"]]
  /\ cs = [t \in Threads |-> IF t \in BootThreads THEN 1 ELSE 0]
  /\ ints = TRUE
  /\ at = [t \in Threads |-> IF t \in BootThreads THEN "fresh" ELSE "user"]
  /\ frame = [t \in Threads |-> NoFrame]
  /\ timer = [t \in Threads |-> "off"]
  /\ target = [t \in Threads |-> NoThread]
  /\ drain = NoDrain

\* Calls a thread may make at any time.
ThreadCalls ==
  \/ \E t \in Threads : Create(t) \/ ResumeCheck(t)
  \/ Resume \/ Yield \/ Sleep \/ EnterUnmasked
  \/ \E p \in SettablePriorities : SetPriority(p)

\* What the kernel does by itself: the far side of switches, and interrupts.
KernelSteps ==
  \/ Return \/ Drain \/ TickExit \/ Unmasked
  \/ \E source \in {"tick", "device"} : IrqEnter(source)
  \/ \E t \in Threads : SleepFire(t) \/ TimeoutFire(t)
  \/ \E reschedule \in BOOLEAN : DeviceExit(reschedule)

Core == ThreadCalls \/ KernelSteps

\* Clients that use wait queues directly, from threads and device interrupts.
\* wait_queue_destroy wakes all with ERR_OBJECT_DESTROYED; a queue of that name
\* that is used later is one that has been initialised again.
WaitClient ==
  \E q \in Queues :
    \/ \E timed \in BOOLEAN : Block(q, timed)
    \/ BlockReturn(q)
    \/ /\ Caller
       /\ \E reschedule \in BOOLEAN :
            \/ WakeOne(q, reschedule, "ok")
            \/ \E err \in {"ok", "destroyed"} : WakeAll(q, reschedule, err)
    \/ /\ at[k.cur] = "device" /\ drain.q = NoQueue
       /\ WakeOne(q, FALSE, "ok") \/ WakeAll(q, FALSE, "ok")

ThreadNext == Core \/ WaitClient

ThreadSpec == ThreadInit /\ [][ThreadNext]_tvars

\* What the hardware and the interrupt glue guarantee.  The timer interrupt
\* stays pending in the controller while interrupts are off, so a tick that can
\* be taken again and again is taken; a timer whose time has come is run by
\* some later tick; and the code behind a switch or an interrupt always runs on.
KernelFairness ==
  /\ SF_tvars(IrqEnter("tick"))
  /\ \A t \in Threads : SF_tvars(SleepFire(t) \/ TimeoutFire(t))
  /\ WF_tvars(Return \/ Drain \/ TickExit)
  /\ WF_tvars(\E q \in Queues : BlockReturn(q))
  /\ WF_tvars(\E reschedule \in BOOLEAN : DeviceExit(reschedule))

FairThreadSpec == ThreadSpec /\ KernelFairness

-----------------------------------------------------------------------------
(* Properties: of what happens up to the first kernel call that a thread    *)
(* makes with a leaked count, EnterUnmasked.                                *)

Sched == [cur : Threads, state : [Threads -> States], prio : [Threads -> Priorities],
          quantum : [Threads -> 0..Slice], runq : [Priorities -> Seq(Threads)],
          bitmap : SUBSET Priorities]

Waits == [list : [Queues -> Seq(Threads)], count : [Queues -> Int],
          blockq : [Threads -> Queues \cup {NoQueue}], ret : [Threads -> Results]]

\* Type invariant.
TypeOK ==
  /\ k \in Sched
  /\ wq \in Waits
  /\ cs \in [Threads -> Int]
  /\ ints \in BOOLEAN
  /\ at \in [Threads -> Places]
  /\ frame \in [Threads -> [q : Queues \cup {NoQueue}, timed : BOOLEAN]]
  /\ timer \in [Threads -> {"off", "sleep", "wait"}]
  /\ target \in [Threads -> Threads \cup {NoThread}]
  /\ drain \in [q : Queues \cup {NoQueue}, err : Results]

Listed(t, list) == \E i \in DOMAIN list : list[i] = t
Once(list) == \A i, j \in DOMAIN list : list[i] = list[j] => i = j

RunqMatch(s) ==
  /\ \A p \in Priorities, t \in Threads :
       Listed(t, s.runq[p]) <=> s.state[t] = "ready" /\ s.prio[t] = p
  /\ \A p \in Priorities : Once(s.runq[p])
  /\ s.bitmap = {p \in Priorities : s.runq[p] # <<>>}

WaitMatch(state, w) ==
  /\ \A q \in Queues, t \in Threads :
       Listed(t, w.list[q]) <=> state[t] = "blocked" /\ w.blockq[t] = q
  /\ \A q \in Queues : Once(w.list[q]) /\ w.count[q] = Len(w.list[q])

\* The one queue_node of a thread is on the run queue of its priority exactly
\* while the thread is ready, and once only; the bitmap that thread_resched
\* trusts has a bit for each run queue that is not empty, and no other.
RunQueuesMatch == RunqMatch(k)

\* A thread is on a wait queue exactly while it is blocked on it, once only,
\* and wait->count, which wait_queue_wake_all tests, is the length of the list.
WaitQueuesMatch == WaitMatch(k.state, wq)

\* The current thread runs, except while it wakes the waiters of a queue and
\* has already put itself back on its run queue (or died); such a queue is not
\* empty.  The idle thread is always running or ready, so thread_resched always
\* finds a thread ("should at least find the idle thread").
CpuAccounted ==
  /\ \A t \in Threads : k.state[t] = "running" => t = k.cur
  /\ drain.q = NoQueue => k.state[k.cur] = "running"
  /\ drain.q # NoQueue =>
       /\ wq.list[drain.q] # <<>>
       /\ \/ at[k.cur] \in {"waking", "device"} /\ k.state[k.cur] = "running"
          \/ at[k.cur] = "wake" /\ k.state[k.cur] = "ready"
          \/ at[k.cur] = "exit" /\ k.state[k.cur] = "death"
  /\ k.state[Idle] \in {"running", "ready"}

\* The timers of thread_sleep and wait_queue_block live on the stack of the
\* call: none is left armed when the call has returned, and a sleeping thread
\* always has one that will wake it.
StackTimersDisarmed ==
  \A t \in Threads :
    /\ timer[t] = "sleep" <=> k.state[t] = "sleeping"
    /\ timer[t] = "wait" => at[t] = "block" /\ frame[t].timed

\* A blocked thread is inside wait_queue_block on the queue that the kernel has
\* recorded, a thread inside it is blocked or on its way out, and a thread that
\* is about to be resumed is still suspended and has one resumer.
CallsMatch ==
  /\ \A t \in Threads :
       /\ k.state[t] = "blocked" => frame[t].q = wq.blockq[t] /\ frame[t].q # NoQueue
       /\ at[t] = "block" <=> frame[t].q # NoQueue
       /\ at[t] = "block" => k.state[t] \in {"blocked", "ready", "running"}
  /\ \A t, u \in Threads : target[t] = u => k.state[u] = "suspended"
  /\ \A t, u \in Threads : target[t] = target[u] => t = u \/ target[t] = NoThread

\* Interrupts are disabled in every kernel call, except the one with which the
\* model ends: so an interrupt finds the current thread in its own code, and
\* the steps in which the model lets a call run are those the call has.
CallsMasked == ints => at[k.cur] \in {"user", "unmasked"}

\* The inductive invariant of the scheduler.
ThreadInv ==
  /\ TypeOK /\ RunQueuesMatch /\ WaitQueuesMatch
  /\ CpuAccounted /\ StackTimersDisarmed /\ CallsMatch /\ CallsMasked

\* A thread woken from a wait queue gets the result of what woke it: until it
\* has run, no wake-up, timeout or destruction that comes after it changes the
\* result or wakes it again.  (Of a timeout that comes after it this is said up
\* to the next kernel call of the thread whose critical section it leaks.)
WokenOnce ==
  [][\A t \in Threads :
       (at[t] = "block" /\ k.state[t] = "ready") =>
         /\ wq'.ret[t] = wq.ret[t]
         /\ k'.state[t] \in {"ready", "running"}]_tvars

\* Every tick leaves the CPU with a thread of the highest ready priority,
\* whatever the timers of that tick have woken.
TickRunsHighest ==
  [][(at[k.cur] = "tick" /\ at'[k.cur] # "tick") =>
       \A t \in Threads : k'.state[t] = "ready" => k'.prio[t] <= k'.prio[k'.cur]]_tvars

\* The current thread is in no critical section but those of its calls.
NothingLeaked == cs[k.cur] = Nest(at[k.cur])

\* enter_critical_section, "disable ints" (lib/debug/debug.c): no thread is in
\* the middle of a kernel call with interrupts enabled.
CriticalSectionDisablesInts == at[k.cur] # "user" => ~ints

\* Round robin: a thread ready to run runs, however long the others of its
\* priority compute, and although one that is preempted or woken goes to the
\* head of the queue, since a quantum that ticks have used up sends its owner
\* to the tail.  (Unless a thread makes a call with a leaked critical section.)
ReadyThreadsRun ==
  []CriticalSectionDisablesInts =>
    \A t \in Threads \ {Idle} : k.state[t] = "ready" ~> k.state[t] = "running"
=============================================================================
