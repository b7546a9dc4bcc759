--------------------------------- MODULE Dpc ---------------------------------
(***************************************************************************)
(* Deferred procedure calls (kernel/dpc.c) and thread_exit, which leaves   *)
(* the freeing of its own stack to one.  The dpc thread waits on a manual  *)
(* event, takes one call at a time, and clears the event only when it has  *)
(* found the list empty.                                                   *)
(***************************************************************************)
EXTENDS Event

CONSTANTS
  DpcThread,  \* runs dpc_thread_routine
  DpcEvent,   \* dpc_event
  Callback,   \* a deferred call that is not thread_cleanup_dpc
  MaxJobs     \* bound on the list when a client queues a Callback

ASSUME DpcAssumption ==
  /\ DpcThread \in BootThreads
  /\ DpcEvent \in Events \ AutoUnsignal
  /\ Callback \notin Threads
  /\ MaxJobs \in Nat

VARIABLES
  jobs,   \* dpc_list: Callback, or t for thread_cleanup_dpc of t
  loop    \* the dpc thread: where in its loop, and the call it has taken

dvars == <<k, wq, cs, ints, at, frame, timer, target, drain, ev, credit, jobs, loop>>

DpcInit ==
  /\ EventInit
  /\ jobs = <<>>
  /\ loop = [pc |-> "wait", job |-> Callback]

\* dpc_queue of a Callback, by a thread or (never rescheduling) an interrupt.
\* The list grows first; an event already signalled stays so.
DpcQueue(reschedule) ==
  /\ Len(jobs) < MaxJobs
  /\ jobs' = Append(jobs, Callback)
  /\ \/ Signal(DpcEvent, reschedule)
     \/ ev.signalled[DpcEvent] /\ UNCHANGED <<tvars, evvars>>
  /\ UNCHANGED loop

\* Mutant of Exit: the cleanup is put on the list, the event is not signalled.
ExitSilently ==
  /\ Caller
  /\ k.cur # DpcThread
  /\ target[k.cur] = NoThread
  /\ jobs' = Append(jobs, k.cur)
  /\ EnterKernel("exit")
  /\ k' = Resched(SetState(k, k.cur, "death"))
  /\ UNCHANGED <<wq, frame, timer, target, drain, evvars, loop>>

\* thread_exit: die, queue thread_cleanup_dpc with DPC_FLAG_NORESCHED, switch
\* away for good.  When the dpc thread has to be woken the switch is at the
\* end of the loop that wakes it.
Exit ==
  /\ Caller
  /\ k.cur # DpcThread
  /\ target[k.cur] = NoThread
  /\ jobs' = Append(jobs, k.cur)
  /\ EnterKernel("exit")
  /\ ev' = [ev EXCEPT !.signalled[DpcEvent] = TRUE]
  /\ LET dead == SetState(k, k.cur, "death")
     IN  IF ~ev.signalled[DpcEvent] /\ wq.list[DpcEvent] # <<>>
         THEN k' = dead /\ drain' = [q |-> DpcEvent, err |-> "ok"]
         ELSE k' = Resched(dead) /\ UNCHANGED drain
  /\ UNCHANGED <<wq, frame, timer, target, credit, loop>>

\* event_wait(&dpc_event).
LoopWait ==
  /\ Caller
  /\ k.cur = DpcThread
  /\ loop.pc = "wait"
  /\ WaitPass(DpcEvent) \/ WaitBlock(DpcEvent, FALSE)
  /\ loop' = [loop EXCEPT !.pc = "take"]
  /\ UNCHANGED jobs

\* Mutants of LoopTake: the call is run without a test for an empty list; the
\* head is looked at and not removed; the event is cleared whatever is left.
LoopTakeUntested ==
  /\ Caller
  /\ k.cur = DpcThread
  /\ loop.pc = "take"
  /\ jobs' = IF jobs = <<>> THEN <<>> ELSE Tail(jobs)
  /\ loop' = [pc |-> "run", job |-> IF jobs = <<>> THEN NoThread ELSE Head(jobs)]
  /\ UNCHANGED <<tvars, evvars>>

LoopTakePeeks ==
  /\ Caller
  /\ k.cur = DpcThread
  /\ loop.pc = "take"
  /\ IF jobs # <<>>
     THEN loop' = [pc |-> "run", job |-> Head(jobs)] /\ UNCHANGED ev
     ELSE /\ ev' = [ev EXCEPT !.signalled[DpcEvent] = FALSE]
          /\ loop' = [loop EXCEPT !.pc = "wait"]
  /\ UNCHANGED <<tvars, credit, jobs>>

LoopTakeClears ==
  /\ Caller
  /\ k.cur = DpcThread
  /\ loop.pc = "take"
  /\ ev' = [ev EXCEPT !.signalled[DpcEvent] = FALSE]
  /\ IF jobs # <<>>
     THEN jobs' = Tail(jobs) /\ loop' = [pc |-> "run", job |-> Head(jobs)]
     ELSE UNCHANGED jobs /\ loop' = [loop EXCEPT !.pc = "wait"]
  /\ UNCHANGED <<tvars, credit>>

\* One critical section: take the head of the list, or clear the event.
LoopTake ==
  /\ Caller
  /\ k.cur = DpcThread
  /\ loop.pc = "take"
  /\ IF jobs # <<>>
     THEN /\ jobs' = Tail(jobs)
          /\ loop' = [pc |-> "run", job |-> Head(jobs)]
          /\ UNCHANGED ev
     ELSE /\ ev' = [ev EXCEPT !.signalled[DpcEvent] = FALSE]
          /\ loop' = [loop EXCEPT !.pc = "wait"]
          /\ UNCHANGED jobs
  /\ UNCHANGED <<tvars, credit>>

\* The call: thread_cleanup_dpc frees the stack and the thread structure.
LoopRun ==
  /\ Caller
  /\ k.cur = DpcThread
  /\ loop.pc = "run"
  /\ k' = IF loop.job = Callback THEN k ELSE SetState(k, loop.job, "none")
  /\ loop' = [pc |-> "wait", job |-> Callback]
  /\ UNCHANGED <<wq, cs, ints, at, frame, timer, target, drain, ev, credit, jobs>>

DpcLoop == LoopWait \/ LoopTake \/ LoopRun

DpcNext ==
  \/ k.cur # DpcThread /\ ThreadCalls /\ UNCHANGED <<ev, credit, jobs, loop>>
  \/ KernelSteps /\ UNCHANGED <<ev, credit, jobs, loop>>
  \/ WaitReturn(DpcEvent) /\ UNCHANGED <<jobs, loop>>
  \/ Caller /\ k.cur # DpcThread /\ \E reschedule \in BOOLEAN : DpcQueue(reschedule)
  \/ DeviceHandler /\ DpcQueue(FALSE)
  \/ Exit
  \/ DpcLoop

DpcSpec == DpcInit /\ [][DpcNext]_dvars

\* The hardware and the interrupt glue run on, and the dpc thread, whenever it
\* is given the CPU again and again, gets through the next step of its loop.
DpcFairness ==
  /\ SF_dvars(IrqEnter("tick") /\ UNCHANGED <<ev, credit, jobs, loop>>)
  /\ WF_dvars((Return \/ Drain \/ TickExit) /\ UNCHANGED <<ev, credit, jobs, loop>>)
  /\ WF_dvars(\E reschedule \in BOOLEAN :
                DeviceExit(reschedule) /\ UNCHANGED <<ev, credit, jobs, loop>>)
  /\ WF_dvars(WaitReturn(DpcEvent) /\ UNCHANGED <<jobs, loop>>)
  /\ SF_dvars(DpcLoop)

FairDpcSpec == DpcSpec /\ DpcFairness

-----------------------------------------------------------------------------
(* Properties.                                                             *)

\* Type invariant of the deferred calls.
DpcTypeOK ==
  /\ jobs \in Seq(Threads \cup {Callback})
  /\ loop \in [pc : {"wait", "take", "run"}, job : Threads \cup {Callback}]

Pending(t) == Listed(t, jobs) \/ (loop.pc = "run" /\ loop.job = t)

\* A dead thread's memory is freed exactly once: its cleanup is pending once
\* while it is dead, and a thread that is alive or already freed has none; and
\* when it is freed nothing in the kernel refers to it (the three assertions
\* of thread_cleanup_dpc).
DeadPendOnce ==
  /\ \A t \in Threads : k.state[t] = "death" <=> Pending(t)
  /\ \A i, j \in DOMAIN jobs : jobs[i] = jobs[j] => i = j \/ jobs[i] = Callback
  /\ \A t \in Threads : loop.pc = "run" /\ loop.job = t => ~Listed(t, jobs)
  /\ \A t \in Threads : k.state[t] \in {"death", "none"} =>
       /\ timer[t] = "off" /\ wq.blockq[t] = NoQueue
       /\ \A p \in Priorities : ~Listed(t, k.runq[p])

\* No deferred call is forgotten: the dpc thread never sleeps on its event
\* while the list holds a call, whoever queued it and whenever.
DpcThreadAwake ==
  jobs # <<>> /\ drain.q = NoQueue => k.state[DpcThread] # "blocked"

\* Every thread that exits is freed in the end, whatever the others do.
DeadAreFreed ==
  \A t \in Threads : k.state[t] = "death" ~> k.state[t] = "none"
=============================================================================
