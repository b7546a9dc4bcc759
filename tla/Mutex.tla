-------------------------------- MODULE Mutex --------------------------------
(***************************************************************************)
(* Mutexes (kernel/mutex.c) on top of the scheduler.  m->wait is the wait  *)
(* queue that has the name of the mutex.  A call that finds the mutex free *)
(* is one action; a call that blocks is one action up to the switch and    *)
(* one, AcquireReturn, for what the thread does when it is back.           *)
(* As in Thread, the model ends with the first kernel call that a thread   *)
(* makes with a critical section leaked by a late timeout: EnterUnmasked.  *)
(***************************************************************************)
EXTENDS Thread

CONSTANTS
  Mutexes,        \* the mutexes, each also the name of its wait queue
  AcquireModes,   \* FALSE: mutex_acquire, TRUE: mutex_acquire_timeout
  MayDestroy      \* whether mutex_destroy is called

ASSUME MutexAssumption ==
  /\ Mutexes \subseteq Queues
  /\ IsFiniteSet(Threads)
  /\ AcquireModes \subseteq BOOLEAN
  /\ MayDestroy \in BOOLEAN

VARIABLES
  mtx,  \* alive (the magic number), count and holder of each mutex
  own   \* history: the threads that were told NO_ERROR and have not released

mvars == <<k, wq, cs, ints, at, frame, timer, target, drain, mtx, own>>

\* Mutant of MutexInit: mutex_init leaves the holder as it finds it.
MutexInitNoHolder ==
  /\ ThreadInit
  /\ mtx = [alive  |-> [m \in Mutexes |-> TRUE],
            count  |-> [m \in Mutexes |-> 0],
            holder |-> [m \in Mutexes |-> m]]
  /\ own = [m \in Mutexes |-> {}]

MutexInit ==
  /\ ThreadInit
  /\ mtx = [alive  |-> [m \in Mutexes |-> TRUE],
            count  |-> [m \in Mutexes |-> 0],
            holder |-> [m \in Mutexes |-> NoThread]]
  /\ own = [m \in Mutexes |-> {}]

\* mutex_acquire panics when the caller is the holder; the caller must not use
\* a destroyed mutex.
MayAcquire(m) == Caller /\ mtx.alive[m] /\ mtx.holder[m] # k.cur

\* mutex_acquire, mutex_acquire_timeout: the mutex is free.
AcquireFree(m) ==
  /\ MayAcquire(m)
  /\ mtx.count[m] + 1 <= 1
  /\ mtx' = [mtx EXCEPT !.count[m] = @ + 1, !.holder[m] = k.cur]
  /\ own' = [own EXCEPT ![m] = @ \cup {k.cur}]
  /\ UNCHANGED tvars

\* mutex_acquire, mutex_acquire_timeout: it is not.  (With a timeout of 0 the
\* call counts itself in and out again, which changes nothing.)
AcquireBlock(m, timed) ==
  /\ MayAcquire(m)
  /\ mtx.count[m] + 1 > 1
  /\ mtx' = [mtx EXCEPT !.count[m] = @ + 1]
  /\ Block(m, timed)
  /\ UNCHANGED own

\* Mutants of AcquireReturn: a timeout does not take the caller off the count;
\* the caller becomes the holder before the result is looked at.
AcquireReturnStillCounted(m) ==
  LET ret == wq.ret[k.cur]
      taken == ret = "ok" \/ (frame[k.cur].timed /\ ret # "timeout")
  IN  /\ BlockReturn(m)
      /\ mtx' = [mtx EXCEPT !.holder[m] = IF taken THEN k.cur ELSE @]
      /\ own' = [own EXCEPT ![m] = IF ret = "ok" THEN @ \cup {k.cur} ELSE @]

AcquireReturnHolderFirst(m) ==
  LET ret == wq.ret[k.cur]
      backout == frame[k.cur].timed /\ ret = "timeout"
  IN  /\ BlockReturn(m)
      /\ mtx' = [mtx EXCEPT !.count[m] = IF backout THEN @ - 1 ELSE @,
                            !.holder[m] = k.cur]
      /\ own' = [own EXCEPT ![m] = IF ret = "ok" THEN @ \cup {k.cur} ELSE @]

\* After wait_queue_block: only a timeout is backed out of.  With any other
\* error mutex_acquire returns it, but mutex_acquire_timeout takes the mutex.
AcquireReturn(m) ==
  LET ret == wq.ret[k.cur]
      timed == frame[k.cur].timed
      backout == timed /\ ret = "timeout"
      taken == ret = "ok" \/ (timed /\ ~backout)
  IN  /\ BlockReturn(m)
      /\ mtx' = [mtx EXCEPT !.count[m] = IF backout THEN @ - 1 ELSE @,
                            !.holder[m] = IF taken THEN k.cur ELSE @]
      /\ own' = [own EXCEPT ![m] = IF ret = "ok" THEN @ \cup {k.cur} ELSE @]

\* Mutants of Release: the mutex looks free until the woken thread has run;
\* nobody is woken when a single thread waits.
ReleaseFrees(m) ==
  /\ Caller
  /\ mtx.alive[m]
  /\ mtx.holder[m] = k.cur
  /\ mtx' = [mtx EXCEPT !.count[m] = 0, !.holder[m] = NoThread]
  /\ own' = [own EXCEPT ![m] = @ \ {k.cur}]
  /\ IF mtx.count[m] - 1 >= 1 /\ wq.list[m] # <<>>
     THEN WakeOne(m, TRUE, "ok")
     ELSE UNCHANGED tvars

ReleaseKeepsLast(m) ==
  /\ Caller
  /\ mtx.alive[m]
  /\ mtx.holder[m] = k.cur
  /\ mtx' = [mtx EXCEPT !.count[m] = @ - 1, !.holder[m] = NoThread]
  /\ own' = [own EXCEPT ![m] = @ \ {k.cur}]
  /\ IF mtx.count[m] - 1 > 1 /\ wq.list[m] # <<>>
     THEN WakeOne(m, TRUE, "ok")
     ELSE UNCHANGED tvars

\* mutex_release, by the holder (anyone else panics).
Release(m) ==
  /\ Caller
  /\ mtx.alive[m]
  /\ mtx.holder[m] = k.cur
  /\ mtx' = [mtx EXCEPT !.count[m] = @ - 1, !.holder[m] = NoThread]
  /\ own' = [own EXCEPT ![m] = @ \ {k.cur}]
  /\ IF mtx.count[m] - 1 >= 1 /\ wq.list[m] # <<>>
     THEN WakeOne(m, TRUE, "ok")
     ELSE UNCHANGED tvars

\* mutex_destroy: the holder is not asked, and stays recorded.
Destroy(m) ==
  /\ Caller
  /\ mtx.alive[m]
  /\ mtx' = [mtx EXCEPT !.alive[m] = FALSE, !.count[m] = 0]
  /\ IF wq.count[m] > 0
     THEN WakeAll(m, TRUE, "destroyed")
     ELSE UNCHANGED tvars
  /\ UNCHANGED own

MutexClient ==
  \E m \in Mutexes :
    \/ AcquireFree(m)
    \/ \E timed \in AcquireModes : AcquireBlock(m, timed)
    \/ AcquireReturn(m)
    \/ Release(m)
    \/ MayDestroy /\ Destroy(m)

MutexNext == (Core /\ UNCHANGED <<mtx, own>>) \/ MutexClient

MutexSpec == MutexInit /\ [][MutexNext]_mvars

\* Owners release: a thread that holds a mutex and goes on running gives it
\* back.  The rest is the fairness of the hardware and the interrupt glue.
MutexFairness ==
  /\ SF_mvars(IrqEnter("tick") /\ UNCHANGED <<mtx, own>>)
  /\ \A t \in Threads :
       SF_mvars((SleepFire(t) \/ TimeoutFire(t)) /\ UNCHANGED <<mtx, own>>)
  /\ WF_mvars((Return \/ Drain \/ TickExit) /\ UNCHANGED <<mtx, own>>)
  /\ WF_mvars(\E reschedule \in BOOLEAN : DeviceExit(reschedule) /\ UNCHANGED <<mtx, own>>)
  /\ WF_mvars(\E m \in Mutexes : AcquireReturn(m))
  /\ \A t \in Threads, m \in Mutexes : SF_mvars(k.cur = t /\ Release(m))

FairMutexSpec == MutexSpec /\ MutexFairness

-----------------------------------------------------------------------------
(* Properties.                                                             *)

Engaged(m) == own[m] \cup {t \in Threads : frame[t].q = m}

\* Woken by mutex_release with NO_ERROR but not yet back from the wait.
HandedOff(m) ==
  {t \in Threads : frame[t].q = m /\ k.state[t] # "blocked" /\ wq.ret[t] = "ok"}

\* Type invariant of the mutexes.
MutexTypeOK ==
  /\ mtx \in [alive : [Mutexes -> BOOLEAN], count : [Mutexes -> Int],
              holder : [Mutexes -> Threads \cup {NoThread}]]
  /\ own \in [Mutexes -> SUBSET Threads]

\* A mutex is granted to one thread at a time, counting the thread to which
\* mutex_release has handed it and which has not run since: nobody can slip in
\* between the release and the moment the woken thread records itself.
MutualExclusion ==
  \A m \in Mutexes : \A t, u \in own[m] \cup HandedOff(m) : t = u

\* While a mutex lives, m->holder is the thread that was told it has it.
HolderIsOwner ==
  \A m \in Mutexes : mtx.alive[m] =>
    \A t \in Threads : t \in own[m] <=> mtx.holder[m] = t

\* While a mutex lives, m->count counts its owner and every thread inside
\* mutex_acquire, the one that has timed out and has not backed out included.
CountIsEngaged ==
  \A m \in Mutexes : mtx.alive[m] => mtx.count[m] = Cardinality(Engaged(m))

\* "This function waits for a mutex to become available": when no thread has
\* the mutex, is being handed it, or is on its way out of a failed wait, no
\* thread waits for it.  (True without timeouts, see ImplementsLock.)
FreeMutexHasNoWaiters ==
  \A m \in Mutexes :
    own[m] = {} /\ (\A t \in Engaged(m) : k.state[t] = "blocked") => Engaged(m) = {}

\* "If there was a general error ... just exit": a thread recorded as holder
\* has been told that it has the mutex.
HolderWasGranted ==
  \A m \in Mutexes : mtx.holder[m] = NoThread \/ mtx.holder[m] \in own[m]

\* A thread that owns a mutex is not inside another call that waits for it.
OwnersDoNotWait == \A m \in Mutexes : \A t \in own[m] : frame[t].q # m

\* While a mutex lives, a wait for it ends with NO_ERROR, or with a timeout if
\* it was a wait with a timeout.
LiveAnswers ==
  \A m \in Mutexes, t \in Threads :
    mtx.alive[m] /\ frame[t].q = m /\ k.state[t] # "blocked" =>
      wq.ret[t] = "ok" \/ (wq.ret[t] = "timeout" /\ frame[t].timed)

\* All the waiters of a mutex are woken at once only when it is destroyed.
DrainsAreDestroys ==
  drain.q \in Mutexes => ~mtx.alive[drain.q] /\ drain.err = "destroyed"

\* The inductive invariant of the mutexes.
MutexInv ==
  /\ ThreadInv /\ MutexTypeOK /\ MutualExclusion /\ HolderIsOwner /\ CountIsEngaged
  /\ OwnersDoNotWait /\ LiveAnswers /\ DrainsAreDestroys

\* Those to which a mutex is granted, and those whose wait for it has failed
\* and that have not run since.
Granted(m) == own[m] \cup HandedOff(m)
Failed(m) ==
  {t \in Threads : frame[t].q = m /\ k.state[t] # "blocked" /\ wq.ret[t] # "ok"}

\* The mutexes as locks: each belongs to its owner or to the thread that it is
\* handed to, and m->wait holds those that wait.
OneOf(S) == IF S = {} THEN NoThread ELSE CHOOSE t \in S : TRUE
Owners == [m \in Mutexes |-> OneOf(Granted(m))]
Waiters == [m \in Mutexes |-> wq.list[m]]
Leavers == [m \in Mutexes |-> Failed(m)]
Opened == [m \in Mutexes |-> mtx.alive[m]]

TheLock == INSTANCE Lock WITH
  Locks <- Mutexes, Clients <- Threads, Nobody <- NoThread,
  owner <- Owners, waiting <- Waiters

TheTimedLock == INSTANCE TimedLock WITH
  Locks <- Mutexes, Clients <- Threads, Nobody <- NoThread,
  owner <- Owners, waiting <- Waiters, leaving <- Leavers, open <- Opened

\* Without timeouts and mutex_destroy, a mutex is a first-come-first-served
\* lock that every waiting thread gets.
ImplementsLock == TheLock!Spec

\* With them, a mutex still has one owner and serves its waiters in the order
\* in which they asked: a timeout or mutex_destroy takes waiters away one by
\* one and gives the mutex to nobody, whatever the moment it comes at.
ImplementsTimedLock == TheTimedLock!Spec
=============================================================================
