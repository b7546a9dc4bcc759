----------------------------- MODULE MutexProofs -----------------------------
(***************************************************************************)
(* Mutual exclusion, for any number of threads and mutexes, with timeouts  *)
(* and with mutex_destroy.  What the scheduler does to the threads that    *)
(* wait is read off its own invariant (ThreadProofs); the rest is the      *)
(* bookkeeping of m->count and m->holder.  Then, that mutexes implement    *)
(* TimedLock, and without timeouts and destruction Lock; and that what     *)
(* holds of the scheduler holds under them.                                *)
(***************************************************************************)
EXTENDS Mutex, ThreadProofs, FiniteSetTheorems

-----------------------------------------------------------------------------
(* The mutexes, step by step.                                              *)

LEMMA MutexTypes ==
  ASSUME MutexTypeOK
  PROVE  /\ mtx.alive \in [Mutexes -> BOOLEAN] /\ mtx.count \in [Mutexes -> Int]
         /\ mtx.holder \in [Mutexes -> Threads \cup {NoThread}]
         /\ own \in [Mutexes -> SUBSET Threads]
         /\ \A m \in Mutexes : m \in Queues /\ m # NoQueue /\ own[m] \subseteq Threads
BY MutexAssumption, ThreadAssumption DEF MutexTypeOK

LEMMA EngagedFinite ==
  ASSUME MutexTypeOK, NEW m \in Mutexes
  PROVE  /\ IsFiniteSet(Engaged(m)) /\ Cardinality(Engaged(m)) \in Nat
         /\ Engaged(m) \subseteq Threads
<1>1. Engaged(m) \in SUBSET Threads
  BY MutexTypes DEF Engaged
<1>2. IsFiniteSet(Engaged(m))
  BY <1>1, MutexAssumption, FS_Subset
<1>3. QED
  BY <1>1, <1>2, FS_CardinalityType

\* A step that leaves the mutexes alone, takes no thread into or out of a wait
\* and wakes waiters only with a timeout or because their mutex is destroyed.
LEMMA MutexCoreOK ==
  ASSUME MutexInv, ThreadInv', Core, UNCHANGED <<mtx, own>>
  PROVE  MutexInv'
<1> USE DEF MutexInv
<1>1. /\ frame' = frame /\ (drain' = drain \/ drain' = NoDrain)
      /\ \A u \in Threads : frame[u].q # NoQueue =>
           \/ Untouched(u)
           \/ Woken(u, drain.err) /\ drain.q = frame[u].q
           \/ Woken(u, "timeout") /\ frame[u].timed
  BY CoreWaiters
<1>2. \A m \in Mutexes : HandedOff(m)' \subseteq HandedOff(m)
  <2> SUFFICES ASSUME NEW m \in Mutexes, NEW u \in Threads, frame'[u].q = m,
                      k'.state[u] # "blocked", wq'.ret[u] = "ok"
               PROVE  u \in HandedOff(m)
    BY DEF HandedOff
  <2>1. frame[u].q = m /\ m # NoQueue
    BY <1>1, MutexTypes
  <2>2. Untouched(u)
    BY <1>1, <2>1 DEF Woken, DrainsAreDestroys
  <2>3. QED BY <2>1, <2>2 DEF HandedOff, Untouched
<1>3. MutualExclusion'
  BY <1>2 DEF MutualExclusion
<1>4. \A m \in Mutexes : Engaged(m)' = Engaged(m)
  BY <1>1 DEF Engaged
<1>5. MutexTypeOK' /\ HolderIsOwner' /\ CountIsEngaged' /\ OwnersDoNotWait'
  BY <1>1, <1>4 DEF MutexTypeOK, HolderIsOwner, CountIsEngaged, OwnersDoNotWait
<1>6. DrainsAreDestroys'
  BY <1>1, MutexAssumption, ThreadAssumption DEF DrainsAreDestroys, NoDrain
<1>7. LiveAnswers'
  <2> SUFFICES ASSUME NEW m \in Mutexes, NEW u \in Threads, mtx.alive[m],
                      frame[u].q = m, k'.state[u] # "blocked"
               PROVE  wq'.ret[u] = "ok" \/ (wq'.ret[u] = "timeout" /\ frame[u].timed)
    BY <1>1 DEF LiveAnswers
  <2>1. m # NoQueue
    BY MutexTypes
  <2>2. CASE Untouched(u)
    BY <2>2 DEF Untouched, LiveAnswers
  <2>3. CASE Woken(u, drain.err) /\ drain.q = frame[u].q
    BY <2>3 DEF DrainsAreDestroys
  <2>4. CASE Woken(u, "timeout") /\ frame[u].timed
    BY <2>4 DEF Woken
  <2>5. QED BY <1>1, <2>1, <2>2, <2>3, <2>4
<1>8. QED
  BY <1>3, <1>5, <1>6, <1>7

LEMMA AcquireFreeOK ==
  ASSUME MutexInv, NEW m \in Mutexes, AcquireFree(m)
  PROVE  MutexInv'
<1> USE DEF MutexInv
<1> DEFINE c == k.cur
<1>1. /\ c \in Threads /\ mtx.alive[m] /\ mtx.holder[m] # c /\ mtx.count[m] + 1 <= 1
      /\ UNCHANGED tvars /\ frame[c].q = NoQueue
  BY Types DEF AcquireFree, MayAcquire, Caller, InThread, ThreadInv, CallsMatch
<1>2. ThreadInv'
  BY <1>1, StutterOK
<1>3. /\ mtx'.count = [mtx.count EXCEPT ![m] = mtx.count[m] + 1]
      /\ mtx'.holder = [mtx.holder EXCEPT ![m] = c] /\ mtx'.alive = mtx.alive
      /\ own' = [own EXCEPT ![m] = own[m] \cup {c}]
  BY DEF AcquireFree, MutexTypeOK
<1>4. MutexTypeOK'
  <2>1. mtx' = [mtx EXCEPT !.count = [mtx.count EXCEPT ![m] = mtx.count[m] + 1],
                           !.holder = [mtx.holder EXCEPT ![m] = c]]
    BY DEF AcquireFree, MutexTypeOK
  <2>2. /\ [mtx.count EXCEPT ![m] = mtx.count[m] + 1] \in [Mutexes -> Int]
        /\ [mtx.holder EXCEPT ![m] = c] \in [Mutexes -> Threads \cup {NoThread}]
        /\ own' \in [Mutexes -> SUBSET Threads]
    BY <1>1, <1>3, MutexTypes
  <2>3. QED BY <2>1, <2>2 DEF MutexTypeOK
<1>5. mtx.count[m] = 0 /\ Engaged(m) = {}
  <2>1. mtx.count[m] = Cardinality(Engaged(m))
    BY <1>1 DEF CountIsEngaged
  <2>2. Cardinality(Engaged(m)) = 0
    BY <1>1, <2>1, EngagedFinite
  <2>3. QED BY <2>1, <2>2, EngagedFinite, FS_EmptySet
<1> HIDE DEF c
<1>6. /\ frame' = frame /\ wq' = wq /\ k' = k /\ drain' = drain
      /\ \A z \in Mutexes : own'[z] = IF z = m THEN {c} ELSE own[z]
      /\ \A z \in Mutexes : mtx'.holder[z] = IF z = m THEN c ELSE mtx.holder[z]
      /\ \A z \in Mutexes : mtx'.count[z] = IF z = m THEN 1 ELSE mtx.count[z]
      /\ \A t \in Threads : frame[t].q # m
  <2>1. own[m] = {} /\ \A t \in Threads : frame[t].q # m
    BY <1>5 DEF Engaged
  <2>2. frame' = frame /\ wq' = wq /\ k' = k /\ drain' = drain
    BY <1>1 DEF tvars
  <2>3. \A z \in Mutexes : own'[z] = IF z = m THEN {c} ELSE own[z]
    BY <1>3, <2>1, MutexTypes
  <2>4. /\ \A z \in Mutexes : mtx'.holder[z] = IF z = m THEN c ELSE mtx.holder[z]
        /\ \A z \in Mutexes : mtx'.count[z] = IF z = m THEN 1 ELSE mtx.count[z]
    BY <1>3, <1>5, MutexTypes
  <2>5. QED BY <2>1, <2>2, <2>3, <2>4
<1>7. MutualExclusion'
  BY <1>6 DEF MutualExclusion, HandedOff
<1>8. CountIsEngaged'
  <2> SUFFICES ASSUME NEW z \in Mutexes, mtx'.alive[z]
               PROVE  mtx'.count[z] = Cardinality(Engaged(z)')
    BY DEF CountIsEngaged
  <2>1. CASE z = m
    <3>1. Engaged(z)' = {} \cup {c}
      BY <1>6, <2>1 DEF Engaged
    <3>2. Cardinality({} \cup {c}) = 0 + 1
      BY FS_EmptySet, FS_AddElement
    <3>3. QED BY <1>6, <2>1, <3>1, <3>2
  <2>2. CASE z # m
    <3>1. Engaged(z)' = Engaged(z)
      BY <1>6, <2>2 DEF Engaged
    <3>2. QED BY <1>3, <1>6, <2>2, <3>1 DEF CountIsEngaged
  <2>3. QED BY <2>1, <2>2
<1>9. HolderIsOwner' /\ OwnersDoNotWait'
  <2>1. ASSUME NEW z \in Mutexes, mtx'.alive[z], NEW t \in Threads
        PROVE  t \in own'[z] <=> mtx'.holder[z] = t
    <3>1. CASE z = m
      BY <1>6, <3>1
    <3>2. CASE z # m
      BY <1>3, <1>6, <2>1, <3>2 DEF HolderIsOwner
    <3>3. QED BY <3>1, <3>2
  <2>2. ASSUME NEW z \in Mutexes, NEW t \in own'[z] PROVE frame'[t].q # z
    <3>1. CASE z = m
      BY <1>1, <1>6, <2>2, <3>1
    <3>2. CASE z # m
      BY <1>6, <2>2, <3>2 DEF OwnersDoNotWait
    <3>3. QED BY <3>1, <3>2
  <2>3. QED BY <2>1, <2>2 DEF HolderIsOwner, OwnersDoNotWait
<1>10. LiveAnswers' /\ DrainsAreDestroys'
  BY <1>3, <1>6 DEF LiveAnswers, DrainsAreDestroys
<1>11. QED
  BY <1>2, <1>4, <1>7, <1>8, <1>9, <1>10

LEMMA AcquireBlockOK ==
  ASSUME MutexInv, NEW m \in Mutexes, NEW timed \in BOOLEAN, AcquireBlock(m, timed)
  PROVE  MutexInv'
<1> USE DEF MutexInv
<1> DEFINE c == k.cur
<1>1. /\ c \in Threads /\ mtx.alive[m] /\ mtx.holder[m] # c /\ m \in Queues /\ m # NoQueue
      /\ Block(m, timed) /\ frame[c].q = NoQueue /\ k.state[c] = "running"
      /\ drain.q = NoQueue /\ c # Idle /\ drain' = drain /\ own' = own
  BY Types, MutexTypes
     DEF AcquireBlock, MayAcquire, Block, Caller, InThread, ThreadInv, CallsMatch, CpuAccounted
<1>2. ThreadInv'
  BY <1>1, BlockOK
<1>3. /\ mtx'.count = [mtx.count EXCEPT ![m] = mtx.count[m] + 1]
      /\ mtx'.holder = mtx.holder /\ mtx'.alive = mtx.alive
  BY DEF AcquireBlock, MutexTypeOK
<1>4. MutexTypeOK'
  <2>1. mtx' = [mtx EXCEPT !.count = [mtx.count EXCEPT ![m] = mtx.count[m] + 1]]
    BY DEF AcquireBlock, MutexTypeOK
  <2>2. [mtx.count EXCEPT ![m] = mtx.count[m] + 1] \in [Mutexes -> Int]
    BY MutexTypes
  <2>3. QED BY <1>1, <2>1, <2>2 DEF MutexTypeOK
<1>5. frame' = [frame EXCEPT ![c] = [q |-> m, timed |-> timed]]
  BY <1>1 DEF Block
<1>6. wq'.ret = [wq.ret EXCEPT ![c] = "ok"]
  BY <1>1 DEF Block, PushWaiter, ThreadInv, TypeOK, Waits
<1>7. PICK new \in Threads :
        /\ new # c /\ k.state[new] = "ready"
        /\ \A t \in Threads : k'.state[t] = IF t = new THEN "running"
                                           ELSE IF t = c THEN "blocked" ELSE k.state[t]
  BY <1>1, LeavesCpu DEF Block
<1>8. /\ \A t \in Threads : frame'[t] = IF t = c THEN [q |-> m, timed |-> timed] ELSE frame[t]
      /\ \A t \in Threads : wq'.ret[t] = IF t = c THEN "ok" ELSE wq.ret[t]
      /\ \A t \in Threads : k'.state[t] = "blocked" <=> k.state[t] = "blocked" \/ t = c
  <2> HIDE DEF c
  <2>1. \A t \in Threads : frame'[t] = IF t = c THEN [q |-> m, timed |-> timed] ELSE frame[t]
    BY <1>5, Types DEF ThreadInv
  <2>2. \A t \in Threads : wq'.ret[t] = IF t = c THEN "ok" ELSE wq.ret[t]
    BY <1>6, Types DEF ThreadInv
  <2>3. \A t \in Threads : k'.state[t] = "blocked" <=> k.state[t] = "blocked" \/ t = c
    BY <1>1, <1>7
  <2>4. QED BY <2>1, <2>2, <2>3
<1>9. c \notin own[m]
  BY <1>1 DEF HolderIsOwner
<1> HIDE DEF c
<1>10. \A z \in Mutexes : HandedOff(z)' = HandedOff(z)
  BY <1>1, <1>8, MutexTypes DEF HandedOff
<1>11. MutualExclusion'
  BY <1>1, <1>10 DEF MutualExclusion
<1>12. \A z \in Mutexes : Engaged(z)' = IF z = m THEN Engaged(z) \cup {c} ELSE Engaged(z)
  BY <1>1, <1>8, MutexTypes DEF Engaged
<1>13. CountIsEngaged'
  <2> SUFFICES ASSUME NEW z \in Mutexes, mtx'.alive[z]
               PROVE  mtx'.count[z] = Cardinality(Engaged(z)')
    BY DEF CountIsEngaged
  <2>1. CASE z = m
    <3>1. c \notin Engaged(m)
      BY <1>1, <1>9 DEF Engaged
    <3>2. Cardinality(Engaged(m) \cup {c}) = Cardinality(Engaged(m)) + 1
      BY <3>1, EngagedFinite, FS_AddElement
    <3>3. QED BY <1>1, <1>3, <1>12, <2>1, <3>2, MutexTypes DEF CountIsEngaged
  <2>2. CASE z # m
    BY <1>3, <1>12, <2>2, MutexTypes DEF CountIsEngaged
  <2>3. QED BY <2>1, <2>2
<1>14. HolderIsOwner'
  BY <1>1, <1>3 DEF HolderIsOwner
<1>15. OwnersDoNotWait'
  <2> SUFFICES ASSUME NEW z \in Mutexes, NEW t \in own[z] PROVE frame'[t].q # z
    BY <1>1 DEF OwnersDoNotWait
  <2>1. t \in Threads /\ frame[t].q # z
    BY MutexTypes DEF OwnersDoNotWait
  <2>2. QED BY <1>8, <1>9, <2>1
<1>16. LiveAnswers'
  BY <1>3, <1>8, MutexTypes DEF LiveAnswers
<1>17. DrainsAreDestroys'
  BY <1>1, MutexTypes DEF DrainsAreDestroys
<1>18. QED
  BY <1>2, <1>4, <1>11, <1>13, <1>14, <1>15, <1>16, <1>17

LEMMA AcquireReturnOK ==
  ASSUME MutexInv, NEW m \in Mutexes, AcquireReturn(m)
  PROVE  MutexInv'
<1> USE DEF MutexInv
<1> DEFINE c == k.cur
           ret == wq.ret[c]
           timed == frame[c].timed
           backout == timed /\ ret = "timeout"
           taken == ret = "ok" \/ (timed /\ ~backout)
<1>1. /\ c \in Threads /\ m \in Queues /\ m # NoQueue /\ BlockReturn(m)
      /\ frame[c].q = m /\ k.state[c] = "running" /\ drain.q = NoQueue
      /\ UNCHANGED <<k, wq, drain>> /\ frame' = [frame EXCEPT ![c] = NoFrame]
  BY Types, MutexTypes DEF AcquireReturn, BlockReturn, ThreadInv, CpuAccounted
<1>2. ThreadInv'
  BY <1>1, BlockReturnOK
<1>3. /\ mtx' = [mtx EXCEPT
              !.count = [mtx.count EXCEPT ![m] = IF backout THEN mtx.count[m] - 1 ELSE mtx.count[m]],
              !.holder = [mtx.holder EXCEPT ![m] = IF taken THEN c ELSE mtx.holder[m]]]
      /\ own' = [own EXCEPT ![m] = IF ret = "ok" THEN own[m] \cup {c} ELSE own[m]]
  BY DEF AcquireReturn, MutexTypeOK
<1>4. mtx.alive[m] => ret = "ok" \/ (ret = "timeout" /\ timed)
  BY <1>1 DEF LiveAnswers
<1> HIDE DEF backout, taken
<1>5. /\ \A z \in Mutexes : mtx'.count[z] =
            IF z = m /\ backout THEN mtx.count[z] - 1 ELSE mtx.count[z]
      /\ \A z \in Mutexes : mtx'.holder[z] = IF z = m /\ taken THEN c ELSE mtx.holder[z]
      /\ mtx'.alive = mtx.alive
  BY <1>3, MutexTypes DEF MutexTypeOK
<1>6. \A z \in Mutexes : own'[z] =
        IF z = m /\ ret = "ok" THEN own[z] \cup {c} ELSE own[z]
  BY <1>3, MutexTypes
<1>7. MutexTypeOK'
  <2>1. /\ [mtx.count EXCEPT ![m] = IF backout THEN mtx.count[m] - 1 ELSE mtx.count[m]]
              \in [Mutexes -> Int]
        /\ [mtx.holder EXCEPT ![m] = IF taken THEN c ELSE mtx.holder[m]]
              \in [Mutexes -> Threads \cup {NoThread}]
    BY <1>1, MutexTypes
  <2>2. own' \in [Mutexes -> SUBSET Threads]
    BY <1>1, <1>3, MutexTypes
  <2>3. QED BY <1>3, <2>1, <2>2 DEF MutexTypeOK
<1>8. ret = "ok" => c \in HandedOff(m)
  BY <1>1 DEF HandedOff
<1>9. c \notin own[m]
  BY <1>1 DEF OwnersDoNotWait
<1> HIDE DEF c, ret, timed
<1>10. \A t \in Threads : frame'[t] = IF t = c THEN NoFrame ELSE frame[t]
  BY <1>1, Types DEF ThreadInv
<1>11. /\ \A z \in Mutexes : HandedOff(z)' = HandedOff(z) \ {c}
       /\ \A z \in Mutexes : {t \in Threads : frame'[t].q = z} = {t \in Threads : frame[t].q = z} \ {c}
  <2>1. \A z \in Mutexes : z # NoQueue
    BY MutexTypes
  <2>2. QED BY <1>1, <1>10, <2>1 DEF HandedOff, NoFrame
<1>12. MutualExclusion'
  <2> SUFFICES ASSUME NEW z \in Mutexes, NEW t \in own'[z] \cup HandedOff(z)',
                      NEW u \in own'[z] \cup HandedOff(z)'
               PROVE  t = u
    BY DEF MutualExclusion
  <2>1. own'[z] \cup HandedOff(z)' \subseteq own[z] \cup HandedOff(z)
    <3>1. HandedOff(z)' \subseteq HandedOff(z)
      BY <1>11
    <3> HIDE DEF HandedOff
    <3>2. CASE z = m /\ ret = "ok"
      BY <1>6, <1>8, <3>1, <3>2
    <3>3. CASE ~(z = m /\ ret = "ok")
      BY <1>6, <3>1, <3>3
    <3>4. QED BY <3>2, <3>3
  <2>2. QED BY <2>1 DEF MutualExclusion
<1>13. CountIsEngaged'
  <2> SUFFICES ASSUME NEW z \in Mutexes, mtx'.alive[z]
               PROVE  mtx'.count[z] = Cardinality(Engaged(z)')
    BY DEF CountIsEngaged
  <2>0. mtx.count[z] = Cardinality(Engaged(z))
    BY <1>5 DEF CountIsEngaged
  <2>1. CASE z # m
    <3>1. c \notin {t \in Threads : frame[t].q = z}
      BY <1>1, <2>1
    <3>2. Engaged(z)' = Engaged(z)
      BY <1>6, <1>11, <2>1, <3>1 DEF Engaged
    <3>3. QED BY <1>5, <2>0, <2>1, <3>2
  <2>2. CASE z = m /\ ret = "ok"
    <3>1. Engaged(z)' = Engaged(z)
      BY <1>1, <1>6, <1>11, <2>2 DEF Engaged
    <3>2. ~backout
      BY <2>2 DEF backout
    <3>3. QED BY <1>5, <2>0, <3>1, <3>2
  <2>3. CASE z = m /\ ret # "ok"
    <3>1. backout
      BY <1>4, <1>5, <2>3 DEF backout
    <3>2. Engaged(z)' = Engaged(z) \ {c} /\ c \in Engaged(z)
      BY <1>1, <1>6, <1>9, <1>11, <2>3 DEF Engaged
    <3>3. Cardinality(Engaged(z) \ {c}) = Cardinality(Engaged(z)) - 1
      BY <3>2, EngagedFinite, FS_RemoveElement
    <3>4. QED BY <1>5, <2>0, <2>3, <3>1, <3>2, <3>3
  <2>4. QED BY <2>1, <2>2, <2>3
<1>14. HolderIsOwner'
  <2> SUFFICES ASSUME NEW z \in Mutexes, mtx'.alive[z], NEW t \in Threads
               PROVE  t \in own'[z] <=> mtx'.holder[z] = t
    BY DEF HolderIsOwner
  <2>0. t \in own[z] <=> mtx.holder[z] = t
    BY <1>5 DEF HolderIsOwner
  <2>1. CASE z # m
    BY <1>5, <1>6, <2>0, <2>1
  <2>2. CASE z = m /\ ret = "ok"
    <3>1. taken
      BY <2>2 DEF taken
    <3>2. own[m] \subseteq {c}
      BY <1>8, <2>2 DEF MutualExclusion
    <3>3. QED BY <1>5, <1>6, <2>2, <3>1, <3>2
  <2>3. CASE z = m /\ ret # "ok"
    <3>1. ~taken
      BY <1>4, <1>5, <2>3 DEF taken, backout
    <3>2. QED BY <1>5, <1>6, <2>0, <2>3, <3>1
  <2>4. QED BY <2>1, <2>2, <2>3
<1>15. OwnersDoNotWait'
  <2> SUFFICES ASSUME NEW z \in Mutexes, NEW t \in own'[z] PROVE frame'[t].q # z
    BY DEF OwnersDoNotWait
  <2>1. z # NoQueue /\ t \in Threads
    BY <1>1, <1>6, MutexTypes, ZenonT(40)
  <2>2. CASE t = c
    BY <1>10, <2>1, <2>2 DEF NoFrame
  <2>3. CASE t # c
    BY <1>6, <1>10, <2>1, <2>3, ZenonT(30) DEF OwnersDoNotWait
  <2>4. QED BY <2>2, <2>3
<1>16. LiveAnswers'
  <2> SUFFICES ASSUME NEW z \in Mutexes, NEW t \in Threads, mtx'.alive[z], frame'[t].q = z,
                      k.state[t] # "blocked"
               PROVE  wq.ret[t] = "ok" \/ (wq.ret[t] = "timeout" /\ frame'[t].timed)
    BY <1>1 DEF LiveAnswers
  <2>1. t # c
    BY <1>10, MutexTypes DEF NoFrame
  <2>2. QED BY <1>5, <1>10, <2>1 DEF LiveAnswers
<1>17. DrainsAreDestroys'
  BY <1>1, MutexTypes DEF DrainsAreDestroys
<1>18. QED
  BY <1>2, <1>7, <1>12, <1>13, <1>14, <1>15, <1>16, <1>17

\* What mutex_release does to the threads that wait: the first is woken, or none.
LEMMA ReleaseWakes ==
  ASSUME MutexInv, NEW m \in Mutexes, Release(m)
  PROVE  LET c == k.cur
             h == Head(wq.list[m])
             woken == wq' # wq
         IN  /\ c \in Threads /\ m \in Queues /\ m # NoQueue /\ mtx.alive[m] /\ mtx.holder[m] = c
             /\ c \in own[m] /\ frame[c].q = NoQueue /\ k.state[c] = "running"
             /\ drain.q = NoQueue /\ drain' = drain /\ frame' = frame /\ InKernelCaller /\ Caller
             /\ ThreadInv'
             /\ (woken => /\ h \in Threads /\ frame[h].q = m
                          /\ k'.state[h] # "blocked" /\ wq'.ret[h] = "ok"
                          /\ \A u \in Threads : u # h => Untouched(u))
             /\ (~woken => \A u \in Threads : Untouched(u))
             /\ (woken => wq' = PopWaiter(wq, m, "ok") /\ wq.list[m] # <<>>)
             /\ (~woken => ~(mtx.count[m] - 1 >= 1 /\ wq.list[m] # <<>>))
<1> USE DEF MutexInv
<1> DEFINE c == k.cur
           h == Head(wq.list[m])
           woken == wq' # wq
<1>1. /\ c \in Threads /\ m \in Queues /\ m # NoQueue /\ mtx.alive[m] /\ mtx.holder[m] = c
      /\ c \in own[m] /\ frame[c].q = NoQueue /\ k.state[c] = "running"
      /\ drain.q = NoQueue /\ drain' = drain /\ frame' = frame /\ InKernelCaller /\ Caller
  <2>1. /\ mtx.alive[m] /\ mtx.holder[m] = c /\ Caller
        /\ drain' = drain /\ frame' = frame
    BY DEF Release, WakeOne, tvars
  <2>2. c \in Threads /\ frame[c].q = NoQueue /\ k.state[c] = "running"
    BY <2>1, Types DEF Caller, InThread, ThreadInv, CallsMatch, CpuAccounted
  <2>3. QED BY <2>1, <2>2, CallerStands, MutexTypes DEF HolderIsOwner
<1>2. /\ ThreadInv'
      /\ (woken => /\ h \in Threads /\ frame[h].q = m
                   /\ k'.state[h] # "blocked" /\ wq'.ret[h] = "ok"
                   /\ \A u \in Threads : u # h => Untouched(u))
      /\ (~woken => \A u \in Threads : Untouched(u))
      /\ (woken => wq' = PopWaiter(wq, m, "ok") /\ wq.list[m] # <<>>)
      /\ (~woken => ~(mtx.count[m] - 1 >= 1 /\ wq.list[m] # <<>>))
  <2>1. CASE WakeOne(m, TRUE, "ok")
    <3> DEFINE x == k.state
    <3>1. /\ wq.list[m] # <<>> /\ wq' = PopWaiter(wq, m, "ok") /\ "ok" \in Results
          /\ wq \in Waits /\ WaitMatch(x, wq)
      BY <2>1 DEF WakeOne, Results, ThreadInv, TypeOK, WaitQueuesMatch
    <3>2. ThreadInv'
      BY <1>1, <2>1, <3>1, WakeOneOK DEF Caller, InThread
    <3>3. h \in Threads /\ x[h] = "blocked" /\ wq.blockq[h] = m /\ frame[h].q = m
      BY <1>1, <3>1, HeadBlocked
    <3> HIDE DEF x
    <3>4. Removed(wq', wq, m, h, "ok")
      BY <1>1, <3>1, PopOK
    <3> HIDE DEF h
    <3>5. /\ \A u \in Threads : k'.state[u] = "blocked" <=> k.state[u] = "blocked" /\ u # h
          /\ \A u \in Threads : wq'.ret[u] = IF u = h THEN "ok" ELSE wq.ret[u]
      BY <1>1, <3>2, <3>3, <3>4, RemovedIsUnblocked DEF x
    <3>6. woken
      <4>1. wq'.count[m] = wq.count[m] - 1 /\ wq.count[m] \in Int
        BY <1>1, <3>1, <3>4 DEF Removed, Waits
      <4>2. QED BY <4>1
    <3>7. QED BY <3>1, <3>2, <3>3, <3>5, <3>6 DEF Untouched
  <2>2. CASE UNCHANGED tvars /\ ~(mtx.count[m] - 1 >= 1 /\ wq.list[m] # <<>>)
    <3>1. ThreadInv' /\ ~woken /\ \A u \in Threads : Untouched(u)
      BY <2>2, StutterOK DEF tvars, Untouched
    <3>2. QED BY <2>2, <3>1
  <2>3. QED BY <2>1, <2>2 DEF Release
<1>3. QED
  BY <1>1, <1>2

LEMMA ReleaseOK ==
  ASSUME MutexInv, NEW m \in Mutexes, Release(m)
  PROVE  MutexInv'
<1> USE DEF MutexInv
<1> DEFINE c == k.cur
           h == Head(wq.list[m])
           woken == wq' # wq
<1>1. /\ c \in Threads /\ m \in Queues /\ m # NoQueue /\ mtx.alive[m] /\ mtx.holder[m] = c
      /\ c \in own[m] /\ frame[c].q = NoQueue /\ k.state[c] = "running"
      /\ drain.q = NoQueue /\ drain' = drain /\ frame' = frame /\ InKernelCaller /\ Caller
  BY ReleaseWakes
<1>2. /\ ThreadInv'
      /\ (woken => /\ h \in Threads /\ frame[h].q = m
                   /\ k'.state[h] # "blocked" /\ wq'.ret[h] = "ok"
                   /\ \A u \in Threads : u # h => Untouched(u))
      /\ (~woken => \A u \in Threads : Untouched(u))
  BY ReleaseWakes
<1> HIDE DEF c, h, woken
<1>3. /\ \A z \in Mutexes : mtx'.count[z] = IF z = m THEN mtx.count[z] - 1 ELSE mtx.count[z]
      /\ \A z \in Mutexes : mtx'.holder[z] = IF z = m THEN NoThread ELSE mtx.holder[z]
      /\ mtx'.alive = mtx.alive
      /\ \A z \in Mutexes : own'[z] = IF z = m THEN own[z] \ {c} ELSE own[z]
  BY MutexTypes DEF Release, MutexTypeOK, c
<1>4. MutexTypeOK'
  <2>1. mtx' = [mtx EXCEPT !.count = [mtx.count EXCEPT ![m] = mtx.count[m] - 1],
                           !.holder = [mtx.holder EXCEPT ![m] = NoThread]]
    BY DEF Release, MutexTypeOK
  <2>2. /\ [mtx.count EXCEPT ![m] = mtx.count[m] - 1] \in [Mutexes -> Int]
        /\ [mtx.holder EXCEPT ![m] = NoThread] \in [Mutexes -> Threads \cup {NoThread}]
    BY MutexTypes
  <2>3. own' \in [Mutexes -> SUBSET Threads]
    BY MutexTypes DEF Release
  <2>4. QED BY <2>1, <2>2, <2>3 DEF MutexTypeOK
<1>5. own[m] \cup HandedOff(m) = {c}
  BY <1>1 DEF MutualExclusion
<1>6. c \notin HandedOff(m)
  BY <1>1 DEF HandedOff
<1>7. own'[m] = {} /\ HandedOff(m) = {}
  BY <1>3, <1>5, <1>6
<1>8. \A z \in Mutexes : HandedOff(z)' \subseteq HandedOff(z) \cup (IF z = m THEN {h} ELSE {})
  <2> SUFFICES ASSUME NEW z \in Mutexes, NEW u \in Threads, frame[u].q = z,
                      k'.state[u] # "blocked", wq'.ret[u] = "ok"
               PROVE  u \in HandedOff(z) \/ (z = m /\ u = h)
    BY <1>1 DEF HandedOff
  <2>1. CASE Untouched(u)
    BY <2>1 DEF Untouched, HandedOff
  <2>2. CASE ~Untouched(u)
    BY <1>2, <2>2
  <2>3. QED BY <2>1, <2>2
<1>9. MutualExclusion'
  <2> SUFFICES ASSUME NEW z \in Mutexes, NEW t \in own'[z] \cup HandedOff(z)',
                      NEW u \in own'[z] \cup HandedOff(z)'
               PROVE  t = u
    BY DEF MutualExclusion
  <2>1. CASE z = m
    BY <1>7, <1>8, <2>1
  <2>2. CASE z # m
    <3>1. own'[z] \cup HandedOff(z)' \subseteq own[z] \cup HandedOff(z)
      BY <1>3, <1>8, <2>2
    <3>2. QED BY <3>1 DEF MutualExclusion
  <2>3. QED BY <2>1, <2>2
<1>10. CountIsEngaged'
  <2> SUFFICES ASSUME NEW z \in Mutexes, mtx'.alive[z]
               PROVE  mtx'.count[z] = Cardinality(Engaged(z)')
    BY DEF CountIsEngaged
  <2>0. mtx.count[z] = Cardinality(Engaged(z))
    BY <1>3 DEF CountIsEngaged
  <2>1. CASE z = m
    <3>1. Engaged(z)' = Engaged(z) \ {c} /\ c \in Engaged(z)
      BY <1>1, <1>3, <2>1 DEF Engaged
    <3>2. Cardinality(Engaged(z) \ {c}) = Cardinality(Engaged(z)) - 1
      BY <3>1, EngagedFinite, FS_RemoveElement
    <3>3. QED BY <1>3, <2>0, <2>1, <3>1, <3>2
  <2>2. CASE z # m
    <3>1. Engaged(z)' = Engaged(z)
      BY <1>1, <1>3, <2>2 DEF Engaged
    <3>2. QED BY <1>3, <2>0, <2>2, <3>1
  <2>3. QED BY <2>1, <2>2
<1>11. HolderIsOwner'
  <2> SUFFICES ASSUME NEW z \in Mutexes, mtx'.alive[z], NEW t \in Threads
               PROVE  t \in own'[z] <=> mtx'.holder[z] = t
    BY DEF HolderIsOwner
  <2>1. CASE z = m
    BY <1>3, <1>7, <2>1, ThreadAssumption
  <2>2. CASE z # m
    BY <1>3, <2>2 DEF HolderIsOwner
  <2>3. QED BY <2>1, <2>2
<1>12. OwnersDoNotWait'
  BY <1>1, <1>3 DEF OwnersDoNotWait
<1>13. LiveAnswers'
  <2> SUFFICES ASSUME NEW z \in Mutexes, NEW t \in Threads, mtx.alive[z], frame[t].q = z,
                      k'.state[t] # "blocked"
               PROVE  wq'.ret[t] = "ok" \/ (wq'.ret[t] = "timeout" /\ frame[t].timed)
    BY <1>1, <1>3 DEF LiveAnswers
  <2>1. CASE Untouched(t)
    BY <2>1 DEF Untouched, LiveAnswers
  <2>2. CASE ~Untouched(t)
    BY <1>2, <2>2
  <2>3. QED BY <2>1, <2>2
<1>14. DrainsAreDestroys'
  BY <1>1, MutexTypes DEF DrainsAreDestroys
<1>15. QED
  BY <1>2, <1>4, <1>9, <1>10, <1>11, <1>12, <1>13, <1>14

LEMMA DestroyOK ==
  ASSUME MutexInv, NEW m \in Mutexes, Destroy(m)
  PROVE  MutexInv'
<1> USE DEF MutexInv
<1>1. /\ m \in Queues /\ m # NoQueue /\ Caller /\ drain.q = NoQueue
      /\ own' = own /\ frame' = frame /\ wq' = wq
  BY CallerStands, MutexTypes DEF Destroy, WakeAll, tvars
<1>2. /\ ThreadInv'
      /\ drain'.q = NoQueue \/ (drain'.q = m /\ drain'.err = "destroyed")
  <2>1. CASE WakeAll(m, TRUE, "destroyed")
    BY <1>1, <2>1, CallerStands, WakeAllOK DEF WakeAll, Results
  <2>2. CASE UNCHANGED tvars
    BY <1>1, <2>2, StutterOK DEF tvars
  <2>3. QED BY <2>1, <2>2 DEF Destroy
<1>3. \A u \in Threads : Untouched(u)
  BY <1>1, <1>2, SameListsSameBlocked DEF Untouched
<1>4. /\ \A z \in Mutexes : mtx'.alive[z] <=> mtx.alive[z] /\ z # m
      /\ \A z \in Mutexes : z # m => mtx'.count[z] = mtx.count[z]
      /\ mtx'.holder = mtx.holder
  BY MutexTypes DEF Destroy, MutexTypeOK
<1>5. MutexTypeOK'
  <2>1. mtx' = [mtx EXCEPT !.alive = [mtx.alive EXCEPT ![m] = FALSE],
                           !.count = [mtx.count EXCEPT ![m] = 0]]
    BY DEF Destroy, MutexTypeOK
  <2>2. /\ [mtx.alive EXCEPT ![m] = FALSE] \in [Mutexes -> BOOLEAN]
        /\ [mtx.count EXCEPT ![m] = 0] \in [Mutexes -> Int]
    BY MutexTypes
  <2>3. QED BY <1>1, <2>1, <2>2 DEF MutexTypeOK
<1>6. MutualExclusion'
  BY <1>1, <1>3 DEF MutualExclusion, HandedOff, Untouched
<1>7. CountIsEngaged'
  <2>1. \A z \in Mutexes : Engaged(z)' = Engaged(z)
    BY <1>1 DEF Engaged
  <2>2. QED BY <1>4, <2>1 DEF CountIsEngaged
<1>8. HolderIsOwner' /\ OwnersDoNotWait'
  BY <1>1, <1>4 DEF HolderIsOwner, OwnersDoNotWait
<1>9. LiveAnswers'
  <2> SUFFICES ASSUME NEW z \in Mutexes, NEW t \in Threads, mtx.alive[z], frame[t].q = z,
                      k'.state[t] # "blocked"
               PROVE  wq'.ret[t] = "ok" \/ (wq'.ret[t] = "timeout" /\ frame[t].timed)
    BY <1>1, <1>4 DEF LiveAnswers
  <2>1. QED BY <1>3 DEF Untouched, LiveAnswers
<1>10. DrainsAreDestroys'
  BY <1>2, <1>4, MutexTypes DEF DrainsAreDestroys
<1>11. QED
  BY <1>2, <1>5, <1>6, <1>7, <1>8, <1>9, <1>10

LEMMA MutexInitOK ==
  ASSUME MutexInit
  PROVE  MutexInv
<1>1. ThreadInv
  BY InitOK DEF MutexInit
<1>2. /\ \A t \in Threads : frame[t].q = NoQueue
      /\ \A m \in Mutexes : own[m] = {} /\ mtx.count[m] = 0 /\ mtx.holder[m] = NoThread
      /\ drain.q = NoQueue
  BY DEF MutexInit, ThreadInit, NoFrame, NoDrain
<1>3. MutexTypeOK
  BY DEF MutexInit, MutexTypeOK
<1>4. \A m \in Mutexes : Engaged(m) = {} /\ HandedOff(m) = {}
  BY <1>2, MutexAssumption, ThreadAssumption DEF Engaged, HandedOff
<1>5. CountIsEngaged
  BY <1>2, <1>4, FS_EmptySet DEF CountIsEngaged
<1>6. MutualExclusion /\ OwnersDoNotWait
  BY <1>2, <1>4 DEF MutualExclusion, OwnersDoNotWait
<1>7. HolderIsOwner
  BY <1>2, ThreadAssumption DEF HolderIsOwner
<1>8. LiveAnswers /\ DrainsAreDestroys
  BY <1>2, MutexAssumption, ThreadAssumption DEF LiveAnswers, DrainsAreDestroys
<1>9. QED
  BY <1>1, <1>3, <1>5, <1>6, <1>7, <1>8 DEF MutexInv

-----------------------------------------------------------------------------
(* The theorems.                                                           *)

\* The mutexes keep their invariant for any number of threads and mutexes,
\* with any mixture of timeouts, releases and destructions, up to the first
\* kernel call that a thread makes with a leaked critical section.
THEOREM MutexInvariant ==
  ASSUME ExclusiveResume
  PROVE  MutexSpec => []MutexInv
<1>1. MutexInit => MutexInv
  BY MutexInitOK
<1>2. MutexInv /\ [MutexNext]_mvars => MutexInv'
  <2> SUFFICES ASSUME MutexInv, [MutexNext]_mvars
               PROVE  MutexInv'
    OBVIOUS
  <2>1. CASE Core /\ UNCHANGED <<mtx, own>>
    <3>1. ThreadInv'
      BY <2>1, CoreOK DEF MutexInv
    <3>2. QED BY <2>1, <3>1, MutexCoreOK
  <2>2. CASE MutexClient
    <3>1. PICK m \in Mutexes :
            \/ AcquireFree(m)
            \/ \E timed \in AcquireModes : AcquireBlock(m, timed)
            \/ AcquireReturn(m)
            \/ Release(m)
            \/ MayDestroy /\ Destroy(m)
      BY <2>2 DEF MutexClient
    <3>2. QED
      BY <3>1, AcquireFreeOK, AcquireBlockOK, AcquireReturnOK, ReleaseOK, DestroyOK,
         MutexAssumption
  <2>3. CASE UNCHANGED mvars
    <3>1. UNCHANGED tvars /\ UNCHANGED <<mtx, own>>
      BY <2>3 DEF mvars, tvars
    <3>2. ThreadInv'
      BY <3>1, StutterOK DEF MutexInv
    <3>3. QED
      BY <3>1, <3>2 DEF tvars, MutexInv, MutexTypeOK, MutualExclusion, HolderIsOwner,
         CountIsEngaged, OwnersDoNotWait, LiveAnswers, DrainsAreDestroys, Engaged, HandedOff
  <2>4. QED BY <2>1, <2>2, <2>3 DEF MutexNext
<1>3. QED
  BY <1>1, <1>2, PTL DEF MutexSpec

\* A mutex never has two owners, the thread to which mutex_release has handed
\* it and which has not run since counted as one.
THEOREM MutexExcludes ==
  ASSUME ExclusiveResume
  PROVE  MutexSpec => []MutualExclusion
<1>1. MutexInv => MutualExclusion
  BY DEF MutexInv
<1>2. QED
  BY <1>1, MutexInvariant, PTL

\* m->count and m->holder of a live mutex say who is engaged with it.
THEOREM MutexBookkeeping ==
  ASSUME ExclusiveResume
  PROVE  MutexSpec => [](CountIsEngaged /\ HolderIsOwner)
<1>1. MutexInv => CountIsEngaged /\ HolderIsOwner
  BY DEF MutexInv
<1>2. QED
  BY <1>1, MutexInvariant, PTL

\* The variables of the mutexes keep their types: holder is a thread or none,
\* and the owners of a mutex are threads.
THEOREM MutexesTyped ==
  ASSUME ExclusiveResume
  PROVE  MutexSpec => []MutexTypeOK
<1>1. MutexInv => MutexTypeOK
  BY DEF MutexInv
<1>2. QED
  BY <1>1, MutexInvariant, PTL

\* m->count of a live mutex is the number of threads that own it or are inside
\* acquire, those that have timed out and not run since included.
THEOREM CountsEngaged ==
  ASSUME ExclusiveResume
  PROVE  MutexSpec => []CountIsEngaged
<1>1. MutexInv => CountIsEngaged
  BY DEF MutexInv
<1>2. QED
  BY <1>1, MutexInvariant, PTL

-----------------------------------------------------------------------------
(* What a step does to a mutex as a lock.                                   *)

Same(m) ==
  /\ Granted(m)' = Granted(m) /\ Failed(m)' = Failed(m)
  /\ wq'.list[m] = wq.list[m] /\ mtx'.alive[m] = mtx.alive[m]

\* A thread that has nothing to do with the mutex gets it, or is put last.
Asked(m) ==
  /\ mtx.alive[m] /\ mtx'.alive[m]
  /\ Failed(m)' = Failed(m)
  /\ \E c \in Threads :
       /\ c \notin Granted(m) /\ c \notin Failed(m) /\ ~Listed(c, wq.list[m])
       /\ IF Granted(m) = {} /\ Failed(m) = {} /\ wq.list[m] = <<>>
          THEN Granted(m)' = {c} /\ wq'.list[m] = wq.list[m]
          ELSE Granted(m)' = Granted(m) /\ wq'.list[m] = Append(wq.list[m], c)

\* The one that has it hands it to the first that waits, or to nobody.
Given(m) ==
  /\ mtx.alive[m] /\ mtx'.alive[m]
  /\ Failed(m)' = Failed(m)
  /\ \E c \in Threads : Granted(m) = {c}
  /\ IF wq.list[m] = <<>>
     THEN Granted(m)' = {} /\ wq'.list[m] = wq.list[m]
     ELSE Granted(m)' = {Head(wq.list[m])} /\ wq'.list[m] = Tail(wq.list[m])

GaveUp(m) ==
  /\ Granted(m)' = Granted(m) /\ mtx'.alive[m] = mtx.alive[m]
  /\ \E i \in DOMAIN wq.list[m] :
       /\ wq'.list[m] = RemoveAt(wq.list[m], i)
       /\ Failed(m)' = Failed(m) \cup {wq.list[m][i]}

Left(m) ==
  /\ Granted(m)' = Granted(m)
  /\ wq'.list[m] = wq.list[m] /\ mtx'.alive[m] = mtx.alive[m]
  /\ \E c \in Failed(m) : Failed(m)' = Failed(m) \ {c}

Closed(m) ==
  /\ mtx.alive[m] /\ ~mtx'.alive[m]
  /\ Granted(m)' = Granted(m) /\ Failed(m)' = Failed(m) /\ wq'.list[m] = wq.list[m]

Move(m) == Asked(m) \/ Given(m) \/ GaveUp(m) \/ Left(m) \/ Closed(m)

\* A step moves one mutex at most.
OneMove(m) == (Same(m) \/ Move(m)) /\ \A y \in Mutexes : y # m => Same(y)

\* Threads that no step has touched are handed, and have failed, what they were.
LEMMA UntouchedSame ==
  ASSUME UNCHANGED <<mtx, own>>, NEW m \in Mutexes, wq'.list[m] = wq.list[m],
         \A u \in Threads : frame'[u].q = m <=> frame[u].q = m,
         \A u \in Threads : frame[u].q = m => Untouched(u)
  PROVE  Same(m)
<1>1. HandedOff(m)' = HandedOff(m) /\ Failed(m)' = Failed(m)
  BY DEF HandedOff, Failed, Untouched
<1> QED
  BY <1>1 DEF Same, Granted

\* A waiter that is taken off the list of queue z with an error.
LEMMA WaiterFails ==
  ASSUME MutexInv, ThreadInv', UNCHANGED <<mtx, own>>, frame' = frame,
         NEW z \in Queues, NEW t \in Threads, NEW i, NEW err, TakenOff(z, t, i, err),
         z \in Mutexes => err # "ok"
  PROVE  (z \in Mutexes => GaveUp(z)) /\ \A m \in Mutexes : m # z => Same(m)
<1> USE DEF MutexInv
<1>1. /\ \A u \in Threads : k'.state[u] = "blocked" <=> k.state[u] = "blocked" /\ u # t
      /\ \A u \in Threads : wq'.ret[u] = IF u = t THEN err ELSE wq.ret[u]
  BY RemovedIsUnblocked DEF TakenOff
<1>2. frame[t].q = z
  BY DEF ThreadInv, CallsMatch, TakenOff
<1>3. ASSUME NEW m \in Mutexes, m # z PROVE Same(m)
  <2>1. m \in Queues /\ wq'.list[m] = wq.list[m]
    BY <1>3, MutexTypes DEF Removed, TakenOff
  <2>2. ASSUME NEW u \in Threads, frame[u].q = m PROVE Untouched(u)
    BY <1>1, <1>2, <1>3, <2>2 DEF Untouched
  <2>3. QED
    BY <2>1, <2>2, UntouchedSame
<1>4. ASSUME z \in Mutexes PROVE GaveUp(z)
  <2>1. HandedOff(z)' = HandedOff(z)
    BY <1>1, <1>4 DEF HandedOff, TakenOff
  <2>2. Failed(z)' = Failed(z) \cup {t}
    BY <1>1, <1>2, <1>4 DEF Failed, TakenOff
  <2>3. QED
    BY <2>1, <2>2 DEF GaveUp, Granted, TakenOff
<1> QED
  BY <1>3, <1>4

\* The scheduler by itself, timers and the loop that empties a destroyed mutex
\* included, only ever lets a waiter fail.
LEMMA CoreMoves ==
  ASSUME MutexInv, ThreadInv', Core, UNCHANGED <<mtx, own>>
  PROVE  (\A m \in Mutexes : Same(m)) \/ \E z \in Mutexes : OneMove(z)
<1>1. frame' = frame /\ "timeout" # "ok" /\ "destroyed" # "ok" /\ ThreadInv
  BY CoreWaiters DEF MutexInv
<1>2. CASE /\ wq'.list = wq.list
           /\ \A u \in Threads : frame[u].q # NoQueue => Untouched(u)
  BY <1>1, <1>2, UntouchedSame, MutexTypes DEF MutexInv
<1>3. ASSUME NEW z \in Queues, NEW t \in Threads, NEW i, NEW err, TakenOff(z, t, i, err),
             z \in Mutexes => err # "ok"
      PROVE  (\A m \in Mutexes : Same(m)) \/ \E y \in Mutexes : OneMove(y)
  BY <1>1, <1>3, WaiterFails DEF OneMove, Move
<1>4. drain.q \in Mutexes => drain.err # "ok"
  BY <1>1 DEF MutexInv, DrainsAreDestroys
<1> QED
  BY <1>1, <1>2, <1>3, <1>4, CoreTakesOff

\* A thread that runs does not wait.
LEMMA RunningIsNotListed ==
  ASSUME ThreadInv, k.state[k.cur] = "running", NEW m \in Queues
  PROVE  ~Listed(k.cur, wq.list[m])
BY Types DEF ThreadInv, WaitQueuesMatch, WaitMatch

\* The threads engaged with a live mutex are those that have it, those that
\* wait for it and those whose wait has failed.
LEMMA EngagedAre ==
  ASSUME MutexInv, NEW m \in Mutexes
  PROVE  Engaged(m) = {} <=> Granted(m) = {} /\ Failed(m) = {} /\ wq.list[m] = <<>>
<1> USE DEF MutexInv
<1>1. m \in Queues /\ m # NoQueue /\ wq.list[m] \in Seq(Threads)
  BY MutexTypes DEF ThreadInv, TypeOK, Waits
<1>2. \A t \in Threads : Listed(t, wq.list[m]) <=> frame[t].q = m /\ k.state[t] = "blocked"
  BY <1>1 DEF ThreadInv, CallsMatch, WaitQueuesMatch, WaitMatch
<1>3. wq.list[m] = <<>> <=> \A t \in Threads : ~Listed(t, wq.list[m])
  <2>1. \A t : Listed(t, wq.list[m]) => t \in Threads
    BY <1>1 DEF Listed
  <2> QED
    BY <1>1, <2>1, EmptyIffNoneListed
<1> QED
  BY <1>2, <1>3 DEF Engaged, Granted, HandedOff, Failed

LEMMA FreeMoves ==
  ASSUME MutexInv, NEW z \in Mutexes, AcquireFree(z)
  PROVE  OneMove(z)
<1> USE DEF MutexInv
<1>1. PICK c \in Threads : c = k.cur
  BY Types DEF ThreadInv
<1>2. /\ frame' = frame /\ wq' = wq /\ k' = k /\ mtx.alive[z] /\ mtx'.alive = mtx.alive
      /\ \A y \in Mutexes : own'[y] = IF y = z THEN own[y] \cup {c} ELSE own[y]
  <2>1. frame' = frame /\ wq' = wq /\ k' = k /\ mtx.alive[z]
    BY DEF AcquireFree, MayAcquire, tvars
  <2>2. mtx'.alive = mtx.alive
    BY DEF AcquireFree, MutexTypeOK
  <2>3. \A y \in Mutexes : own'[y] = IF y = z THEN own[y] \cup {c} ELSE own[y]
    BY <1>1, MutexTypes DEF AcquireFree
  <2> QED
    BY <2>1, <2>2, <2>3
<1>3. \A m \in Mutexes : HandedOff(m)' = HandedOff(m) /\ Failed(m)' = Failed(m)
  BY <1>2 DEF HandedOff, Failed
<1>4. \A m \in Mutexes : m # z => Same(m)
  BY <1>2, <1>3 DEF Same, Granted
<1>5. Engaged(z) = {}
  <2>1. mtx.count[z] + 1 <= 1 /\ mtx.count[z] = Cardinality(Engaged(z))
    BY <1>2 DEF AcquireFree, CountIsEngaged
  <2>2. Cardinality(Engaged(z)) = 0
    BY <2>1, EngagedFinite
  <2>3. QED
    BY <2>2, EngagedFinite, FS_EmptySet
<1>6. Granted(z) = {} /\ Failed(z) = {} /\ wq.list[z] = <<>>
  BY <1>5, EngagedAre
<1>7. Granted(z)' = {c}
  BY <1>2, <1>3, <1>6 DEF Granted
<1>8. ~Listed(c, wq.list[z])
  BY <1>6 DEF Listed
<1>9. Asked(z)
  BY <1>2, <1>3, <1>6, <1>7, <1>8 DEF Asked
<1>10. QED
  BY <1>4, <1>9 DEF OneMove, Move

LEMMA BlockMoves ==
  ASSUME MutexInv, NEW z \in Mutexes, NEW timed \in BOOLEAN, AcquireBlock(z, timed)
  PROVE  OneMove(z)
<1> USE DEF MutexInv
<1>1. PICK c \in Threads : c = k.cur
  BY Types DEF ThreadInv
<1>2. /\ mtx.alive[z] /\ mtx'.alive = mtx.alive
      /\ mtx.holder[z] # c /\ mtx.count[z] + 1 > 1 /\ Block(z, timed)
      /\ z # NoQueue /\ z \in Queues /\ own' = own
      /\ frame[c].q = NoQueue /\ k.state[c] = "running"
      /\ drain.q = NoQueue /\ c # Idle
  BY <1>1, Types, MutexTypes
     DEF AcquireBlock, MayAcquire, Block, Caller, InThread, ThreadInv, CallsMatch, CpuAccounted,
         MutexTypeOK
<1>3. /\ frame' = [frame EXCEPT ![c] = [q |-> z, timed |-> timed]]
      /\ wq'.ret = [wq.ret EXCEPT ![c] = "ok"]
      /\ wq'.list = [wq.list EXCEPT ![z] = Append(wq.list[z], c)]
  BY <1>1, <1>2 DEF Block, PushWaiter, ThreadInv, TypeOK, Waits
<1>4. PICK new \in Threads :
        /\ new # c /\ k.state[new] = "ready"
        /\ \A t \in Threads : k'.state[t] = IF t = new THEN "running"
                                           ELSE IF t = c THEN "blocked" ELSE k.state[t]
  BY <1>1, <1>2, LeavesCpu DEF Block
<1>5. /\ \A t \in Threads : frame'[t].q = IF t = c THEN z ELSE frame[t].q
      /\ \A t \in Threads : wq'.ret[t] = IF t = c THEN "ok" ELSE wq.ret[t]
      /\ \A t \in Threads : k'.state[t] = "blocked" <=> k.state[t] = "blocked" \/ t = c
      /\ \A m \in Queues : wq'.list[m] = IF m = z THEN Append(wq.list[m], c) ELSE wq.list[m]
  <2>1. /\ wq.list \in [Queues -> Seq(Threads)] /\ wq.ret \in [Threads -> Results]
        /\ frame \in [Threads -> [q : Queues \cup {NoQueue}, timed : BOOLEAN]]
    BY DEF ThreadInv, TypeOK, Waits
  <2>2. \A t \in Threads : k'.state[t] = "blocked" <=> k.state[t] = "blocked" \/ t = c
    BY <1>2, <1>4
  <2>3. \A m \in Queues : wq'.list[m] = IF m = z THEN Append(wq.list[m], c) ELSE wq.list[m]
    BY <1>2, <1>3, <2>1
  <2>4. QED
    BY <1>3, <2>1, <2>2, <2>3
<1>6. \A m \in Mutexes : HandedOff(m)' = HandedOff(m) /\ Failed(m)' = Failed(m)
  BY <1>2, <1>5, MutexTypes DEF HandedOff, Failed
<1>7. \A m \in Mutexes : m # z => Same(m)
  BY <1>2, <1>5, <1>6, MutexTypes DEF Same, Granted
<1>8. c \notin Granted(z) /\ c \notin Failed(z)
  BY <1>2 DEF Granted, HandedOff, Failed, HolderIsOwner
<1>9. ~Listed(c, wq.list[z])
  BY <1>1, <1>2, RunningIsNotListed
<1>10. ~(Granted(z) = {} /\ Failed(z) = {} /\ wq.list[z] = <<>>)
  <2>1. Engaged(z) # {}
    <3>1. mtx.count[z] = Cardinality(Engaged(z)) /\ mtx.count[z] \in Int
      BY <1>2, MutexTypes DEF CountIsEngaged
    <3>2. Cardinality(Engaged(z)) # 0
      BY <1>2, <3>1
    <3>3. QED
      BY <3>2, FS_EmptySet, Zenon
  <2>2. QED
    BY <2>1, EngagedAre
<1>11. Granted(z)' = Granted(z) /\ wq'.list[z] = Append(wq.list[z], c)
  BY <1>2, <1>5, <1>6 DEF Granted
<1>12. Asked(z)
  BY <1>2, <1>6, <1>8, <1>9, <1>10, <1>11 DEF Asked
<1>13. QED
  BY <1>7, <1>12 DEF OneMove, Move

LEMMA ReturnMoves ==
  ASSUME MutexInv, NEW z \in Mutexes, AcquireReturn(z)
  PROVE  OneMove(z)
<1> USE DEF MutexInv
<1>1. PICK c \in Threads : c = k.cur
  BY Types DEF ThreadInv
<1>2. /\ z # NoQueue /\ frame[c].q = z /\ k.state[c] = "running"
      /\ UNCHANGED <<k, wq>> /\ frame' = [frame EXCEPT ![c] = NoFrame]
      /\ mtx'.alive = mtx.alive
  BY <1>1, MutexTypes DEF AcquireReturn, BlockReturn, ThreadInv, CpuAccounted, MutexTypeOK
<1>3. \A t \in Threads : frame'[t].q = IF t = c THEN NoQueue ELSE frame[t].q
  BY <1>2, Types DEF ThreadInv, NoFrame
<1>4. \A y \in Mutexes :
        own'[y] = IF y = z /\ wq.ret[c] = "ok" THEN own[y] \cup {c} ELSE own[y]
  BY <1>1, MutexTypes DEF AcquireReturn
<1>5. \A m \in Mutexes :
        HandedOff(m)' = HandedOff(m) \ {c} /\ Failed(m)' = Failed(m) \ {c}
  BY <1>2, <1>3, MutexTypes DEF HandedOff, Failed
<1>6. \A m \in Mutexes : m # z => c \notin HandedOff(m) /\ c \notin Failed(m)
  BY <1>2 DEF HandedOff, Failed
<1>7. \A m \in Mutexes : m # z => Same(m)
  <2> SUFFICES ASSUME NEW m \in Mutexes, m # z PROVE Same(m)
    OBVIOUS
  <2>1. HandedOff(m)' = HandedOff(m) /\ Failed(m)' = Failed(m)
    BY <1>5, <1>6
  <2> QED
    BY <1>2, <1>4, <2>1 DEF Same, Granted
<1>8. CASE wq.ret[c] = "ok"
  <2>1. c \in HandedOff(z) /\ c \notin Failed(z)
    BY <1>2, <1>8 DEF HandedOff, Failed
  <2>2. Granted(z)' = Granted(z) /\ Failed(z)' = Failed(z)
    BY <1>4, <1>5, <1>8, <2>1 DEF Granted
  <2>3. Same(z)
    BY <1>2, <2>2 DEF Same
  <2> QED
    BY <1>7, <2>3 DEF OneMove
<1>9. CASE wq.ret[c] # "ok"
  <2>1. c \notin HandedOff(z) /\ c \in Failed(z)
    BY <1>2, <1>9 DEF HandedOff, Failed
  <2>2. Left(z)
    BY <1>2, <1>4, <1>5, <1>9, <2>1 DEF Left, Granted
  <2> QED
    BY <1>7, <2>2 DEF OneMove, Move
<1>10. QED
  BY <1>8, <1>9

LEMMA ReleaseMoves ==
  ASSUME MutexInv, NEW z \in Mutexes, Release(z)
  PROVE  OneMove(z)
<1> USE DEF MutexInv
<1> DEFINE woken == wq' # wq
<1>1. PICK c \in Threads : c = k.cur
  BY Types DEF ThreadInv
<1>2. PICK h : h = Head(wq.list[z])
  OBVIOUS
<1>3. /\ z \in Queues /\ mtx.alive[z] /\ mtx.holder[z] = c
      /\ c \in own[z] /\ frame[c].q = NoQueue /\ z # NoQueue
      /\ k.state[c] = "running" /\ frame' = frame
      /\ (woken => /\ h \in Threads /\ frame[h].q = z
                   /\ k'.state[h] # "blocked" /\ wq'.ret[h] = "ok"
                   /\ \A u \in Threads : u # h => Untouched(u))
      /\ (~woken => \A u \in Threads : Untouched(u))
      /\ (woken => wq' = PopWaiter(wq, z, "ok") /\ wq.list[z] # <<>>)
      /\ (~woken => ~(mtx.count[z] - 1 >= 1 /\ wq.list[z] # <<>>))
  BY <1>1, <1>2, ReleaseWakes
<1> HIDE DEF woken
<1>4. /\ \A y \in Mutexes : own'[y] = IF y = z THEN own[y] \ {c} ELSE own[y]
      /\ mtx'.alive = mtx.alive
  BY <1>1, MutexTypes DEF Release, MutexTypeOK
<1>5. \A m \in Queues : wq'.list[m] = IF m = z /\ woken THEN Tail(wq.list[m]) ELSE wq.list[m]
  <2>1. CASE woken
    <3>1. wq'.list = [wq.list EXCEPT ![z] = Tail(wq.list[z])]
      BY <1>3, <2>1 DEF PopWaiter, ThreadInv, TypeOK, Waits
    <3>2. wq.list \in [Queues -> Seq(Threads)]
      BY DEF ThreadInv, TypeOK, Waits
    <3>3. QED
      BY <1>3, <2>1, <3>1, <3>2
  <2>2. CASE ~woken
    BY <2>2 DEF woken
  <2>3. QED
    BY <2>1, <2>2
<1>6. ASSUME NEW m \in Mutexes, m # z PROVE Same(m)
  <2>1. m \in Queues /\ \A u \in Threads : frame[u].q = m => Untouched(u)
    BY <1>3, <1>6, MutexTypes
  <2>2. HandedOff(m)' = HandedOff(m) /\ Failed(m)' = Failed(m)
    BY <1>3, <2>1 DEF HandedOff, Failed, Untouched
  <2>3. QED
    BY <1>3, <1>4, <1>5, <1>6, <2>1, <2>2 DEF Same, Granted
<1>7. Granted(z) = {c} /\ c \notin HandedOff(z)
  BY <1>3 DEF Granted, MutualExclusion, HandedOff
<1>8. own'[z] = {} /\ HandedOff(z) = {}
  BY <1>4, <1>7 DEF Granted
<1>9. CASE woken
  <2>1. HandedOff(z)' = {h}
    BY <1>3, <1>8, <1>9 DEF HandedOff, Untouched
  <2>2. k.state[h] = "blocked"
    BY <1>2, <1>3, <1>9, HeadBlocked
  <2>3. Failed(z)' = Failed(z)
    BY <1>3, <1>9, <2>2 DEF Failed, Untouched
  <2>4. Given(z)
    BY <1>2, <1>3, <1>4, <1>5, <1>7, <1>8, <1>9, <2>1, <2>3 DEF Given, Granted
  <2> QED
    BY <1>6, <2>4 DEF OneMove, Move
<1>10. CASE ~woken
  <2>1. HandedOff(z)' = {} /\ Failed(z)' = Failed(z)
    BY <1>3, <1>8, <1>10 DEF HandedOff, Failed, Untouched
  <2>2. wq.list[z] = <<>>
    <3>1. SUFFICES ASSUME wq.list[z] # <<>> PROVE mtx.count[z] - 1 >= 1
      BY <1>3, <1>10
    <3>2. PICK w \in Threads : frame[w].q = z
      BY <1>3, <3>1, HeadBlocked
    <3>3. {c, w} \subseteq Engaged(z) /\ c # w
      BY <1>3, <3>2 DEF Engaged
    <3>4. Cardinality({c, w}) = 2 /\ IsFiniteSet({c, w})
      <4>1. IsFiniteSet({c}) /\ Cardinality({c}) = 1
        BY FS_Singleton
      <4>2. Cardinality({c} \cup {w}) = 1 + 1 /\ IsFiniteSet({c} \cup {w})
        BY <3>3, <4>1, FS_AddElement
      <4>3. {c, w} = {c} \cup {w}
        OBVIOUS
      <4>4. QED
        BY <4>2, <4>3
    <3>5. Cardinality({c, w}) <= Cardinality(Engaged(z))
      BY <3>3, EngagedFinite, FS_Subset
    <3>6. mtx.count[z] = Cardinality(Engaged(z)) /\ Cardinality(Engaged(z)) \in Nat
      BY <1>3, EngagedFinite DEF CountIsEngaged
    <3>7. QED
      BY <3>4, <3>5, <3>6
  <2>3. Granted(z)' = {}
    BY <1>8, <2>1 DEF Granted
  <2>4. Given(z)
    BY <1>3, <1>4, <1>5, <1>7, <1>10, <2>1, <2>2, <2>3 DEF Given
  <2>5. QED
    BY <1>6, <2>4 DEF OneMove, Move
<1>11. QED
  BY <1>9, <1>10

LEMMA DestroyMoves ==
  ASSUME MutexInv, MutexInv', NEW z \in Mutexes, Destroy(z)
  PROVE  OneMove(z)
<1> USE DEF MutexInv
<1>1. mtx.alive[z] /\ own' = own /\ frame' = frame /\ wq' = wq
  BY DEF Destroy, WakeAll, tvars
<1>2. \A m \in Mutexes : mtx'.alive[m] = IF m = z THEN FALSE ELSE mtx.alive[m]
  BY MutexTypes DEF Destroy, MutexTypeOK
<1>3. \A u \in Threads : Untouched(u)
  BY <1>1, SameListsSameBlocked DEF Untouched
<1>4. \A m \in Mutexes : Granted(m)' = Granted(m) /\ Failed(m)' = Failed(m)
  BY <1>1, <1>3 DEF Granted, HandedOff, Failed, Untouched
<1> QED
  BY <1>1, <1>2, <1>4 DEF OneMove, Same, Move, Closed

\* Every step of the whole is one move of one mutex, or none.
LEMMA MutexMoves ==
  ASSUME MutexInv, MutexInv', [MutexNext]_mvars
  PROVE  (\A m \in Mutexes : Same(m)) \/ \E z \in Mutexes : OneMove(z)
<1>1. CASE Core /\ UNCHANGED <<mtx, own>>
  BY <1>1, CoreMoves DEF MutexInv
<1>2. CASE MutexClient
  <2>1. PICK z \in Mutexes : \/ AcquireFree(z)
                             \/ \E timed \in AcquireModes : AcquireBlock(z, timed)
                             \/ AcquireReturn(z) \/ Release(z) \/ Destroy(z)
    BY <1>2 DEF MutexClient
  <2>2. OneMove(z)
    BY <2>1, MutexAssumption, FreeMoves, BlockMoves, ReturnMoves, ReleaseMoves, DestroyMoves
  <2> QED
    BY <2>2
<1>3. CASE UNCHANGED mvars
  BY <1>3 DEF mvars, Same, Granted, HandedOff, Failed
<1> QED
  BY <1>1, <1>2, <1>3 DEF MutexNext

-----------------------------------------------------------------------------
(* The mutexes are locks.                                                   *)

LEMMA OneOfIs ==
  ASSUME NEW S, S \subseteq Threads
  PROVE  /\ OneOf(S) = NoThread <=> S = {}
         /\ S # {} => OneOf(S) \in S
<1>1. ASSUME S # {} PROVE OneOf(S) \in S
  <2>1. \E t \in S : TRUE
    BY <1>1
  <2>2. OneOf(S) = CHOOSE t \in S : TRUE
    BY <1>1 DEF OneOf
  <2> QED
    BY <2>1, <2>2
<1>2. S = {} => OneOf(S) = NoThread
  BY DEF OneOf
<1> QED
  BY <1>1, <1>2, ThreadAssumption

LEMMA GrantedThreads ==
  ASSUME MutexTypeOK, NEW m \in Mutexes
  PROVE  Granted(m) \subseteq Threads /\ Failed(m) \subseteq Threads
BY MutexTypes DEF Granted, HandedOff, Failed

LEMMA SameAtOne ==
  ASSUME NEW S, NEW f, f = [m \in S |-> f[m]], NEW z \in S
  PROVE  [f EXCEPT ![z] = f[z]] = f
OBVIOUS

\* The variables of the abstract locks, before and after a step that moves one
\* mutex at most.
LEMMA LocksMove ==
  ASSUME NEW z \in Mutexes, \A m \in Mutexes : m # z => Same(m)
  PROVE  /\ Owners[z] = OneOf(Granted(z)) /\ Waiters[z] = wq.list[z]
         /\ Leavers[z] = Failed(z) /\ Opened[z] = mtx.alive[z]
         /\ Owners' = [Owners EXCEPT ![z] = OneOf(Granted(z)')]
         /\ Waiters' = [Waiters EXCEPT ![z] = wq'.list[z]]
         /\ Leavers' = [Leavers EXCEPT ![z] = Failed(z)']
         /\ Opened' = [Opened EXCEPT ![z] = mtx'.alive[z]]
<1>1. Owners' = [Owners EXCEPT ![z] = OneOf(Granted(z)')]
  <2>1. Owners' = [m \in Mutexes |-> OneOf(Granted(m)')]
    BY DEF Owners, OneOf
  <2>2. \A m \in Mutexes : m # z => OneOf(Granted(m)') = OneOf(Granted(m))
    BY DEF Same
  <2> QED
    BY <2>1, <2>2 DEF Owners
<1>2. Waiters' = [Waiters EXCEPT ![z] = wq'.list[z]]
  BY DEF Waiters, Same
<1>3. Leavers' = [Leavers EXCEPT ![z] = Failed(z)']
  BY DEF Leavers, Same
<1>4. Opened' = [Opened EXCEPT ![z] = mtx'.alive[z]]
  BY DEF Opened, Same
<1> QED
  BY <1>1, <1>2, <1>3, <1>4 DEF Owners, Waiters, Leavers, Opened

LEMMA LocksStay ==
  ASSUME \A m \in Mutexes : Same(m)
  PROVE  UNCHANGED <<Owners, Waiters, Leavers, Opened>>
<1>1. Owners' = [m \in Mutexes |-> OneOf(Granted(m)')]
  BY DEF Owners, OneOf
<1>2. Owners' = Owners
  BY <1>1 DEF Same, Owners
<1> QED
  BY <1>2 DEF Same, Waiters, Leavers, Opened

LEMMA LocksInit ==
  ASSUME MutexInit
  PROVE  \A m \in Mutexes : /\ Granted(m) = {} /\ Failed(m) = {}
                            /\ wq.list[m] = <<>> /\ mtx.alive[m] = TRUE
BY MutexAssumption, ThreadAssumption DEF MutexInit, ThreadInit, NoFrame, Granted, HandedOff, Failed

\* Whatever timeouts expire and whatever mutexes are destroyed, and when: what
\* happens to the mutexes is what TimedLock allows.
THEOREM MutexIsTimedLock ==
  ASSUME ExclusiveResume
  PROVE  MutexSpec => ImplementsTimedLock
<1>1. MutexInit => TheTimedLock!Init
  <2> SUFFICES ASSUME MutexInit PROVE TheTimedLock!Init
    OBVIOUS
  <2>1. \A m \in Mutexes : OneOf(Granted(m)) = NoThread
    BY LocksInit DEF OneOf
  <2> QED
    BY LocksInit, <2>1 DEF TheTimedLock!Init, Owners, Waiters, Leavers, Opened
<1>2. MutexInv /\ MutexInv' /\ [MutexNext]_mvars => [TheTimedLock!Next]_(TheTimedLock!lvars)
  <2> SUFFICES ASSUME MutexInv, MutexInv', [MutexNext]_mvars
               PROVE  TheTimedLock!Next \/ UNCHANGED TheTimedLock!lvars
    OBVIOUS
  <2>1. CASE \A m \in Mutexes : Same(m)
    BY <2>1, LocksStay DEF TheTimedLock!lvars
  <2>2. ASSUME NEW z \in Mutexes, OneMove(z)
        PROVE  TheTimedLock!Next \/ UNCHANGED TheTimedLock!lvars
    <3>1. /\ Owners[z] = OneOf(Granted(z)) /\ Waiters[z] = wq.list[z]
          /\ Leavers[z] = Failed(z) /\ Opened[z] = mtx.alive[z]
          /\ Owners' = [Owners EXCEPT ![z] = OneOf(Granted(z)')]
          /\ Waiters' = [Waiters EXCEPT ![z] = wq'.list[z]]
          /\ Leavers' = [Leavers EXCEPT ![z] = Failed(z)']
          /\ Opened' = [Opened EXCEPT ![z] = mtx'.alive[z]]
      BY <2>2, LocksMove DEF OneMove
    <3>2. Granted(z) \subseteq Threads /\ Granted(z)' \subseteq Threads /\ Failed(z) \subseteq Threads
      <4>1. own'[z] \subseteq Threads
        BY DEF MutexInv, MutexTypeOK
      <4>2. Granted(z)' \subseteq Threads
        BY <4>1 DEF Granted, HandedOff
      <4> QED
        BY <4>2, GrantedThreads DEF MutexInv
    <3>3. /\ Granted(z)' = Granted(z) => Owners' = Owners
          /\ Failed(z)' = Failed(z) => Leavers' = Leavers
          /\ wq'.list[z] = wq.list[z] => Waiters' = Waiters
          /\ mtx'.alive[z] = mtx.alive[z] => Opened' = Opened
      <4>1. /\ Owners = [m \in Mutexes |-> Owners[m]] /\ Waiters = [m \in Mutexes |-> Waiters[m]]
            /\ Leavers = [m \in Mutexes |-> Leavers[m]] /\ Opened = [m \in Mutexes |-> Opened[m]]
        BY DEF Owners, Waiters, Leavers, Opened
      <4>2. /\ [Owners EXCEPT ![z] = Owners[z]] = Owners
            /\ [Waiters EXCEPT ![z] = Waiters[z]] = Waiters
            /\ [Leavers EXCEPT ![z] = Leavers[z]] = Leavers
            /\ [Opened EXCEPT ![z] = Opened[z]] = Opened
        BY <4>1, SameAtOne
      <4> QED
        BY <3>1, <4>2
    <3>4. mtx.alive[z] \in BOOLEAN /\ mtx'.alive[z] \in BOOLEAN
      BY DEF MutexInv, MutexTypeOK
    <3>5. CASE Same(z)
      BY <3>3, <3>5 DEF Same, TheTimedLock!lvars
    <3>6. CASE Asked(z)
      <4>1. PICK c \in Threads :
              /\ c \notin Granted(z) /\ c \notin Failed(z) /\ ~Listed(c, wq.list[z])
              /\ IF Granted(z) = {} /\ Failed(z) = {} /\ wq.list[z] = <<>>
                 THEN Granted(z)' = {c} /\ wq'.list[z] = wq.list[z]
                 ELSE Granted(z)' = Granted(z) /\ wq'.list[z] = Append(wq.list[z], c)
        BY <3>6 DEF Asked
      <4>2. Opened[z] /\ UNCHANGED <<Leavers, Opened>>
        BY <3>1, <3>3, <3>4, <3>6 DEF Asked
      <4>3. Owners[z] # c /\ c \notin Leavers[z] /\ \A i \in DOMAIN Waiters[z] : Waiters[z][i] # c
        BY <3>1, <3>2, <4>1, OneOfIs, ThreadAssumption DEF Listed
      <4>4. TheTimedLock!Unused(z) <=> Granted(z) = {} /\ Failed(z) = {} /\ wq.list[z] = <<>>
        BY <3>1, <3>2, OneOfIs DEF TheTimedLock!Unused
      <4>5. CASE TheTimedLock!Unused(z)
        <5>1. Granted(z)' = {c} /\ wq'.list[z] = wq.list[z]
          BY <4>1, <4>4, <4>5
        <5>2. OneOf(Granted(z)') = c
          BY <5>1, OneOfIs
        <5>3. Owners' = [Owners EXCEPT ![z] = c] /\ UNCHANGED Waiters
          BY <3>1, <3>3, <5>1, <5>2
        <5>4. TheTimedLock!Request(z, c)
          BY <4>2, <4>3, <4>5, <5>3 DEF TheTimedLock!Request
        <5> QED
          BY <5>4 DEF TheTimedLock!Next
      <4>6. CASE ~TheTimedLock!Unused(z)
        <5>1. UNCHANGED Owners /\ Waiters' = [Waiters EXCEPT ![z] = Append(Waiters[z], c)]
          BY <3>1, <3>3, <4>1, <4>4, <4>6
        <5>2. TheTimedLock!Request(z, c)
          BY <4>2, <4>3, <4>6, <5>1 DEF TheTimedLock!Request
        <5> QED
          BY <5>2 DEF TheTimedLock!Next
      <4> QED
        BY <4>5, <4>6
    <3>7. CASE Given(z)
      <4>1. Opened[z] /\ UNCHANGED <<Leavers, Opened>>
        BY <3>1, <3>3, <3>4, <3>7 DEF Given
      <4>2. Owners[z] # NoThread
        BY <3>1, <3>2, <3>7, OneOfIs DEF Given
      <4>3. CASE Waiters[z] = <<>>
        <5>1. Owners' = [Owners EXCEPT ![z] = NoThread] /\ UNCHANGED Waiters
          BY <3>1, <3>3, <3>7, <4>3 DEF Given, OneOf
        <5> QED
          BY <4>1, <4>2, <4>3, <5>1 DEF TheTimedLock!GiveBack, TheTimedLock!Next
      <4>4. CASE Waiters[z] # <<>>
        <5>1. Granted(z)' = {Head(wq.list[z])} /\ wq'.list[z] = Tail(wq.list[z])
          BY <3>1, <3>7, <4>4 DEF Given
        <5>2. OneOf(Granted(z)') = Head(wq.list[z])
          BY <3>2, <5>1, OneOfIs
        <5>3. /\ Owners' = [Owners EXCEPT ![z] = Head(Waiters[z])]
              /\ Waiters' = [Waiters EXCEPT ![z] = Tail(Waiters[z])]
          BY <3>1, <5>1, <5>2
        <5> QED
          BY <4>1, <4>2, <4>4, <5>3 DEF TheTimedLock!GiveBack, TheTimedLock!Next
      <4> QED
        BY <4>3, <4>4
    <3>8. CASE GaveUp(z)
      <4>1. PICK i \in DOMAIN wq.list[z] :
              /\ wq'.list[z] = RemoveAt(wq.list[z], i)
              /\ Failed(z)' = Failed(z) \cup {wq.list[z][i]}
        BY <3>8 DEF GaveUp
      <4>2. TheTimedLock!GiveUp(z, i)
        BY <3>1, <3>3, <3>8, <4>1 DEF GaveUp, TheTimedLock!GiveUp, RemoveAt, TheTimedLock!RemoveAt
      <4> QED
        BY <3>1, <4>1, <4>2 DEF TheTimedLock!Next
    <3>9. CASE Left(z)
      <4>1. PICK c \in Failed(z) : Failed(z)' = Failed(z) \ {c}
        BY <3>9 DEF Left
      <4>2. TheTimedLock!Leave(z, c)
        BY <3>1, <3>3, <3>9, <4>1 DEF Left, TheTimedLock!Leave
      <4> QED
        BY <3>2, <4>2 DEF TheTimedLock!Next
    <3>10. CASE Closed(z)
      <4>1. TheTimedLock!Close(z)
        BY <3>1, <3>3, <3>4, <3>10 DEF Closed, TheTimedLock!Close
      <4> QED
        BY <4>1 DEF TheTimedLock!Next
    <3> QED
      BY <2>2, <3>5, <3>6, <3>7, <3>8, <3>9, <3>10 DEF OneMove, Move
  <2> QED
    BY <2>1, <2>2, MutexMoves
<1>3. QED
  BY <1>1, <1>2, MutexInvariant, PTL DEF MutexSpec, ImplementsTimedLock, TheTimedLock!Spec

-----------------------------------------------------------------------------
(* Without timeouts and mutex_destroy they are the locks one expects.       *)

PlainMutexes == AcquireModes \subseteq {FALSE} /\ ~MayDestroy

Untimed == \A t \in Threads : frame[t].q \in Mutexes => ~frame[t].timed

\* With PlainMutexes; nobody waits for a mutex that is granted to nobody.
PlainInv ==
  /\ \A m \in Mutexes : mtx.alive[m]
  /\ Untimed
  /\ \A m \in Mutexes : wq.list[m] # <<>> => Granted(m) # {}

LEMMA PlainNeverFails ==
  ASSUME MutexInv, \A m \in Mutexes : mtx.alive[m], Untimed, NEW m \in Mutexes
  PROVE  Failed(m) = {}
BY DEF MutexInv, LiveAnswers, Failed, Untimed

LEMMA MutexesStayAlive ==
  ASSUME ~MayDestroy, MutexTypeOK, [MutexNext]_mvars
  PROVE  mtx'.alive = mtx.alive
<1>1. ASSUME NEW m \in Mutexes, NEW timed \in BOOLEAN,
             AcquireFree(m) \/ AcquireBlock(m, timed) \/ AcquireReturn(m) \/ Release(m)
      PROVE  mtx'.alive = mtx.alive
  BY <1>1 DEF AcquireFree, AcquireBlock, AcquireReturn, Release, MutexTypeOK
<1>2. CASE MutexClient
  BY <1>1, <1>2, MutexAssumption DEF MutexClient
<1>3. CASE (Core /\ UNCHANGED <<mtx, own>>) \/ UNCHANGED mvars
  BY <1>3 DEF mvars
<1> QED
  BY <1>2, <1>3 DEF MutexNext

LEMMA UntimedCalls ==
  ASSUME AcquireModes \subseteq {FALSE}, MutexInv, ThreadInv', Untimed, [MutexNext]_mvars
  PROVE  Untimed'
<1>1. /\ frame \in [Threads -> [q : Queues \cup {NoQueue}, timed : BOOLEAN]]
      /\ NoQueue \notin Mutexes /\ k.cur \in Threads
  BY Types, MutexAssumption, ThreadAssumption DEF MutexInv, ThreadInv, TypeOK
<1>2. CASE Core /\ UNCHANGED <<mtx, own>>
  BY <1>2, CoreWaiters DEF Untimed, MutexInv
<1>3. ASSUME NEW m \in Mutexes, AcquireFree(m) \/ Release(m) \/ Destroy(m)
      PROVE  frame' = frame
  BY <1>3 DEF AcquireFree, Release, Destroy, WakeOne, WakeAll, tvars
<1>4. ASSUME NEW m \in Mutexes, AcquireBlock(m, FALSE) \/ AcquireReturn(m)
      PROVE  Untimed'
  <2>1. \/ frame' = [frame EXCEPT ![k.cur] = [q |-> m, timed |-> FALSE]]
        \/ frame' = [frame EXCEPT ![k.cur] = NoFrame]
    BY <1>4 DEF AcquireBlock, AcquireReturn, Block, BlockReturn
  <2> QED
    BY <1>1, <2>1 DEF Untimed, NoFrame
<1>5. CASE MutexClient
  <2>1. \E m \in Mutexes : \/ AcquireFree(m) \/ Release(m) \/ Destroy(m)
                          \/ AcquireBlock(m, FALSE) \/ AcquireReturn(m)
    BY <1>5 DEF MutexClient
  <2> QED
    BY <1>3, <1>4, <2>1 DEF Untimed
<1>6. CASE UNCHANGED mvars
  BY <1>6 DEF mvars, Untimed
<1> QED
  BY <1>2, <1>5, <1>6 DEF MutexNext

LEMMA PlainCalls ==
  ASSUME PlainMutexes, MutexInv, ThreadInv', PlainInv, [MutexNext]_mvars
  PROVE  (\A m \in Mutexes : mtx'.alive[m]) /\ Untimed'
BY MutexesStayAlive, UntimedCalls DEF PlainMutexes, PlainInv, MutexInv

\* Every step leaves every mutex as it is, but for one that is asked for or
\* given back.
LEMMA PlainStep ==
  ASSUME PlainMutexes, MutexInv, MutexInv', PlainInv, [MutexNext]_mvars
  PROVE  /\ PlainInv'
         /\ \/ \A m \in Mutexes : Same(m)
            \/ \E z \in Mutexes : /\ Asked(z) \/ Given(z)
                                  /\ \A m \in Mutexes : m # z => Same(m)
<1>1. (\A m \in Mutexes : mtx'.alive[m]) /\ Untimed'
  BY PlainCalls DEF MutexInv
<1>2. \A m \in Mutexes : Failed(m) = {} /\ Failed(m)' = {}
  <2>1. \A m \in Mutexes : Failed(m) = {}
    BY PlainNeverFails DEF PlainInv
  <2>2. \A m \in Mutexes : Failed(m)' = {}
    BY <1>1 DEF MutexInv, LiveAnswers, Failed, Untimed
  <2> QED
    BY <2>1, <2>2
<1>3. ASSUME NEW z \in Mutexes, OneMove(z) PROVE Same(z) \/ Asked(z) \/ Given(z)
  <2>1. ~GaveUp(z)
    BY <1>2 DEF GaveUp
  <2>2. ~Left(z) /\ ~Closed(z)
    BY <1>1, <1>2 DEF Left, Closed
  <2> QED
    BY <1>3, <2>1, <2>2 DEF OneMove, Move
<1>4. \/ \A m \in Mutexes : Same(m)
      \/ \E z \in Mutexes : (Asked(z) \/ Given(z)) /\ \A m \in Mutexes : m # z => Same(m)
  BY <1>3, MutexMoves DEF OneMove
<1>5. ASSUME NEW m \in Mutexes, wq'.list[m] # <<>> PROVE Granted(m)' # {}
  <2>1. CASE Same(m)
    BY <1>5, <2>1 DEF Same, PlainInv
  <2>2. CASE Asked(m)
    BY <1>2, <1>5, <2>2 DEF Asked, PlainInv
  <2>3. CASE Given(m)
    BY <1>5, <2>3 DEF Given
  <2> QED
    BY <1>4, <2>1, <2>2, <2>3
<1> QED
  BY <1>1, <1>4, <1>5 DEF PlainInv

LEMMA PlainInvariant ==
  ASSUME ExclusiveResume, PlainMutexes
  PROVE  MutexSpec => []PlainInv
<1>1. MutexInit => PlainInv
  <2>1. MutexInit => \A t \in Threads, m \in Mutexes : frame[t].q # m
    BY MutexAssumption, ThreadAssumption DEF MutexInit, ThreadInit, NoFrame
  <2> QED
    BY <2>1, LocksInit DEF PlainInv, Untimed
<1>2. MutexInv /\ MutexInv' /\ PlainInv /\ [MutexNext]_mvars => PlainInv'
  BY PlainStep
<1>3. QED
  BY <1>1, <1>2, MutexInvariant, PTL DEF MutexSpec

\* What Lock says of its variables, without what it says of fairness.
LockSafety == TheLock!Init /\ [][TheLock!Next]_(TheLock!lvars)

\* The mutexes of callers that use no timeout and destroy none are locks: what
\* the mutexes do is what Lock allows, one owner each and waiters served in the
\* order in which they asked, however many threads and mutexes there are.
THEOREM MutexIsLock ==
  ASSUME ExclusiveResume, PlainMutexes
  PROVE  MutexSpec => LockSafety
<1>1. MutexInit => TheLock!Init
  <2> SUFFICES ASSUME MutexInit PROVE TheLock!Init
    OBVIOUS
  <2>1. \A m \in Mutexes : OneOf(Granted(m)) = NoThread
    BY LocksInit DEF OneOf
  <2> QED
    BY LocksInit, <2>1 DEF TheLock!Init, Owners, Waiters
<1>2. MutexInv /\ MutexInv' /\ PlainInv /\ [MutexNext]_mvars => [TheLock!Next]_(TheLock!lvars)
  <2> SUFFICES ASSUME MutexInv, MutexInv', PlainInv, [MutexNext]_mvars
               PROVE  TheLock!Next \/ UNCHANGED TheLock!lvars
    OBVIOUS
  <2>1. CASE \A m \in Mutexes : Same(m)
    BY <2>1, LocksStay DEF TheLock!lvars
  <2>2. ASSUME NEW z \in Mutexes, Asked(z) \/ Given(z), \A m \in Mutexes : m # z => Same(m)
        PROVE  TheLock!Next
    <3>1. /\ Owners[z] = OneOf(Granted(z)) /\ Waiters[z] = wq.list[z]
          /\ Owners' = [Owners EXCEPT ![z] = OneOf(Granted(z)')]
          /\ Waiters' = [Waiters EXCEPT ![z] = wq'.list[z]]
      BY <2>2, LocksMove
    <3>2. Granted(z) \subseteq Threads /\ Failed(z) = {}
      BY GrantedThreads, PlainNeverFails DEF MutexInv, PlainInv
    <3>3. /\ Granted(z)' = Granted(z) => Owners' = Owners
          /\ wq'.list[z] = wq.list[z] => Waiters' = Waiters
      <4>1. Owners = [m \in Mutexes |-> Owners[m]] /\ Waiters = [m \in Mutexes |-> Waiters[m]]
        BY DEF Owners, Waiters
      <4>2. [Owners EXCEPT ![z] = Owners[z]] = Owners /\ [Waiters EXCEPT ![z] = Waiters[z]] = Waiters
        BY <4>1, SameAtOne
      <4> QED
        BY <3>1, <4>2
    <3>4. Owners[z] = NoThread <=> Granted(z) = {}
      BY <3>1, <3>2, OneOfIs
    <3>5. wq.list[z] # <<>> => Granted(z) # {}
      BY DEF PlainInv
    <3>6. CASE Asked(z)
      <4>1. PICK c \in Threads :
              /\ c \notin Granted(z) /\ ~Listed(c, wq.list[z])
              /\ IF Granted(z) = {}
                 THEN Granted(z)' = {c} /\ wq'.list[z] = wq.list[z]
                 ELSE Granted(z)' = Granted(z) /\ wq'.list[z] = Append(wq.list[z], c)
        BY <3>2, <3>5, <3>6 DEF Asked
      <4>2. Owners[z] # c /\ \A i \in DOMAIN Waiters[z] : Waiters[z][i] # c
        BY <3>1, <3>2, <4>1, OneOfIs, ThreadAssumption DEF Listed
      <4>3. CASE Owners[z] = NoThread
        <5>1. OneOf(Granted(z)') = c
          BY <3>4, <4>1, <4>3, OneOfIs
        <5>2. TheLock!Request(z, c)
          BY <3>1, <3>3, <3>4, <4>1, <4>2, <4>3, <5>1 DEF TheLock!Request
        <5> QED
          BY <5>2 DEF TheLock!Next
      <4>4. CASE Owners[z] # NoThread
        <5>1. UNCHANGED Owners /\ Waiters' = [Waiters EXCEPT ![z] = Append(Waiters[z], c)]
          BY <3>1, <3>3, <3>4, <4>1, <4>4
        <5>2. TheLock!Request(z, c)
          BY <4>2, <4>4, <5>1 DEF TheLock!Request
        <5> QED
          BY <5>2 DEF TheLock!Next
      <4> QED
        BY <4>3, <4>4
    <3>7. CASE Given(z)
      <4>1. PICK c \in Threads : Granted(z) = {c}
        BY <3>7 DEF Given
      <4>2. Owners[z] = c
        BY <3>1, <3>2, <4>1, OneOfIs
      <4>3. CASE Waiters[z] = <<>>
        <5>1. Owners' = [Owners EXCEPT ![z] = NoThread] /\ UNCHANGED Waiters
          BY <3>1, <3>3, <3>7, <4>3 DEF Given, OneOf
        <5> QED
          BY <4>2, <4>3, <5>1 DEF TheLock!GiveBack, TheLock!Next
      <4>4. CASE Waiters[z] # <<>>
        <5>1. Granted(z)' = {Head(wq.list[z])} /\ wq'.list[z] = Tail(wq.list[z])
          BY <3>1, <3>7, <4>4 DEF Given
        <5>2. Head(wq.list[z]) \in Threads
          BY <3>1, <4>4, HeadBlocked, MutexTypes DEF MutexInv
        <5>3. OneOf(Granted(z)') = Head(wq.list[z])
          BY <5>1, <5>2, OneOfIs
        <5>4. /\ Owners' = [Owners EXCEPT ![z] = Head(Waiters[z])]
              /\ Waiters' = [Waiters EXCEPT ![z] = Tail(Waiters[z])]
          BY <3>1, <5>1, <5>3
        <5> QED
          BY <4>2, <4>4, <5>4 DEF TheLock!GiveBack, TheLock!Next
      <4> QED
        BY <4>3, <4>4
    <3> QED
      BY <2>2, <3>6, <3>7
  <2> QED
    BY <2>1, <2>2, PlainStep
<1>3. QED
  BY <1>1, <1>2, MutexInvariant, PlainInvariant, PTL DEF MutexSpec, LockSafety

\* Without timeouts and mutex_destroy no thread waits for a mutex that nobody
\* has, is being handed or is on the way out of: no wake-up is lost.
THEOREM FreeMutexesUnawaited ==
  ASSUME ExclusiveResume, PlainMutexes
  PROVE  MutexSpec => []FreeMutexHasNoWaiters
<1>1. MutexInv /\ PlainInv => FreeMutexHasNoWaiters
  <2> SUFFICES ASSUME MutexInv, PlainInv, NEW m \in Mutexes, own[m] = {},
                      \A t \in Engaged(m) : k.state[t] = "blocked",
                      NEW t \in Engaged(m)
               PROVE  FALSE
    BY DEF FreeMutexHasNoWaiters
  <2>1. t \in Threads /\ frame[t].q = m /\ k.state[t] = "blocked" /\ m \in Queues
    BY MutexTypes DEF Engaged, MutexInv
  <2>2. Listed(t, wq.list[m])
    BY <2>1 DEF MutexInv, ThreadInv, CallsMatch, WaitQueuesMatch, WaitMatch
  <2>3. wq.list[m] # <<>>
    BY <2>2 DEF Listed
  <2>4. HandedOff(m) # {}
    BY <2>3 DEF PlainInv, Granted
  <2>5. QED
    BY <2>4 DEF HandedOff, Engaged
<1>2. QED
  BY <1>1, PlainInvariant, MutexInvariant, PTL

\* Of waits without a timeout, those that fail leave m->holder as it is.
LEMMA UntimedHolders ==
  ASSUME MutexInv, Untimed, AcquireModes \subseteq {FALSE}, HolderWasGranted,
         [MutexNext]_mvars
  PROVE  HolderWasGranted'
<1> DEFINE OK(m, h, o) == h[m] = NoThread \/ h[m] \in o[m]
<1>1. /\ \A m \in Mutexes : OK(m, mtx.holder, own)
      /\ mtx.holder \in [Mutexes -> Threads \cup {NoThread}]
      /\ own \in [Mutexes -> SUBSET Threads]
      /\ mtx \in [alive : [Mutexes -> BOOLEAN], count : [Mutexes -> Int],
                  holder : [Mutexes -> Threads \cup {NoThread}]]
  BY DEF HolderWasGranted, MutexInv, MutexTypeOK
<1>2. CASE (Core /\ UNCHANGED <<mtx, own>>) \/ UNCHANGED mvars
  BY <1>2 DEF mvars, HolderWasGranted
<1>3. ASSUME NEW z \in Mutexes,
             \/ AcquireFree(z) \/ AcquireBlock(z, FALSE) \/ AcquireReturn(z)
             \/ Release(z) \/ Destroy(z)
      PROVE  \A m \in Mutexes : OK(m, mtx'.holder, own')
  <2>1. CASE AcquireFree(z)
    <3>1. /\ mtx'.holder = [mtx.holder EXCEPT ![z] = k.cur]
          /\ own' = [own EXCEPT ![z] = @ \cup {k.cur}]
      BY <1>1, <2>1 DEF AcquireFree
    <3> QED
      BY <1>1, <3>1
  <2>2. CASE AcquireBlock(z, FALSE) \/ Destroy(z)
    <3>1. mtx'.holder = mtx.holder /\ own' = own
      BY <1>1, <2>2 DEF AcquireBlock, Destroy
    <3> QED
      BY <1>1, <3>1
  <2>3. CASE AcquireReturn(z)
    <3>1. k.cur \in Threads /\ frame[k.cur].q = z
      BY <2>3, Types DEF AcquireReturn, BlockReturn, MutexInv, ThreadInv
    <3>2. ~frame[k.cur].timed
      BY <3>1 DEF Untimed
    <3>3. \/ /\ mtx'.holder = [mtx.holder EXCEPT ![z] = k.cur]
             /\ own' = [own EXCEPT ![z] = @ \cup {k.cur}]
          \/ mtx'.holder = mtx.holder /\ own' = own
      <4>1. CASE wq.ret[k.cur] = "ok"
        BY <1>1, <2>3, <4>1 DEF AcquireReturn
      <4>2. CASE wq.ret[k.cur] # "ok"
        <5>1. /\ mtx'.holder = [mtx.holder EXCEPT ![z] = mtx.holder[z]]
              /\ own' = [own EXCEPT ![z] = own[z]]
          BY <1>1, <2>3, <3>2, <4>2 DEF AcquireReturn
        <5> QED
          BY <1>1, <5>1
      <4> QED
        BY <4>1, <4>2
    <3> QED
      BY <1>1, <3>1, <3>3
  <2>4. CASE Release(z)
    <3>1. /\ mtx'.holder = [mtx.holder EXCEPT ![z] = NoThread]
          /\ own' = [own EXCEPT ![z] = @ \ {k.cur}]
      BY <1>1, <2>4 DEF Release
    <3> QED
      BY <1>1, <3>1
  <2> QED
    BY <1>3, <2>1, <2>2, <2>3, <2>4
<1>4. CASE MutexClient
  <2>1. PICK z \in Mutexes : \/ AcquireFree(z) \/ AcquireBlock(z, FALSE)
                             \/ AcquireReturn(z) \/ Release(z) \/ Destroy(z)
    BY <1>4 DEF MutexClient
  <2> QED
    BY <1>3, <2>1 DEF HolderWasGranted
<1> QED
  BY <1>2, <1>4 DEF MutexNext

\* "just exit": of callers that use no timeout, and of callers that destroy no
\* mutex, a thread recorded in m->holder has been told that it has the mutex.
\* Only mutex_acquire_timeout on a mutex destroyed meanwhile records another.
THEOREM HoldersAreGranted ==
  ASSUME ExclusiveResume, AcquireModes \subseteq {FALSE} \/ ~MayDestroy
  PROVE  MutexSpec => []HolderWasGranted
<1>1. MutexInit => /\ Untimed /\ HolderWasGranted
                   /\ \A m \in Mutexes : mtx.alive[m]
  BY MutexAssumption, ThreadAssumption
  DEF MutexInit, ThreadInit, NoFrame, Untimed, HolderWasGranted
<1>2. CASE ~MayDestroy
  <2> DEFINE Alive == \A m \in Mutexes : mtx.alive[m]
  <2>1. MutexInv /\ Alive /\ [MutexNext]_mvars => Alive'
    BY <1>2, MutexesStayAlive DEF MutexInv
  <2>2. MutexInv /\ Alive => HolderWasGranted
    BY DEF MutexInv, MutexTypeOK, HolderIsOwner, HolderWasGranted
  <2>3. MutexInit => Alive
    BY <1>1
  <2> QED
    BY <2>1, <2>2, <2>3, MutexInvariant, PTL DEF MutexSpec
<1>3. CASE AcquireModes \subseteq {FALSE}
  <2>1. MutexInv /\ MutexInv' /\ Untimed /\ HolderWasGranted /\ [MutexNext]_mvars
          => Untimed' /\ HolderWasGranted'
    BY <1>3, UntimedCalls, UntimedHolders DEF MutexInv
  <2>2. MutexInit => Untimed /\ HolderWasGranted
    BY <1>1
  <2> QED
    BY <2>1, <2>2, MutexInvariant, PTL DEF MutexSpec
<1> QED
  BY <1>2, <1>3

-----------------------------------------------------------------------------
(* Mutexes run on the scheduler: what it promises, it promises their callers. *)

LEMMA MutexStepsRunThreads ==
  ASSUME [MutexNext]_mvars
  PROVE  [ThreadNext]_tvars
<1>1. CASE Core /\ UNCHANGED <<mtx, own>>
  BY <1>1 DEF ThreadNext
<1>2. ASSUME NEW m \in Mutexes,
             \/ AcquireFree(m)
             \/ \E timed \in AcquireModes : AcquireBlock(m, timed)
             \/ AcquireReturn(m)
             \/ Release(m)
             \/ MayDestroy /\ Destroy(m)
      PROVE  WaitClient \/ UNCHANGED tvars
  <2>1. m \in Queues
    BY MutexAssumption
  <2>2. CASE AcquireFree(m)
    BY <2>2 DEF AcquireFree
  <2>3. CASE \E timed \in AcquireModes : AcquireBlock(m, timed)
    BY <2>1, <2>3, MutexAssumption DEF AcquireBlock, WaitClient
  <2>4. CASE AcquireReturn(m)
    BY <2>1, <2>4 DEF AcquireReturn, WaitClient
  <2>5. CASE Release(m)
    BY <2>1, <2>5 DEF Release, WaitClient
  <2>6. CASE Destroy(m)
    BY <2>1, <2>6 DEF Destroy, WaitClient
  <2> QED
    BY <1>2, <2>2, <2>3, <2>4, <2>5, <2>6
<1>3. CASE MutexClient
  BY <1>2, <1>3 DEF MutexClient, ThreadNext
<1>4. CASE UNCHANGED mvars
  BY <1>4 DEF mvars, tvars
<1> QED
  BY <1>1, <1>3, <1>4 DEF MutexNext

\* Mutexes, with their timeouts and mutex_destroy, are one more client of the
\* wait queues: whatever is true of the scheduler and all its clients is true
\* of it under the mutexes.
THEOREM MutexRunsThreads == MutexSpec => ThreadSpec
<1>1. MutexInit => ThreadInit
  BY DEF MutexInit
<1>2. [MutexNext]_mvars => [ThreadNext]_tvars
  BY MutexStepsRunThreads
<1> QED
  BY <1>1, <1>2, PTL DEF MutexSpec, ThreadSpec

\* Also under mutexes: the result of a wait is that of what woke it, and every
\* tick leaves the CPU to a thread that none outranks.  With acquires that time
\* out late this is said up to the first kernel call that a thread makes with
\* the critical section which such a timeout leaks (EnterUnmasked).
THEOREM MutexKeepsScheduler ==
  ASSUME ExclusiveResume
  PROVE  MutexSpec => WokenOnce /\ TickRunsHighest
BY MutexRunsThreads, WakeupsStand, TicksRunHighest
=============================================================================
