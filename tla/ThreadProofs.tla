---------------------------- MODULE ThreadProofs ----------------------------
(***************************************************************************)
(* The scheduler keeps its invariant, for any number of threads, queues    *)
(* and priorities, up to the first kernel call that a thread makes with a  *)
(* leaked critical section, where the module Thread ends.  First what the  *)
(* list operations do to membership, then what the run queue and wait      *)
(* queue operations preserve, then one lemma for each action of Thread,    *)
(* then the theorem.  At the end, what that invariant does not say: which  *)
(* steps change who lives, and that a late timeout is the only step that   *)
(* leaks a critical section.                                               *)
(***************************************************************************)
EXTENDS Thread, SequenceTheorems, TLAPS

-----------------------------------------------------------------------------
(* Lists of distinct elements.                                             *)

LEMMA ListedAppend ==
  ASSUME NEW S, NEW s \in Seq(S), NEW t \in S, Once(s), ~Listed(t, s)
  PROVE  /\ Append(s, t) \in Seq(S) /\ Append(s, t) # <<>> /\ Once(Append(s, t))
         /\ Len(Append(s, t)) = Len(s) + 1
         /\ \A u : Listed(u, Append(s, t)) <=> Listed(u, s) \/ u = t
<1>1. /\ Append(s, t) \in Seq(S) /\ Len(Append(s, t)) = Len(s) + 1
      /\ \A i \in 1..Len(s) : Append(s, t)[i] = s[i]
      /\ Append(s, t)[Len(s) + 1] = t
      /\ DOMAIN Append(s, t) = 1..(Len(s) + 1) /\ DOMAIN s = 1..Len(s) /\ Len(s) \in Nat
  OBVIOUS
<1>2. \A u : Listed(u, Append(s, t)) <=> Listed(u, s) \/ u = t
  BY <1>1 DEF Listed
<1>3. Once(Append(s, t))
  BY <1>1 DEF Once, Listed
<1>4. QED
  BY <1>1, <1>2, <1>3

LEMMA ListedCons ==
  ASSUME NEW S, NEW s \in Seq(S), NEW t \in S, Once(s), ~Listed(t, s)
  PROVE  /\ <<t>> \o s \in Seq(S) /\ <<t>> \o s # <<>> /\ Once(<<t>> \o s)
         /\ \A u : Listed(u, <<t>> \o s) <=> Listed(u, s) \/ u = t
<1> DEFINE c == <<t>> \o s
<1>1. /\ c \in Seq(S) /\ Len(c) = Len(s) + 1 /\ c[1] = t
      /\ \A i \in 1..Len(s) : c[i + 1] = s[i]
      /\ \A i \in 2..(Len(s) + 1) : c[i] = s[i - 1]
      /\ DOMAIN c = 1..(Len(s) + 1) /\ DOMAIN s = 1..Len(s) /\ Len(s) \in Nat
  OBVIOUS
<1> HIDE DEF c
<1>2. \A u : Listed(u, c) <=> Listed(u, s) \/ u = t
  <2>1. ASSUME NEW u, Listed(u, s) PROVE Listed(u, c)
    <3>1. PICK i \in 1..Len(s) : s[i] = u
      BY <1>1, <2>1 DEF Listed
    <3>2. i + 1 \in DOMAIN c /\ c[i + 1] = u
      BY <1>1, <3>1
    <3>3. QED BY <3>2 DEF Listed
  <2>2. Listed(t, c)
    BY <1>1 DEF Listed
  <2>3. ASSUME NEW u, Listed(u, c), u # t PROVE Listed(u, s)
    <3>1. PICK i \in 1..(Len(s) + 1) : c[i] = u
      BY <1>1, <2>3 DEF Listed
    <3>2. i - 1 \in DOMAIN s /\ s[i - 1] = u
      BY <1>1, <2>3, <3>1
    <3>3. QED BY <3>2 DEF Listed
  <2>4. QED BY <2>1, <2>2, <2>3
<1>3. Once(c)
  <2> SUFFICES ASSUME NEW i \in DOMAIN c, NEW j \in DOMAIN c, c[i] = c[j]
               PROVE  i = j
    BY DEF Once
  <2>1. \A h \in DOMAIN c : h # 1 => h - 1 \in DOMAIN s /\ c[h] = s[h - 1] /\ c[h] # t
    BY <1>1 DEF Listed
  <2>2. CASE i # 1 /\ j # 1
    <3>1. i - 1 = j - 1
      BY <2>1, <2>2 DEF Once
    <3>2. QED BY <1>1, <3>1
  <2>3. CASE i = 1 \/ j = 1
    BY <2>1, <2>3, <1>1
  <2>4. QED BY <2>2, <2>3
<1>4. c # <<>>
  BY <1>1
<1>5. QED
  BY <1>1, <1>2, <1>3, <1>4 DEF c

LEMMA ListedTail ==
  ASSUME NEW S, NEW s \in Seq(S), s # <<>>, Once(s)
  PROVE  /\ Head(s) \in S /\ Listed(Head(s), s)
         /\ Tail(s) \in Seq(S) /\ Once(Tail(s)) /\ Len(Tail(s)) = Len(s) - 1
         /\ \A u : Listed(u, Tail(s)) <=> Listed(u, s) /\ u # Head(s)
<1>1. /\ Head(s) \in S /\ Head(s) = s[1] /\ Tail(s) \in Seq(S) /\ Len(Tail(s)) = Len(s) - 1
      /\ \A i \in 1..(Len(s) - 1) : Tail(s)[i] = s[i + 1]
      /\ DOMAIN Tail(s) = 1..(Len(s) - 1) /\ DOMAIN s = 1..Len(s) /\ Len(s) \in Nat \ {0}
  OBVIOUS
<1>2. \A u : Listed(u, Tail(s)) => Listed(u, s) /\ u # Head(s)
  BY <1>1 DEF Listed, Once
<1>3. ASSUME NEW u, Listed(u, s), u # Head(s) PROVE Listed(u, Tail(s))
  <2>1. PICK i \in 1..Len(s) : s[i] = u
    BY <1>1, <1>3 DEF Listed
  <2>2. i - 1 \in DOMAIN Tail(s) /\ Tail(s)[i - 1] = u
    BY <1>1, <1>3, <2>1
  <2>3. QED BY <2>2 DEF Listed
<1>4. Once(Tail(s))
  <2> SUFFICES ASSUME NEW i \in DOMAIN Tail(s), NEW j \in DOMAIN Tail(s), Tail(s)[i] = Tail(s)[j]
               PROVE  i = j
    BY DEF Once
  <2>1. i + 1 \in DOMAIN s /\ j + 1 \in DOMAIN s /\ s[i + 1] = s[j + 1]
    BY <1>1
  <2>2. i + 1 = j + 1
    BY <2>1 DEF Once
  <2>3. QED BY <1>1, <2>2
<1>5. Listed(Head(s), s)
  BY <1>1 DEF Listed
<1>6. QED
  BY <1>1, <1>2, <1>3, <1>4, <1>5

LEMMA ListedRemoveAt ==
  ASSUME NEW S, NEW s \in Seq(S), NEW n \in DOMAIN s, Once(s)
  PROVE  /\ RemoveAt(s, n) \in Seq(S) /\ Once(RemoveAt(s, n))
         /\ Len(RemoveAt(s, n)) = Len(s) - 1
         /\ \A u : Listed(u, RemoveAt(s, n)) <=> Listed(u, s) /\ u # s[n]
<1> DEFINE r == RemoveAt(s, n)
           x == SubSeq(s, 1, n - 1)
           y == SubSeq(s, n + 1, Len(s))
<1>1. DOMAIN s = 1..Len(s) /\ Len(s) \in Nat /\ n \in 1..Len(s)
  OBVIOUS
<1>2. x \in Seq(S) /\ Len(x) = n - 1 /\ \A i \in 1..(n - 1) : x[i] = s[i]
  <2>1. \A i \in 1..(n - 1) : s[i] \in S
    BY <1>1
  <2>2. QED BY <1>1, <2>1, SubSeqProperties
<1>3. y \in Seq(S) /\ Len(y) = Len(s) - n /\ \A i \in 1..(Len(s) - n) : y[i] = s[n + i]
  <2>1. \A i \in (n + 1)..Len(s) : s[i] \in S
    BY <1>1
  <2>2. n + 1 \in Int /\ Len(s) \in Int /\ Len(s) - (n + 1) + 1 = Len(s) - n
    BY <1>1
  <2>3. /\ y \in Seq(S) /\ Len(y) = IF n + 1 <= Len(s) THEN Len(s) - (n + 1) + 1 ELSE 0
        /\ \A i \in 1..(Len(s) - (n + 1) + 1) : y[i] = s[n + 1 + i - 1]
    BY <2>1, <2>2, SubSeqProperties
  <2>4. QED BY <1>1, <2>2, <2>3
<1> HIDE DEF x, y
<1>4. /\ x \o y \in Seq(S) /\ Len(x \o y) = Len(s) - 1
      /\ \A i \in 1..(Len(s) - 1) : (x \o y)[i] = IF i <= n - 1 THEN x[i] ELSE y[i - (n - 1)]
  <2>1. /\ x \o y \in Seq(S) /\ Len(x \o y) = Len(x) + Len(y)
        /\ \A i \in 1..(Len(x) + Len(y)) :
             (x \o y)[i] = IF i <= Len(x) THEN x[i] ELSE y[i - Len(x)]
    BY <1>2, <1>3, ConcatProperties
  <2>2. Len(x) + Len(y) = Len(s) - 1
    BY <1>1, <1>2, <1>3
  <2>3. QED BY <1>2, <2>1, <2>2
<1>5. r = x \o y
  BY DEF RemoveAt, x, y
<1> HIDE DEF r
<1>6. /\ r \in Seq(S) /\ Len(r) = Len(s) - 1 /\ DOMAIN r = 1..(Len(s) - 1)
      /\ \A i \in 1..(Len(s) - 1) : r[i] = IF i < n THEN s[i] ELSE s[i + 1]
  <2>1. r \in Seq(S) /\ Len(r) = Len(s) - 1 /\ DOMAIN r = 1..(Len(s) - 1)
    BY <1>4, <1>5
  <2>2. ASSUME NEW i \in 1..(Len(s) - 1), i < n PROVE r[i] = s[i]
    BY <2>2, <1>1, <1>2, <1>4, <1>5
  <2>3. ASSUME NEW i \in 1..(Len(s) - 1), ~(i < n) PROVE r[i] = s[i + 1]
    <3>1. i - (n - 1) \in 1..(Len(s) - n) /\ n + (i - (n - 1)) = i + 1 /\ ~(i <= n - 1)
      BY <2>3, <1>1
    <3>2. r[i] = y[i - (n - 1)]
      BY <3>1, <1>4, <1>5
    <3>3. QED BY <3>1, <3>2, <1>3
  <2>4. QED BY <2>1, <2>2, <2>3
<1>7. ASSUME NEW u, Listed(u, r) PROVE Listed(u, s) /\ u # s[n]
  BY <1>1, <1>6, <1>7 DEF Listed, Once
<1>8. ASSUME NEW u, Listed(u, s), u # s[n] PROVE Listed(u, r)
  <2>1. PICK i \in 1..Len(s) : s[i] = u
    BY <1>1, <1>8 DEF Listed
  <2>2. CASE i < n
    BY <1>1, <1>6, <2>1, <2>2 DEF Listed
  <2>3. CASE i > n
    <3>1. i - 1 \in DOMAIN r /\ r[i - 1] = u
      BY <1>1, <1>6, <2>1, <2>3
    <3>2. QED BY <3>1 DEF Listed
  <2>4. QED BY <1>1, <1>8, <2>1, <2>2, <2>3
<1>9. Once(r)
  <2> SUFFICES ASSUME NEW i \in DOMAIN r, NEW j \in DOMAIN r, r[i] = r[j]
               PROVE  i = j
    BY DEF Once
  <2> DEFINE ii == IF i < n THEN i ELSE i + 1
             jj == IF j < n THEN j ELSE j + 1
  <2>1. ii \in DOMAIN s /\ jj \in DOMAIN s /\ s[ii] = s[jj]
    BY <1>1, <1>6
  <2>2. ii = jj
    BY <2>1 DEF Once
  <2>3. QED BY <1>1, <1>6, <2>2
<1>10. QED
  BY <1>6, <1>7, <1>8, <1>9 DEF r

LEMMA EmptyIffNoneListed ==
  ASSUME NEW S, NEW s \in Seq(S)
  PROVE  s = <<>> <=> \A u : ~Listed(u, s)
<1>1. s # <<>> => Listed(s[1], s)
  BY DEF Listed
<1>2. s = <<>> => \A u : ~Listed(u, s)
  BY DEF Listed
<1>3. QED BY <1>1, <1>2

-----------------------------------------------------------------------------
(* Run queues.                                                             *)

\* Every ready thread is on its run queue, except t, which is yet to be put there.
Missing(s, t) ==
  /\ s.state[t] = "ready"
  /\ \A p \in Priorities, u \in Threads :
       Listed(u, s.runq[p]) <=> s.state[u] = "ready" /\ s.prio[u] = p /\ u # t
  /\ \A p \in Priorities : Once(s.runq[p])
  /\ s.bitmap = {p \in Priorities : s.runq[p] # <<>>}

\* r is s with the thread t on its run queue: a legal, non-empty run queue.
Inserted(r, s) ==
  /\ r \in Sched /\ RunqMatch(r) /\ r.bitmap # {}
  /\ r.cur = s.cur /\ r.state = s.state /\ r.prio = s.prio /\ r.quantum = s.quantum

LEMMA InsertHeadOK ==
  ASSUME NEW s \in Sched, NEW t \in Threads, Missing(s, t)
  PROVE  Inserted(InsertHead(s, t), s)
<1> DEFINE p == s.prio[t]
           c == <<t>> \o s.runq[p]
           r == InsertHead(s, t)
<1>1. p \in Priorities /\ s.runq \in [Priorities -> Seq(Threads)] /\ s.bitmap \in SUBSET Priorities
  BY DEF Sched
<1>2. s.runq[p] \in Seq(Threads) /\ Once(s.runq[p]) /\ ~Listed(t, s.runq[p])
  BY <1>1 DEF Missing
<1>3. /\ c \in Seq(Threads) /\ c # <<>> /\ Once(c)
      /\ \A u : Listed(u, c) <=> Listed(u, s.runq[p]) \/ u = t
  BY <1>2, ListedCons
<1>4. r = [s EXCEPT !.runq = [s.runq EXCEPT ![p] = c], !.bitmap = s.bitmap \cup {p}]
  BY <1>1 DEF InsertHead, Sched
<1> HIDE DEF c, r
<1>5. /\ r.runq = [s.runq EXCEPT ![p] = c] /\ r.bitmap = s.bitmap \cup {p}
      /\ r.cur = s.cur /\ r.state = s.state /\ r.prio = s.prio /\ r.quantum = s.quantum
  BY <1>4 DEF Sched
<1>6. r \in Sched
  BY <1>1, <1>3, <1>4 DEF Sched
<1>7. RunqMatch(r)
  <2>1. ASSUME NEW x \in Priorities, NEW u \in Threads
        PROVE  Listed(u, r.runq[x]) <=> r.state[u] = "ready" /\ r.prio[u] = x
    BY <1>1, <1>3, <1>5 DEF Missing
  <2>2. ASSUME NEW x \in Priorities PROVE Once(r.runq[x])
    BY <1>1, <1>3, <1>5 DEF Missing
  <2>3. r.bitmap = {x \in Priorities : r.runq[x] # <<>>}
    BY <1>1, <1>3, <1>5 DEF Missing
  <2>4. QED BY <2>1, <2>2, <2>3 DEF RunqMatch
<1>8. QED
  BY <1>5, <1>6, <1>7 DEF Inserted, r

LEMMA InsertTailOK ==
  ASSUME NEW s \in Sched, NEW t \in Threads, Missing(s, t)
  PROVE  Inserted(InsertTail(s, t), s)
<1> DEFINE p == s.prio[t]
           c == Append(s.runq[p], t)
           r == InsertTail(s, t)
<1>1. p \in Priorities /\ s.runq \in [Priorities -> Seq(Threads)] /\ s.bitmap \in SUBSET Priorities
  BY DEF Sched
<1>2. s.runq[p] \in Seq(Threads) /\ Once(s.runq[p]) /\ ~Listed(t, s.runq[p])
  BY <1>1 DEF Missing
<1>3. /\ c \in Seq(Threads) /\ c # <<>> /\ Once(c)
      /\ \A u : Listed(u, c) <=> Listed(u, s.runq[p]) \/ u = t
  BY <1>2, ListedAppend
<1>4. r = [s EXCEPT !.runq = [s.runq EXCEPT ![p] = c], !.bitmap = s.bitmap \cup {p}]
  BY <1>1 DEF InsertTail, Sched
<1> HIDE DEF c, r
<1>5. /\ r.runq = [s.runq EXCEPT ![p] = c] /\ r.bitmap = s.bitmap \cup {p}
      /\ r.cur = s.cur /\ r.state = s.state /\ r.prio = s.prio /\ r.quantum = s.quantum
  BY <1>4 DEF Sched
<1>6. r \in Sched
  BY <1>1, <1>3, <1>4 DEF Sched
<1>7. RunqMatch(r)
  <2>1. ASSUME NEW x \in Priorities, NEW u \in Threads
        PROVE  Listed(u, r.runq[x]) <=> r.state[u] = "ready" /\ r.prio[u] = x
    BY <1>1, <1>3, <1>5 DEF Missing
  <2>2. ASSUME NEW x \in Priorities PROVE Once(r.runq[x])
    BY <1>1, <1>3, <1>5 DEF Missing
  <2>3. r.bitmap = {x \in Priorities : r.runq[x] # <<>>}
    BY <1>1, <1>3, <1>5 DEF Missing
  <2>4. QED BY <2>1, <2>2, <2>3 DEF RunqMatch
<1>8. QED
  BY <1>5, <1>6, <1>7 DEF Inserted, r

\* thread_resched gives the CPU to a ready thread that none outranks.
LEMMA ReschedOK ==
  ASSUME NEW s \in Sched, RunqMatch(s), s.bitmap # {}
  PROVE  \E new \in Threads :
           /\ s.state[new] = "ready"
           /\ Resched(s) \in Sched /\ RunqMatch(Resched(s))
           /\ Resched(s).cur = new /\ Resched(s).prio = s.prio
           /\ Resched(s).state = [s.state EXCEPT ![new] = "running"]
           /\ \A t \in Threads : s.state[t] = "ready" => s.prio[t] <= s.prio[new]
<1> DEFINE p == TopPriority(s)
           list == s.runq[p]
           new == Head(list)
           r == Resched(s)
           bits == IF Tail(list) = <<>> THEN s.bitmap \ {p} ELSE s.bitmap
           q == IF new # s.cur /\ s.quantum[new] = 0 THEN Slice ELSE s.quantum[new]
<1>1. /\ s.runq \in [Priorities -> Seq(Threads)] /\ s.bitmap \in SUBSET Priorities
      /\ s.state \in [Threads -> States] /\ s.quantum \in [Threads -> 0..Slice]
  BY DEF Sched
<1>2. p \in s.bitmap /\ \A x \in s.bitmap : x <= p
  BY <1>1, TopAssumption DEF TopPriority
<1>3. p \in Priorities /\ list \in Seq(Threads) /\ list # <<>> /\ Once(list)
  BY <1>1, <1>2 DEF RunqMatch
<1>4. /\ new \in Threads /\ Listed(new, list)
      /\ Tail(list) \in Seq(Threads) /\ Once(Tail(list))
      /\ \A u : Listed(u, Tail(list)) <=> Listed(u, list) /\ u # new
  BY <1>3, ListedTail
<1>5. q \in 0..Slice
  BY <1>1, <1>4, ThreadAssumption
<1>6. r = [s EXCEPT !.runq = [s.runq EXCEPT ![p] = Tail(list)], !.bitmap = bits,
                    !.state = [s.state EXCEPT ![new] = "running"],
                    !.quantum = [s.quantum EXCEPT ![new] = q], !.cur = new]
  BY <1>1, <1>3, <1>4 DEF Resched, Sched
<1>7. s.state[new] = "ready" /\ s.prio[new] = p
  BY <1>3, <1>4 DEF RunqMatch
<1>8. ASSUME NEW t \in Threads, s.state[t] = "ready" PROVE s.prio[t] <= p
  <2>1. s.prio[t] \in Priorities /\ Listed(t, s.runq[s.prio[t]])
    BY <1>8 DEF RunqMatch, Sched
  <2>2. s.runq[s.prio[t]] # <<>>
    BY <2>1, <1>1, EmptyIffNoneListed
  <2>3. s.prio[t] \in s.bitmap
    BY <2>1, <2>2 DEF RunqMatch
  <2>4. QED BY <2>3, <1>2
<1> HIDE DEF p, list, new, r, q
<1>9. /\ r.runq = [s.runq EXCEPT ![p] = Tail(list)] /\ r.bitmap = bits
      /\ r.state = [s.state EXCEPT ![new] = "running"] /\ r.cur = new
      /\ r.prio = s.prio /\ r.quantum = [s.quantum EXCEPT ![new] = q]
  BY <1>6 DEF Sched
<1>10. r \in Sched
  <2>1. /\ [s.runq EXCEPT ![p] = Tail(list)] \in [Priorities -> Seq(Threads)]
        /\ bits \in SUBSET Priorities
        /\ [s.state EXCEPT ![new] = "running"] \in [Threads -> States]
        /\ [s.quantum EXCEPT ![new] = q] \in [Threads -> 0..Slice]
    BY <1>1, <1>3, <1>4, <1>5 DEF States
  <2>2. QED BY <2>1, <1>4, <1>6 DEF Sched
<1>11. RunqMatch(r)
  <2>0. list = s.runq[p] /\ p \in Priorities
    BY <1>3 DEF list
  <2>1. ASSUME NEW x \in Priorities, NEW u \in Threads
        PROVE  Listed(u, r.runq[x]) <=> r.state[u] = "ready" /\ r.prio[u] = x
    <3>1. Listed(u, s.runq[x]) <=> s.state[u] = "ready" /\ s.prio[u] = x
      BY DEF RunqMatch
    <3>2. r.state[u] = IF u = new THEN "running" ELSE s.state[u]
      BY <1>1, <1>4, <1>9
    <3>3. r.runq[x] = IF x = p THEN Tail(list) ELSE s.runq[x]
      BY <1>1, <1>9
    <3>4. QED BY <2>0, <3>1, <3>2, <3>3, <1>4, <1>7, <1>9
  <2>2. ASSUME NEW x \in Priorities PROVE Once(r.runq[x])
    BY <1>1, <1>4, <1>9 DEF RunqMatch
  <2>3. r.bitmap = {x \in Priorities : r.runq[x] # <<>>}
    <3>1. s.bitmap = {x \in Priorities : s.runq[x] # <<>>}
      BY DEF RunqMatch
    <3>2. \A x \in Priorities : r.runq[x] = IF x = p THEN Tail(list) ELSE s.runq[x]
      BY <1>1, <1>9
    <3>3. \A x \in Priorities : x \in bits <=> r.runq[x] # <<>>
      BY <1>2, <3>1, <3>2
    <3>4. bits \in SUBSET Priorities
      BY <1>1
    <3>5. QED BY <1>9, <3>3, <3>4
  <2>4. QED BY <2>1, <2>2, <2>3 DEF RunqMatch
<1>12. QED
  BY <1>4, <1>7, <1>8, <1>9, <1>10, <1>11 DEF r

LEMMA ReadyHasBit ==
  ASSUME NEW s \in Sched, RunqMatch(s), NEW t \in Threads, s.state[t] = "ready"
  PROVE  s.bitmap # {}
<1>1. s.prio[t] \in Priorities /\ s.runq \in [Priorities -> Seq(Threads)]
  BY DEF Sched
<1>2. Listed(t, s.runq[s.prio[t]])
  BY <1>1 DEF RunqMatch
<1>3. s.runq[s.prio[t]] # <<>>
  BY <1>1, <1>2, EmptyIffNoneListed
<1>4. QED
  BY <1>1, <1>3 DEF RunqMatch

\* A thread that is not ready, marked ready, is the one still to be queued.
LEMMA MarkedReady ==
  ASSUME NEW s \in Sched, RunqMatch(s), NEW t \in Threads, s.state[t] # "ready"
  PROVE  /\ SetState(s, t, "ready") \in Sched
         /\ Missing(SetState(s, t, "ready"), t)
         /\ SetState(s, t, "ready").state = [s.state EXCEPT ![t] = "ready"]
         /\ SetState(s, t, "ready").cur = s.cur
         /\ SetState(s, t, "ready").prio = s.prio
         /\ SetState(s, t, "ready").quantum = s.quantum
<1> DEFINE r == SetState(s, t, "ready")
<1>1. s.state \in [Threads -> States]
  BY DEF Sched
<1>2. r = [s EXCEPT !.state = [s.state EXCEPT ![t] = "ready"]]
  BY DEF SetState, Sched
<1> HIDE DEF r
<1>3. /\ r.state = [s.state EXCEPT ![t] = "ready"] /\ r.cur = s.cur /\ r.prio = s.prio
      /\ r.quantum = s.quantum /\ r.runq = s.runq /\ r.bitmap = s.bitmap
  BY <1>2 DEF Sched
<1>4. r \in Sched
  BY <1>1, <1>2 DEF Sched, States
<1>5. Missing(r, t)
  BY <1>1, <1>3 DEF Missing, RunqMatch
<1>6. QED
  BY <1>3, <1>4, <1>5 DEF r

\* The current thread leaves the running state for one that has no run queue.
LEMMA LeftRunning ==
  ASSUME NEW s \in Sched, RunqMatch(s), NEW t \in Threads, s.state[t] # "ready",
         NEW x \in States \ {"ready"}
  PROVE  /\ SetState(s, t, x) \in Sched /\ RunqMatch(SetState(s, t, x))
         /\ SetState(s, t, x).state = [s.state EXCEPT ![t] = x]
         /\ SetState(s, t, x).cur = s.cur
         /\ SetState(s, t, x).prio = s.prio
<1> DEFINE r == SetState(s, t, x)
<1>1. s.state \in [Threads -> States]
  BY DEF Sched
<1>2. r = [s EXCEPT !.state = [s.state EXCEPT ![t] = x]]
  BY DEF SetState, Sched
<1> HIDE DEF r
<1>3. /\ r.state = [s.state EXCEPT ![t] = x] /\ r.cur = s.cur /\ r.prio = s.prio
      /\ r.runq = s.runq /\ r.bitmap = s.bitmap
  BY <1>2 DEF Sched
<1>4. r \in Sched
  BY <1>1, <1>2 DEF Sched
<1>5. RunqMatch(r)
  BY <1>1, <1>3 DEF RunqMatch
<1>6. QED
  BY <1>3, <1>4, <1>5 DEF r

LEMMA MadeReadyCur ==
  ASSUME NEW s \in Sched, NEW t
  PROVE  MadeReady(s, t).cur = s.cur
BY DEF Sched, MadeReady, InsertHead, SetState

LEMMA MadeReadyOK ==
  ASSUME NEW s \in Sched, RunqMatch(s), NEW t \in Threads, s.state[t] # "ready"
  PROVE  /\ MadeReady(s, t) \in Sched /\ RunqMatch(MadeReady(s, t))
         /\ MadeReady(s, t).bitmap # {}
         /\ MadeReady(s, t).state = [s.state EXCEPT ![t] = "ready"]
         /\ MadeReady(s, t).cur = s.cur /\ MadeReady(s, t).prio = s.prio
<1>1. Inserted(MadeReady(s, t), SetState(s, t, "ready"))
  BY MarkedReady, InsertHeadOK DEF MadeReady
<1>2. QED
  BY <1>1, MarkedReady DEF Inserted

\* The CPU goes to new, and the thread that had it is ready.
Switch(r, s, new) ==
  /\ r \in Sched /\ RunqMatch(r) /\ r.cur = new /\ r.prio = s.prio
  /\ r.state = [[s.state EXCEPT ![s.cur] = "ready"] EXCEPT ![new] = "running"]
  /\ new = s.cur \/ s.state[new] = "ready"
  /\ \A t \in Threads : t = s.cur \/ s.state[t] = "ready" => s.prio[t] <= s.prio[new]

LEMMA PutBackOK ==
  ASSUME NEW s \in Sched, NEW r, Inserted(r, s),
         NEW o \in Sched, s.cur = o.cur, s.prio = o.prio,
         s.state = [o.state EXCEPT ![o.cur] = "ready"]
  PROVE  \E new \in Threads : Switch(Resched(r), o, new)
<1>0. o.state \in [Threads -> States] /\ o.cur \in Threads
  BY DEF Sched
<1>1. PICK new \in Threads :
        /\ r.state[new] = "ready"
        /\ Resched(r) \in Sched /\ RunqMatch(Resched(r))
        /\ Resched(r).cur = new /\ Resched(r).prio = r.prio
        /\ Resched(r).state = [r.state EXCEPT ![new] = "running"]
        /\ \A t \in Threads : r.state[t] = "ready" => r.prio[t] <= r.prio[new]
  BY ReschedOK DEF Inserted
<1>2. QED
  BY <1>0, <1>1 DEF Switch, Inserted

LEMMA PreemptedOK ==
  ASSUME NEW s \in Sched, RunqMatch(s), s.state[s.cur] # "ready"
  PROVE  \E new \in Threads : Switch(Preempted(s), s, new)
<1> DEFINE r == SetState(s, s.cur, "ready")
           i == IF s.quantum[s.cur] > 0 THEN InsertHead(r, s.cur) ELSE InsertTail(r, s.cur)
<1>0. s.cur \in Threads
  BY DEF Sched
<1>1. /\ r \in Sched /\ Missing(r, s.cur) /\ r.cur = s.cur /\ r.prio = s.prio
      /\ r.state = [s.state EXCEPT ![s.cur] = "ready"]
  BY <1>0, MarkedReady
<1> HIDE DEF r
<1>2. Inserted(i, r)
  BY <1>0, <1>1, InsertHeadOK, InsertTailOK
<1>3. Preempted(s) = Resched(i)
  BY DEF Preempted, r
<1> HIDE DEF i
<1>4. QED
  BY <1>1, <1>2, <1>3, PutBackOK

LEMMA YieldedOK ==
  ASSUME NEW s \in Sched, RunqMatch(s), s.state[s.cur] # "ready"
  PROVE  \E new \in Threads : Switch(Yielded(s), s, new)
<1> DEFINE a == SetState(s, s.cur, "ready")
           r == [a EXCEPT !.quantum[s.cur] = 0]
           i == InsertTail(r, s.cur)
<1>0. s.cur \in Threads /\ 0 \in 0..Slice
  BY ThreadAssumption DEF Sched
<1>1. /\ a \in Sched /\ Missing(a, s.cur) /\ a.cur = s.cur /\ a.prio = s.prio
      /\ a.state = [s.state EXCEPT ![s.cur] = "ready"]
  BY <1>0, MarkedReady
<1>2. Yielded(s) = Resched(i)
  BY DEF Yielded
<1> HIDE DEF a
<1>3. /\ r \in Sched /\ r.cur = s.cur /\ r.prio = s.prio /\ r.state = a.state
      /\ r.runq = a.runq /\ r.bitmap = a.bitmap
  <2>1. [a.quantum EXCEPT ![s.cur] = 0] \in [Threads -> 0..Slice]
    BY <1>0, <1>1 DEF Sched
  <2>2. r = [a EXCEPT !.quantum = [a.quantum EXCEPT ![s.cur] = 0]]
    BY <1>1 DEF Sched
  <2>3. QED BY <1>1, <2>1, <2>2 DEF Sched
<1> HIDE DEF r
<1>4. Missing(r, s.cur)
  BY <1>1, <1>3 DEF Missing
<1>5. Inserted(i, r)
  BY <1>0, <1>3, <1>4, InsertTailOK
<1> HIDE DEF i
<1>6. QED
  BY <1>1, <1>2, <1>3, <1>5, PutBackOK

LEMMA TickedOK ==
  ASSUME NEW s \in Sched, RunqMatch(s)
  PROVE  /\ Ticked(s) \in Sched /\ RunqMatch(Ticked(s)) /\ Ticked(s).cur = s.cur
         /\ Ticked(s).state = s.state /\ Ticked(s).prio = s.prio
<1> DEFINE x == IF s.cur = Idle \/ s.quantum[s.cur] = 0 THEN s.quantum[s.cur]
                ELSE s.quantum[s.cur] - 1
           r == Ticked(s)
<1>1. s.cur \in Threads /\ s.quantum \in [Threads -> 0..Slice] /\ s.quantum[s.cur] \in 0..Slice
  BY DEF Sched
<1>2. x \in 0..Slice
  BY <1>1, ThreadAssumption
<1>3. r = [s EXCEPT !.quantum = [s.quantum EXCEPT ![s.cur] = x]]
  BY <1>1 DEF Ticked, Sched
<1> HIDE DEF x, r
<1>4. /\ r.state = s.state /\ r.cur = s.cur /\ r.prio = s.prio
      /\ r.runq = s.runq /\ r.bitmap = s.bitmap
  BY <1>3 DEF Sched
<1>5. r \in Sched
  BY <1>1, <1>2, <1>3 DEF Sched
<1>6. RunqMatch(r)
  BY <1>4 DEF RunqMatch
<1>7. QED
  BY <1>4, <1>5, <1>6 DEF r

-----------------------------------------------------------------------------
(* Wait queues.                                                            *)

\* The states x and y block the same threads, except for what they say of t.
SameBlocked(x, y, t) ==
  \A u \in Threads : u # t => (x[u] = "blocked" <=> y[u] = "blocked")

LEMMA SameWaiters ==
  ASSUME NEW x, NEW y, NEW w, WaitMatch(x, w),
         \A u \in Threads : x[u] = "blocked" <=> y[u] = "blocked"
  PROVE  WaitMatch(y, w)
BY DEF WaitMatch

\* v is w with t at the end of queue q, and matches the thread states y.
Pushed(v, w, y, q, t) ==
  /\ v \in Waits /\ WaitMatch(y, v)
  /\ v.blockq = [w.blockq EXCEPT ![t] = q]
  /\ v.ret = [w.ret EXCEPT ![t] = "ok"]
  /\ v.list[q] # <<>>
  /\ \A z \in Queues : z # q => v.list[z] = w.list[z] /\ v.count[z] = w.count[z]
  /\ v.count[q] = w.count[q] + 1

LEMMA PushOK ==
  ASSUME NEW x, NEW y, NEW w \in Waits, WaitMatch(x, w), NEW q \in Queues, NEW t \in Threads,
         x[t] # "blocked", y[t] = "blocked", SameBlocked(x, y, t)
  PROVE  Pushed(PushWaiter(w, q, t), w, y, q, t)
<1> DEFINE c == Append(w.list[q], t)
           v == PushWaiter(w, q, t)
<1>1. /\ w.list \in [Queues -> Seq(Threads)] /\ w.count \in [Queues -> Int]
      /\ w.blockq \in [Threads -> Queues \cup {NoQueue}] /\ w.ret \in [Threads -> Results]
  BY DEF Waits
<1>2. w.list[q] \in Seq(Threads) /\ Once(w.list[q]) /\ ~Listed(t, w.list[q])
  BY <1>1 DEF WaitMatch
<1>3. /\ c \in Seq(Threads) /\ c # <<>> /\ Once(c) /\ Len(c) = Len(w.list[q]) + 1
      /\ \A u : Listed(u, c) <=> Listed(u, w.list[q]) \/ u = t
  BY <1>2, ListedAppend
<1>4. v = [w EXCEPT !.list = [w.list EXCEPT ![q] = c],
                    !.count = [w.count EXCEPT ![q] = w.count[q] + 1],
                    !.blockq = [w.blockq EXCEPT ![t] = q],
                    !.ret = [w.ret EXCEPT ![t] = "ok"]]
  BY <1>1 DEF PushWaiter, Waits
<1> HIDE DEF c, v
<1>5. /\ v.list = [w.list EXCEPT ![q] = c] /\ v.count = [w.count EXCEPT ![q] = w.count[q] + 1]
      /\ v.blockq = [w.blockq EXCEPT ![t] = q] /\ v.ret = [w.ret EXCEPT ![t] = "ok"]
  BY <1>4 DEF Waits
<1>6. v \in Waits
  <2>1. /\ [w.list EXCEPT ![q] = c] \in [Queues -> Seq(Threads)]
        /\ [w.count EXCEPT ![q] = w.count[q] + 1] \in [Queues -> Int]
    BY <1>1, <1>3
  <2>2. [w.blockq EXCEPT ![t] = q] \in [Threads -> Queues \cup {NoQueue}]
    BY <1>1, <1>3
  <2>3. [w.ret EXCEPT ![t] = "ok"] \in [Threads -> Results]
    BY <1>1, <1>3 DEF Results
  <2>4. QED BY <2>1, <2>2, <2>3, <1>4 DEF Waits
<1>7. WaitMatch(y, v)
  <2>1. ASSUME NEW z \in Queues, NEW u \in Threads
        PROVE  Listed(u, v.list[z]) <=> y[u] = "blocked" /\ v.blockq[u] = z
    <3>1. Listed(u, w.list[z]) <=> x[u] = "blocked" /\ w.blockq[u] = z
      BY DEF WaitMatch
    <3>2. v.list[z] = IF z = q THEN c ELSE w.list[z]
      BY <1>1, <1>5
    <3>3. v.blockq[u] = IF u = t THEN q ELSE w.blockq[u]
      BY <1>1, <1>5
    <3>4. QED BY <1>3, <3>1, <3>2, <3>3 DEF SameBlocked
  <2>2. ASSUME NEW z \in Queues PROVE Once(v.list[z]) /\ v.count[z] = Len(v.list[z])
    BY <1>1, <1>3, <1>5 DEF WaitMatch
  <2>3. QED BY <2>1, <2>2 DEF WaitMatch
<1>8. QED
  BY <1>1, <1>3, <1>5, <1>6, <1>7 DEF v, Pushed

\* v is w without the waiter t of queue q, which is told err.
Removed(v, w, q, t, err) ==
  /\ v \in Waits
  /\ v.list[q] \in Seq(Threads) /\ Once(v.list[q]) /\ Len(v.list[q]) = Len(w.list[q]) - 1
  /\ \A u : Listed(u, v.list[q]) <=> Listed(u, w.list[q]) /\ u # t
  /\ \A z \in Queues : z # q => v.list[z] = w.list[z] /\ v.count[z] = w.count[z]
  /\ v.count[q] = w.count[q] - 1
  /\ v.blockq = [w.blockq EXCEPT ![t] = NoQueue]
  /\ v.ret = [w.ret EXCEPT ![t] = err]

LEMMA RemovedOK ==
  ASSUME NEW x, NEW y, NEW w \in Waits, WaitMatch(x, w), NEW q \in Queues, NEW t \in Threads,
         NEW err, NEW v, Removed(v, w, q, t, err), NoQueue \notin Queues,
         y[t] # "blocked", SameBlocked(x, y, t), w.blockq[t] = q
  PROVE  WaitMatch(y, v)
<1>1. w.blockq \in [Threads -> Queues \cup {NoQueue}]
  BY DEF Waits
<1>2. ASSUME NEW z \in Queues, NEW u \in Threads
      PROVE  Listed(u, v.list[z]) <=> y[u] = "blocked" /\ v.blockq[u] = z
  <2>1. Listed(u, w.list[z]) <=> x[u] = "blocked" /\ w.blockq[u] = z
    BY DEF WaitMatch
  <2>2. v.blockq[u] = IF u = t THEN NoQueue ELSE w.blockq[u]
    BY <1>1 DEF Removed
  <2>3. CASE u = t
    BY <2>1, <2>2, <2>3 DEF Removed
  <2>4. CASE u # t
    BY <2>1, <2>2, <2>4 DEF Removed, SameBlocked
  <2>5. QED BY <2>3, <2>4
<1>3. ASSUME NEW z \in Queues PROVE Once(v.list[z]) /\ v.count[z] = Len(v.list[z])
  BY DEF WaitMatch, Removed
<1>4. QED BY <1>2, <1>3 DEF WaitMatch

LEMMA PopOK ==
  ASSUME NEW x, NEW w \in Waits, WaitMatch(x, w), NEW q \in Queues, w.list[q] # <<>>,
         NEW err \in Results
  PROVE  /\ Head(w.list[q]) \in Threads
         /\ x[Head(w.list[q])] = "blocked" /\ w.blockq[Head(w.list[q])] = q
         /\ Removed(PopWaiter(w, q, err), w, q, Head(w.list[q]), err)
         /\ PopWaiter(w, q, err).list[q] = Tail(w.list[q])
<1> DEFINE h == Head(w.list[q])
           c == Tail(w.list[q])
           v == PopWaiter(w, q, err)
<1>1. /\ w.list \in [Queues -> Seq(Threads)] /\ w.count \in [Queues -> Int]
      /\ w.blockq \in [Threads -> Queues \cup {NoQueue}] /\ w.ret \in [Threads -> Results]
  BY DEF Waits
<1>2. w.list[q] \in Seq(Threads) /\ Once(w.list[q])
  BY <1>1 DEF WaitMatch
<1>3. /\ h \in Threads /\ Listed(h, w.list[q])
      /\ c \in Seq(Threads) /\ Once(c) /\ Len(c) = Len(w.list[q]) - 1
      /\ \A u : Listed(u, c) <=> Listed(u, w.list[q]) /\ u # h
  BY <1>2, ListedTail
<1>4. v = [w EXCEPT !.list = [w.list EXCEPT ![q] = c],
                    !.count = [w.count EXCEPT ![q] = w.count[q] - 1],
                    !.blockq = [w.blockq EXCEPT ![h] = NoQueue],
                    !.ret = [w.ret EXCEPT ![h] = err]]
  BY <1>1 DEF PopWaiter, Waits
<1>5. x[h] = "blocked" /\ w.blockq[h] = q
  BY <1>3 DEF WaitMatch
<1> HIDE DEF c, v, h
<1>6. /\ v.list = [w.list EXCEPT ![q] = c] /\ v.count = [w.count EXCEPT ![q] = w.count[q] - 1]
      /\ v.blockq = [w.blockq EXCEPT ![h] = NoQueue] /\ v.ret = [w.ret EXCEPT ![h] = err]
  BY <1>4 DEF Waits
<1>7. v \in Waits
  <2>1. /\ [w.list EXCEPT ![q] = c] \in [Queues -> Seq(Threads)]
        /\ [w.count EXCEPT ![q] = w.count[q] - 1] \in [Queues -> Int]
    BY <1>1, <1>3
  <2>2. [w.blockq EXCEPT ![h] = NoQueue] \in [Threads -> Queues \cup {NoQueue}]
    BY <1>1, <1>3
  <2>3. [w.ret EXCEPT ![h] = err] \in [Threads -> Results]
    BY <1>1, <1>3
  <2>4. QED BY <2>1, <2>2, <2>3, <1>4 DEF Waits
<1>8. Removed(v, w, q, h, err) /\ v.list[q] = c
  BY <1>1, <1>3, <1>6, <1>7 DEF Removed
<1>9. QED
  BY <1>3, <1>5, <1>8 DEF v, h, c

LEMMA UnlinkOK ==
  ASSUME NEW x, NEW w \in Waits, WaitMatch(x, w), NEW t \in Threads, x[t] = "blocked",
         w.blockq[t] \in Queues, NEW err \in Results
  PROVE  Removed(UnlinkWaiter(w, t, err), w, w.blockq[t], t, err)
<1> DEFINE q == w.blockq[t]
           n == CHOOSE j \in DOMAIN w.list[q] : w.list[q][j] = t
           c == RemoveAt(w.list[q], n)
           v == UnlinkWaiter(w, t, err)
<1>1. /\ w.list \in [Queues -> Seq(Threads)] /\ w.count \in [Queues -> Int]
      /\ w.blockq \in [Threads -> Queues \cup {NoQueue}] /\ w.ret \in [Threads -> Results]
  BY DEF Waits
<1>2. w.list[q] \in Seq(Threads) /\ Once(w.list[q]) /\ Listed(t, w.list[q])
  BY <1>1 DEF WaitMatch
<1>3. n \in DOMAIN w.list[q] /\ w.list[q][n] = t
  BY <1>2 DEF Listed
<1>4. v = [w EXCEPT !.list = [w.list EXCEPT ![q] = c],
                    !.count = [w.count EXCEPT ![q] = w.count[q] - 1],
                    !.blockq = [w.blockq EXCEPT ![t] = NoQueue],
                    !.ret = [w.ret EXCEPT ![t] = err]]
  BY <1>1 DEF UnlinkWaiter, Waits
<1> HIDE DEF n
<1>5. /\ c \in Seq(Threads) /\ Once(c) /\ Len(c) = Len(w.list[q]) - 1
      /\ \A u : Listed(u, c) <=> Listed(u, w.list[q]) /\ u # t
  BY <1>2, <1>3, ListedRemoveAt
<1> HIDE DEF c, v, q
<1>6. q \in Queues
  BY DEF q
<1>7. /\ v.list = [w.list EXCEPT ![q] = c] /\ v.count = [w.count EXCEPT ![q] = w.count[q] - 1]
      /\ v.blockq = [w.blockq EXCEPT ![t] = NoQueue] /\ v.ret = [w.ret EXCEPT ![t] = err]
  BY <1>4 DEF Waits
<1>8. v \in Waits
  <2>1. /\ [w.list EXCEPT ![q] = c] \in [Queues -> Seq(Threads)]
        /\ [w.count EXCEPT ![q] = w.count[q] - 1] \in [Queues -> Int]
    BY <1>1, <1>5, <1>6
  <2>2. [w.blockq EXCEPT ![t] = NoQueue] \in [Threads -> Queues \cup {NoQueue}]
    BY <1>1, <1>5, <1>6
  <2>3. [w.ret EXCEPT ![t] = err] \in [Threads -> Results]
    BY <1>1, <1>5, <1>6
  <2>4. QED BY <2>1, <2>2, <2>3, <1>4 DEF Waits
<1>9. Removed(v, w, q, t, err)
  BY <1>1, <1>5, <1>6, <1>7, <1>8 DEF Removed
<1>10. QED
  BY <1>9 DEF v, q

-----------------------------------------------------------------------------
(* Steps.  Where a step may run: in a thread, or in a device interrupt.    *)

InKernelCaller ==
  /\ drain.q = NoQueue
  /\ (at[k.cur] = "user" /\ cs[k.cur] = 0) \/ at[k.cur] = "device"

LEMMA Types ==
  ASSUME TypeOK
  PROVE  /\ k.cur \in Threads /\ k.state \in [Threads -> States]
         /\ k.state[k.cur] \in States /\ k.prio \in [Threads -> Priorities]
         /\ wq.blockq \in [Threads -> Queues \cup {NoQueue}]
         /\ wq.ret \in [Threads -> Results]
         /\ cs \in [Threads -> Int] /\ ints \in BOOLEAN /\ at \in [Threads -> Places]
         /\ frame \in [Threads -> [q : Queues \cup {NoQueue}, timed : BOOLEAN]]
         /\ timer \in [Threads -> {"off", "sleep", "wait"}]
         /\ target \in [Threads -> Threads \cup {NoThread}]
         /\ drain \in [q : Queues \cup {NoQueue}, err : Results]
BY DEF TypeOK, Sched, Waits

LEMMA NestType == \A place : Nest(place) \in Int
BY DEF Nest

LEMMA EnterOK ==
  ASSUME TypeOK, NEW place \in Places, EnterKernel(place)
  PROVE  /\ cs' \in [Threads -> Int] /\ ints' \in BOOLEAN /\ at' \in [Threads -> Places]
         /\ at' = [at EXCEPT ![k.cur] = place]
<1>1. cs' \in [Threads -> Int]
  BY Types, NestType DEF EnterKernel
<1>2. ints' \in BOOLEAN
  BY DEF EnterKernel
<1>3. QED
  BY <1>1, <1>2, Types DEF EnterKernel

LEMMA LeaveOK ==
  ASSUME TypeOK, LeaveKernel
  PROVE  /\ cs' \in [Threads -> Int] /\ ints' \in BOOLEAN /\ at' \in [Threads -> Places]
         /\ at' = [at EXCEPT ![k.cur] = "user"]
<1>1. cs' \in [Threads -> Int]
  BY Types, NestType DEF LeaveKernel
<1>2. ints' \in BOOLEAN
  BY DEF LeaveKernel
<1>3. QED
  BY <1>1, <1>2, Types DEF LeaveKernel, Places

\* The current thread calls the kernel.
LEMMA CallerStands ==
  ASSUME ThreadInv, Caller
  PROVE  /\ InKernelCaller /\ at[k.cur] = "user" /\ cs[k.cur] = 0 /\ k.cur # Idle
         /\ drain.q = NoQueue /\ k.state[k.cur] = "running"
BY DEF Caller, InThread, InKernelCaller, ThreadInv, CpuAccounted

\* A call that enters its critical section disables interrupts, one that leaves
\* it is over, and what happens inside one enables nothing.
LEMMA EnterMasked ==
  ASSUME cs[k.cur] = 0, NEW place, EnterKernel(place)
  PROVE  CallsMasked'
BY DEF EnterKernel, CallsMasked

LEMMA LeaveMasked ==
  ASSUME TypeOK, LeaveKernel, k' = k
  PROVE  CallsMasked'
BY Types DEF LeaveKernel, CallsMasked

LEMMA KeptMasked ==
  ASSUME ThreadInv, ints' = ints, at[k.cur] \notin {"user", "unmasked"}
  PROVE  CallsMasked'
BY DEF ThreadInv, CallsMasked

LEMMA SameMasked ==
  ASSUME ThreadInv, UNCHANGED <<ints, at>>, k'.cur = k.cur
  PROVE  CallsMasked'
BY DEF ThreadInv, CallsMasked

\* A step that leaves the run queues, the wait queues and the timers alone.
LEMMA QuietStep ==
  ASSUME ThreadInv, UNCHANGED <<k, wq, timer>>,
         cs' \in [Threads -> Int], ints' \in BOOLEAN, at' \in [Threads -> Places],
         frame' \in [Threads -> [q : Queues \cup {NoQueue}, timed : BOOLEAN]],
         target' \in [Threads -> Threads \cup {NoThread}],
         drain' \in [q : Queues \cup {NoQueue}, err : Results],
         CpuAccounted', StackTimersDisarmed', CallsMatch', CallsMasked'
  PROVE  ThreadInv'
<1>1. TypeOK'
  BY DEF ThreadInv, TypeOK
<1>2. RunQueuesMatch' /\ WaitQueuesMatch'
  BY DEF ThreadInv, RunQueuesMatch, WaitQueuesMatch
<1>3. QED
  BY <1>1, <1>2 DEF ThreadInv

LEMMA ReturnOK ==
  ASSUME ThreadInv, Return
  PROVE  ThreadInv'
<1> USE DEF ThreadInv
<1>1. /\ cs' \in [Threads -> Int] /\ ints' \in BOOLEAN /\ at' \in [Threads -> Places]
      /\ at' = [at EXCEPT ![k.cur] = "user"]
  BY LeaveOK DEF Return
<1>2. CpuAccounted' /\ StackTimersDisarmed' /\ CallsMatch'
  BY <1>1, Types DEF Return, CpuAccounted, StackTimersDisarmed, CallsMatch, Switched
<1>3. CallsMasked'
  BY LeaveMasked DEF Return
<1>4. QED
  BY <1>1, <1>2, <1>3, Types, QuietStep DEF Return

\* The model ends with a call that disables nothing: nothing else has changed.
LEMMA EnterUnmaskedOK ==
  ASSUME ThreadInv, EnterUnmasked
  PROVE  ThreadInv'
<1> USE DEF ThreadInv
<1>1. at[k.cur] = "user" /\ UNCHANGED <<k, wq, frame, timer, target, drain>>
  BY DEF EnterUnmasked, InThread
<1>2. /\ cs' \in [Threads -> Int] /\ ints' \in BOOLEAN /\ at' \in [Threads -> Places]
      /\ at' = [at EXCEPT ![k.cur] = "unmasked"]
  BY EnterOK DEF EnterUnmasked, Places
<1>3. CpuAccounted' /\ StackTimersDisarmed' /\ CallsMatch' /\ CallsMasked'
  BY <1>1, <1>2, Types DEF CpuAccounted, StackTimersDisarmed, CallsMatch, CallsMasked
<1>4. QED
  BY <1>1, <1>2, <1>3, Types, QuietStep

LEMMA ResumeCheckOK ==
  ASSUME ThreadInv, ExclusiveResume, NEW t \in Threads, ResumeCheck(t)
  PROVE  ThreadInv'
<1> USE DEF ThreadInv
<1>1. target' = [target EXCEPT ![k.cur] = t] /\ target' \in [Threads -> Threads \cup {NoThread}]
  BY Types DEF ResumeCheck
<1>2. CpuAccounted' /\ StackTimersDisarmed'
  BY DEF ResumeCheck, CpuAccounted, StackTimersDisarmed
<1>3. CallsMatch'
  BY <1>1, Types, ThreadAssumption DEF ResumeCheck, CallsMatch
<1>4. CallsMasked'
  BY SameMasked DEF ResumeCheck
<1>5. QED
  BY <1>1, <1>2, <1>3, <1>4, Types, QuietStep DEF ResumeCheck

LEMMA IrqEnterOK ==
  ASSUME ThreadInv, NEW source \in {"tick", "device"}, IrqEnter(source)
  PROVE  ThreadInv'
<1> USE DEF ThreadInv
<1>1. /\ at' = [at EXCEPT ![k.cur] = source] /\ at' \in [Threads -> Places]
      /\ cs' \in [Threads -> Int] /\ ints' \in BOOLEAN
  <2>1. source \in Places
    BY DEF Places
  <2>2. cs' \in [Threads -> Int]
    BY Types DEF IrqEnter
  <2>3. ints' \in BOOLEAN
    BY DEF IrqEnter
  <2>4. QED BY <2>1, <2>2, <2>3, Types DEF IrqEnter
<1>2. at[k.cur] = "user"
  BY DEF IrqEnter, CallsMasked
<1>3. CpuAccounted' /\ StackTimersDisarmed' /\ CallsMatch' /\ CallsMasked'
  BY <1>1, <1>2, Types
  DEF IrqEnter, CpuAccounted, StackTimersDisarmed, CallsMatch, CallsMasked
<1>4. QED
  BY <1>1, <1>3, Types, QuietStep DEF IrqEnter

\* A switch by preemption or yield keeps the CPU accounted for.
LEMMA SwitchOK ==
  ASSUME ThreadInv, k.state[k.cur] = "running", drain.q = NoQueue, drain' = drain,
         NEW new \in Threads, Switch(k', k, new)
  PROVE  /\ \A t \in Threads :
              k'.state[t] = IF t = new THEN "running"
                            ELSE IF t = k.cur THEN "ready" ELSE k.state[t]
         /\ CpuAccounted'
<1>1. \A t \in Threads :
        k'.state[t] = IF t = new THEN "running"
                      ELSE IF t = k.cur THEN "ready" ELSE k.state[t]
  BY Types DEF Switch, ThreadInv
<1>2. \A t \in Threads : k'.state[t] = "running" => t = k'.cur
  BY <1>1 DEF Switch, ThreadInv, CpuAccounted
<1>3. k'.state[k'.cur] = "running" /\ k'.state[Idle] \in {"running", "ready"}
  BY <1>1, ThreadAssumption DEF Switch, ThreadInv, CpuAccounted
<1>4. QED
  BY <1>1, <1>2, <1>3 DEF CpuAccounted

LEMMA YieldOK ==
  ASSUME ThreadInv, Yield
  PROVE  ThreadInv'
<1> USE DEF ThreadInv
<1>1. k.state[k.cur] = "running" /\ drain.q = NoQueue
  BY DEF Yield, Caller, InThread, CpuAccounted
<1>2. PICK new \in Threads : Switch(k', k, new)
  BY <1>1, YieldedOK DEF Yield, TypeOK, RunQueuesMatch
<1>3. /\ cs' \in [Threads -> Int] /\ ints' \in BOOLEAN /\ at' \in [Threads -> Places]
      /\ at' = [at EXCEPT ![k.cur] = "yield"]
  BY EnterOK DEF Yield, Places, Switched
<1>4. TypeOK'
  BY <1>2, <1>3 DEF Yield, TypeOK, Switch
<1>5. RunQueuesMatch' /\ WaitQueuesMatch'
  BY <1>1, <1>2, SameWaiters, Types DEF Switch, Yield, RunQueuesMatch, WaitQueuesMatch
<1>6. CpuAccounted'
  BY <1>1, <1>2, SwitchOK DEF Yield
<1>7. StackTimersDisarmed' /\ CallsMatch'
  BY <1>1, <1>2, <1>3, Types DEF Switch, Yield, Caller, InThread, StackTimersDisarmed, CallsMatch
<1>8. CallsMasked'
  BY CallerStands, EnterMasked DEF Yield
<1>9. QED
  BY <1>4, <1>5, <1>6, <1>7, <1>8

LEMMA TickExitOK ==
  ASSUME ThreadInv, TickExit
  PROVE  ThreadInv'
<1> USE DEF ThreadInv
<1>1. k.state[k.cur] = "running" /\ drain.q = NoQueue
  BY DEF TickExit, CpuAccounted
<1>2. PICK new \in Threads : Switch(k', Ticked(k), new)
  BY <1>1, TickedOK, PreemptedOK DEF TickExit, TypeOK, RunQueuesMatch
<1>3. Switch(k', k, new)
  BY <1>2, TickedOK DEF Switch, TypeOK, RunQueuesMatch
<1>4. /\ cs' \in [Threads -> Int] /\ at' \in [Threads -> Places]
      /\ at' = [at EXCEPT ![k.cur] = "preempt"]
  BY Types DEF TickExit, Places, Switched
<1>5. TypeOK'
  BY <1>3, <1>4 DEF TickExit, TypeOK, Switch
<1>6. RunQueuesMatch' /\ WaitQueuesMatch'
  BY <1>1, <1>3, SameWaiters, Types DEF Switch, TickExit, RunQueuesMatch, WaitQueuesMatch
<1>7. CpuAccounted'
  BY <1>1, <1>3, SwitchOK DEF TickExit
<1>8. StackTimersDisarmed' /\ CallsMatch'
  BY <1>1, <1>3, <1>4, Types DEF Switch, TickExit, StackTimersDisarmed, CallsMatch
<1>9. CallsMasked'
  BY KeptMasked DEF TickExit
<1>10. QED
  BY <1>5, <1>6, <1>7, <1>8, <1>9

LEMMA DeviceExitOK ==
  ASSUME ThreadInv, NEW reschedule \in BOOLEAN, DeviceExit(reschedule)
  PROVE  ThreadInv'
<1> USE DEF ThreadInv
<1>1. k.state[k.cur] = "running" /\ drain.q = NoQueue
  BY DEF DeviceExit, CpuAccounted
<1>2. CASE reschedule
  <2>1. PICK new \in Threads : Switch(k', k, new)
    BY <1>1, <1>2, PreemptedOK DEF DeviceExit, TypeOK, RunQueuesMatch
  <2>2. /\ cs' \in [Threads -> Int] /\ at' \in [Threads -> Places]
        /\ at' = [at EXCEPT ![k.cur] = "preempt"] /\ ints' = ints
    <3>1. /\ at' = [at EXCEPT ![k.cur] = "preempt"] /\ ints' = ints
          /\ cs' = [cs EXCEPT ![k.cur] = @ + 1]
      BY <1>2 DEF DeviceExit
    <3>2. "preempt" \in Places
      BY DEF Places, Switched
    <3>3. QED BY <3>1, <3>2, Types
  <2>3. TypeOK'
    BY <2>1, <2>2 DEF DeviceExit, TypeOK, Switch
  <2>4. RunQueuesMatch' /\ WaitQueuesMatch'
    BY <1>1, <2>1, SameWaiters, Types DEF Switch, DeviceExit, RunQueuesMatch, WaitQueuesMatch
  <2>5. CpuAccounted'
    BY <1>1, <2>1, SwitchOK DEF DeviceExit
  <2>6. StackTimersDisarmed' /\ CallsMatch'
    BY <1>1, <2>1, <2>2, Types DEF Switch, DeviceExit, StackTimersDisarmed, CallsMatch
  <2>7. CallsMasked'
    BY <2>2, KeptMasked DEF DeviceExit
  <2>8. QED BY <2>3, <2>4, <2>5, <2>6, <2>7
<1>3. CASE ~reschedule
  <2>1. /\ cs' \in [Threads -> Int] /\ ints' \in BOOLEAN /\ at' \in [Threads -> Places]
        /\ at' = [at EXCEPT ![k.cur] = "user"]
    BY <1>3, LeaveOK DEF DeviceExit
  <2>2. UNCHANGED <<k, wq, frame, timer, target, drain>> /\ at[k.cur] = "device"
    BY <1>3 DEF DeviceExit
  <2>3. CpuAccounted'
    BY <1>1, <2>2 DEF CpuAccounted
  <2>4. StackTimersDisarmed' /\ CallsMatch'
    BY <2>1, <2>2, Types DEF StackTimersDisarmed, CallsMatch
  <2>5. CallsMasked'
    BY <1>3, LeaveMasked DEF DeviceExit
  <2>6. QED BY <2>1, <2>2, <2>3, <2>4, <2>5, Types, QuietStep
<1>4. QED BY <1>2, <1>3

LEMMA SetPriorityOK ==
  ASSUME ThreadInv, NEW p \in Priorities, SetPriority(p)
  PROVE  ThreadInv'
<1> USE DEF ThreadInv
<1>1. k.state[k.cur] = "running" /\ drain.q = NoQueue
  BY DEF SetPriority, InThread, CpuAccounted
<1>2. k' = [k EXCEPT !.prio = [k.prio EXCEPT ![k.cur] = p]]
  BY DEF SetPriority, TypeOK, Sched
<1>3. /\ k' \in Sched /\ k'.cur = k.cur /\ k'.state = k.state /\ k'.runq = k.runq
      /\ k'.bitmap = k.bitmap /\ k'.prio = [k.prio EXCEPT ![k.cur] = p]
  BY <1>2, Types DEF TypeOK, Sched
<1>4. RunQueuesMatch'
  BY <1>1, <1>3, Types DEF RunQueuesMatch, RunqMatch
<1>5. TypeOK' /\ WaitQueuesMatch'
  BY <1>3 DEF SetPriority, TypeOK, WaitQueuesMatch
<1>6. CpuAccounted' /\ StackTimersDisarmed' /\ CallsMatch'
  BY <1>3 DEF SetPriority, CpuAccounted, StackTimersDisarmed, CallsMatch
<1>7. CallsMasked'
  BY <1>3, SameMasked DEF SetPriority
<1>8. QED
  BY <1>4, <1>5, <1>6, <1>7

LEMMA CreateOK ==
  ASSUME ThreadInv, NEW t \in Threads, Create(t)
  PROVE  ThreadInv'
<1> USE DEF ThreadInv
<1>1. /\ k.state[k.cur] = "running" /\ drain.q = NoQueue /\ k.state[t] = "none"
      /\ t # k.cur /\ at[k.cur] = "user"
  BY DEF Create, Caller, InThread, CpuAccounted
<1>2. k' = [k EXCEPT !.state = [k.state EXCEPT ![t] = "suspended"],
                     !.prio = [k.prio EXCEPT ![t] = StartPriority[t]],
                     !.quantum = [k.quantum EXCEPT ![t] = 0]]
  BY DEF Create, TypeOK, Sched
<1>3. /\ [k.state EXCEPT ![t] = "suspended"] \in [Threads -> States]
      /\ [k.prio EXCEPT ![t] = StartPriority[t]] \in [Threads -> Priorities]
      /\ [k.quantum EXCEPT ![t] = 0] \in [Threads -> 0..Slice]
  BY ThreadAssumption DEF TypeOK, Sched, States
<1>4. /\ k' \in Sched /\ k'.cur = k.cur /\ k'.state = [k.state EXCEPT ![t] = "suspended"]
      /\ k'.runq = k.runq /\ k'.bitmap = k.bitmap
      /\ k'.prio = [k.prio EXCEPT ![t] = StartPriority[t]]
  BY <1>2, <1>3 DEF TypeOK, Sched
<1>5. RunQueuesMatch'
  BY <1>1, <1>4, Types DEF RunQueuesMatch, RunqMatch
<1>6. wq' = [wq EXCEPT !.blockq = [wq.blockq EXCEPT ![t] = NoQueue],
                       !.ret = [wq.ret EXCEPT ![t] = "ok"]]
  BY DEF Create, TypeOK, Waits
<1>7. /\ wq'.list = wq.list /\ wq'.count = wq.count
      /\ wq'.blockq = [wq.blockq EXCEPT ![t] = NoQueue]
  BY <1>6 DEF TypeOK, Waits
<1>8. wq' \in Waits
  <2>1. /\ [wq.blockq EXCEPT ![t] = NoQueue] \in [Threads -> Queues \cup {NoQueue}]
        /\ [wq.ret EXCEPT ![t] = "ok"] \in [Threads -> Results]
    BY Types DEF Results
  <2>2. QED BY <1>6, <2>1 DEF TypeOK, Waits
<1>9. WaitQueuesMatch'
  BY <1>1, <1>4, <1>7, Types DEF WaitQueuesMatch, WaitMatch
<1>10. /\ at' = [at EXCEPT ![t] = "fresh"] /\ at' \in [Threads -> Places]
       /\ cs' \in [Threads -> Int]
  BY Types DEF Create, Places, Switched
<1>11. TypeOK'
  BY <1>4, <1>8, <1>10 DEF Create, TypeOK
<1>12. at[t] # "block"
  BY <1>1 DEF CallsMatch
<1>13. CpuAccounted'
  BY <1>1, <1>4, <1>10, Types, ThreadAssumption DEF Create, CpuAccounted
<1>14. StackTimersDisarmed'
  BY <1>1, <1>4, <1>10, <1>12, Types DEF Create, StackTimersDisarmed
<1>15. CallsMatch'
  BY <1>1, <1>4, <1>7, <1>10, <1>12, Types DEF Create, CallsMatch
<1>16. CallsMasked'
  BY <1>1, <1>4, <1>10, Types DEF Create, CallsMasked
<1>17. QED
  BY <1>5, <1>9, <1>11, <1>13, <1>14, <1>15, <1>16

LEMMA ResumeOK ==
  ASSUME ThreadInv, Resume
  PROVE  ThreadInv'
<1> USE DEF ThreadInv
<1> DEFINE u == target[k.cur]
           r == MadeReady(k, u)
<1>1. /\ k.state[k.cur] = "running" /\ drain.q = NoQueue /\ u \in Threads
      /\ k.state[u] = "suspended" /\ u # k.cur /\ at[k.cur] = "user"
  BY Types DEF Resume, Caller, InThread, CpuAccounted, CallsMatch
<1>2. /\ r \in Sched /\ RunqMatch(r) /\ r.cur = k.cur /\ r.prio = k.prio
      /\ r.state = [k.state EXCEPT ![u] = "ready"]
  BY <1>1, MadeReadyOK DEF TypeOK, RunQueuesMatch
<1>3. k' = Yielded(r)
  BY DEF Resume
<1> HIDE DEF u, r
<1>4. PICK new \in Threads : Switch(k', r, new)
  <2>1. r.state[r.cur] # "ready"
    BY <1>1, <1>2, Types
  <2>2. QED BY <1>2, <1>3, <2>1, YieldedOK
<1>5. \A t \in Threads : k'.state[t] = IF t = new THEN "running"
                                      ELSE IF t = k.cur \/ t = u THEN "ready" ELSE k.state[t]
  BY <1>1, <1>2, <1>4, Types DEF Switch
<1>6. /\ k'.cur = new
      /\ new = k.cur \/ new = u \/ k.state[new] = "ready"
      /\ k' \in Sched /\ RunQueuesMatch'
  BY <1>2, <1>4, Types DEF Switch, RunQueuesMatch
<1>7. /\ cs' \in [Threads -> Int] /\ ints' \in BOOLEAN /\ at' \in [Threads -> Places]
      /\ at' = [at EXCEPT ![k.cur] = "resume"]
  BY EnterOK DEF Resume, Places, Switched
<1>8. /\ target' = [target EXCEPT ![k.cur] = NoThread]
      /\ target' \in [Threads -> Threads \cup {NoThread}]
  BY Types DEF Resume
<1>9. TypeOK'
  BY <1>6, <1>7, <1>8 DEF Resume, TypeOK
<1>10. WaitQueuesMatch'
  BY <1>1, <1>5, <1>6, SameWaiters DEF WaitQueuesMatch, Resume
<1>11. CpuAccounted'
  BY <1>1, <1>5, <1>6, ThreadAssumption DEF Resume, CpuAccounted
<1>12. StackTimersDisarmed'
  BY <1>1, <1>5, <1>6, <1>7, Types DEF Resume, StackTimersDisarmed
<1>13. CallsMatch'
  <2>1. ASSUME NEW t \in Threads
        PROVE  /\ k'.state[t] = "blocked" => frame'[t].q = wq'.blockq[t] /\ frame'[t].q # NoQueue
               /\ at'[t] = "block" <=> frame'[t].q # NoQueue
               /\ at'[t] = "block" => k'.state[t] \in {"blocked", "ready", "running"}
    BY <1>1, <1>5, <1>6, <1>7, Types DEF Resume, CallsMatch
  <2>2. ASSUME NEW t \in Threads, NEW v \in Threads, target'[t] = v
        PROVE  k'.state[v] = "suspended"
    <3>1. t # k.cur /\ target[t] = v
      BY <1>8, <2>2, Types, ThreadAssumption
    <3>2. v # u /\ k.state[v] = "suspended"
      BY <1>1, <3>1, Types, ThreadAssumption DEF CallsMatch, u
    <3>3. QED BY <1>1, <1>5, <1>6, <3>2
  <2>3. ASSUME NEW t \in Threads, NEW v \in Threads, target'[t] = target'[v]
        PROVE  t = v \/ target'[t] = NoThread
    BY <1>8, <2>3, Types DEF CallsMatch
  <2>4. QED BY <2>1, <2>2, <2>3 DEF CallsMatch
<1>14. CallsMasked'
  BY CallerStands, EnterMasked DEF Resume
<1>15. QED
  BY <1>6, <1>9, <1>10, <1>11, <1>12, <1>13, <1>14

\* The current thread gives the CPU up in a state x with no run queue: asleep, blocked or dead.
LEMMA LeavesCpu ==
  ASSUME ThreadInv, drain.q = NoQueue, k.cur # Idle, k.state[k.cur] = "running",
         NEW x \in {"sleeping", "blocked", "death"}, k' = Resched(SetState(k, k.cur, x)), drain' = drain
  PROVE  \E new \in Threads :
           /\ new # k.cur /\ k'.cur = new /\ k.state[new] = "ready"
           /\ k' \in Sched /\ RunQueuesMatch' /\ CpuAccounted'
           /\ \A t \in Threads : k'.state[t] = IF t = new THEN "running"
                                              ELSE IF t = k.cur THEN x ELSE k.state[t]
<1> USE DEF ThreadInv
<1> DEFINE r == SetState(k, k.cur, x)
<1>1. /\ r \in Sched /\ RunqMatch(r) /\ r.state = [k.state EXCEPT ![k.cur] = x]
      /\ r.cur = k.cur
  <2>1. x \in States \ {"ready"}
    BY DEF States
  <2>2. QED BY <2>1, Types, LeftRunning, SMTT(30) DEF TypeOK, RunQueuesMatch
<1> HIDE DEF r
<1>2. r.state[Idle] = "ready"
  BY <1>1, Types, ThreadAssumption DEF CpuAccounted
<1>3. r.bitmap # {}
  BY <1>1, <1>2, ReadyHasBit, ThreadAssumption
<1>4. PICK new \in Threads :
        /\ r.state[new] = "ready"
        /\ k' \in Sched /\ RunqMatch(k') /\ k'.cur = new
        /\ k'.state = [r.state EXCEPT ![new] = "running"]
  BY <1>1, <1>3, ReschedOK DEF r
<1>5. new # k.cur /\ k.state[new] = "ready"
  BY <1>1, <1>4, Types
<1>6. \A t \in Threads : k'.state[t] = IF t = new THEN "running"
                                      ELSE IF t = k.cur THEN x ELSE k.state[t]
  BY <1>1, <1>4, <1>5, Types
<1>7. CpuAccounted'
  BY <1>2, <1>4, <1>5, <1>6, ThreadAssumption DEF CpuAccounted
<1>8. QED
  BY <1>4, <1>5, <1>6, <1>7 DEF RunQueuesMatch

LEMMA SleepOK ==
  ASSUME ThreadInv, Sleep
  PROVE  ThreadInv'
<1> USE DEF ThreadInv
<1>1. /\ k.state[k.cur] = "running" /\ drain.q = NoQueue /\ k.cur # Idle
      /\ at[k.cur] = "user"
  BY DEF Sleep, Caller, InThread, CpuAccounted
<1>2. PICK new \in Threads :
        /\ new # k.cur /\ k'.cur = new /\ k.state[new] = "ready"
        /\ k' \in Sched /\ RunQueuesMatch' /\ CpuAccounted'
        /\ \A t \in Threads : k'.state[t] = IF t = new THEN "running"
                                           ELSE IF t = k.cur THEN "sleeping" ELSE k.state[t]
  BY <1>1, LeavesCpu DEF Sleep
<1>3. /\ cs' \in [Threads -> Int] /\ ints' \in BOOLEAN /\ at' \in [Threads -> Places]
      /\ at' = [at EXCEPT ![k.cur] = "sleep"]
  BY EnterOK DEF Sleep, Places, Switched
<1>4. /\ timer' = [timer EXCEPT ![k.cur] = "sleep"]
      /\ timer' \in [Threads -> {"off", "sleep", "wait"}]
  BY Types DEF Sleep
<1>5. TypeOK'
  BY <1>2, <1>3, <1>4 DEF Sleep, TypeOK
<1>6. WaitQueuesMatch'
  BY <1>1, <1>2, SameWaiters DEF WaitQueuesMatch, Sleep
<1>7. StackTimersDisarmed'
  BY <1>1, <1>2, <1>3, <1>4, Types DEF Sleep, StackTimersDisarmed
<1>8. CallsMatch'
  <2>1. ASSUME NEW t \in Threads
        PROVE  /\ k'.state[t] = "blocked" => frame'[t].q = wq'.blockq[t] /\ frame'[t].q # NoQueue
               /\ at'[t] = "block" <=> frame'[t].q # NoQueue
               /\ at'[t] = "block" => k'.state[t] \in {"blocked", "ready", "running"}
    BY <1>1, <1>2, <1>3, Types DEF Sleep, CallsMatch
  <2>2. ASSUME NEW t \in Threads, NEW v \in Threads, target'[t] = v
        PROVE  k'.state[v] = "suspended"
    BY <1>1, <1>2, <2>2 DEF Sleep, CallsMatch
  <2>3. QED BY <2>1, <2>2 DEF CallsMatch, Sleep
<1>9. CallsMasked'
  BY CallerStands, EnterMasked DEF Sleep
<1>10. QED
  BY <1>2, <1>5, <1>6, <1>7, <1>8, <1>9

LEMMA BlockOK ==
  ASSUME ThreadInv, NEW q \in Queues, NEW timed \in BOOLEAN, Block(q, timed)
  PROVE  ThreadInv'
<1> USE DEF ThreadInv
<1>1. /\ k.state[k.cur] = "running" /\ drain.q = NoQueue /\ k.cur # Idle
      /\ at[k.cur] = "user" /\ k.cur \in Threads
  BY Types DEF Block, Caller, InThread, CpuAccounted
<1>2. PICK new \in Threads :
        /\ new # k.cur /\ k'.cur = new /\ k.state[new] = "ready"
        /\ k' \in Sched /\ RunQueuesMatch' /\ CpuAccounted'
        /\ \A t \in Threads : k'.state[t] = IF t = new THEN "running"
                                           ELSE IF t = k.cur THEN "blocked" ELSE k.state[t]
  BY <1>1, LeavesCpu DEF Block
<1>3. /\ cs' \in [Threads -> Int] /\ ints' \in BOOLEAN /\ at' \in [Threads -> Places]
      /\ at' = [at EXCEPT ![k.cur] = "block"]
  BY EnterOK DEF Block, Places
<1>4. /\ timer' \in [Threads -> {"off", "sleep", "wait"}]
      /\ \A t \in Threads : timer'[t] = IF t = k.cur /\ timed THEN "wait" ELSE timer[t]
  BY Types DEF Block
<1>5. /\ frame' = [frame EXCEPT ![k.cur] = [q |-> q, timed |-> timed]]
      /\ frame' \in [Threads -> [q : Queues \cup {NoQueue}, timed : BOOLEAN]]
  BY Types DEF Block
<1>6. /\ wq' \in Waits /\ WaitQueuesMatch'
      /\ wq'.blockq = [wq.blockq EXCEPT ![k.cur] = q]
  <2>1. SameBlocked(k.state, k'.state, k.cur)
    BY <1>1, <1>2 DEF SameBlocked
  <2>2. wq' = PushWaiter(wq, q, k.cur)
    BY DEF Block
  <2>3. /\ wq \in Waits /\ WaitMatch(k.state, wq)
        /\ k.state[k.cur] # "blocked" /\ k'.state[k.cur] = "blocked"
    BY <1>1, <1>2 DEF TypeOK, WaitQueuesMatch
  <2>4. /\ wq' \in Waits /\ WaitMatch(k'.state, wq')
        /\ wq'.blockq = [wq.blockq EXCEPT ![k.cur] = q]
    <3> DEFINE x == k.state
               y == k'.state
               c == k.cur
    <3>1. c \in Threads /\ x[c] # "blocked" /\ y[c] = "blocked" /\ SameBlocked(x, y, c)
          /\ wq \in Waits /\ WaitMatch(x, wq)
      BY <1>1, <2>1, <2>3
    <3> HIDE DEF x, y, c
    <3>2. Pushed(PushWaiter(wq, q, c), wq, y, q, c)
      BY <3>1, PushOK
    <3>3. QED BY <2>2, <3>2 DEF Pushed, c, y
  <2>5. QED BY <2>4 DEF WaitQueuesMatch
<1>7. TypeOK'
  BY <1>2, <1>3, <1>4, <1>5, <1>6 DEF Block, TypeOK
<1>8. StackTimersDisarmed'
  BY <1>1, <1>2, <1>3, <1>4, <1>5, Types DEF StackTimersDisarmed
<1>9. CallsMatch'
  <2>0. target' = target
    BY DEF Block
  <2>1. ASSUME NEW t \in Threads
        PROVE  /\ k'.state[t] = "blocked" => frame'[t].q = wq'.blockq[t] /\ frame'[t].q # NoQueue
               /\ at'[t] = "block" <=> frame'[t].q # NoQueue
               /\ at'[t] = "block" => k'.state[t] \in {"blocked", "ready", "running"}
    <3>1. CASE t = k.cur
      BY <1>1, <1>2, <1>3, <1>5, <1>6, <3>1, Types, ThreadAssumption
    <3>2. CASE t # k.cur
      <4>1. at'[t] = at[t] /\ frame'[t] = frame[t] /\ wq'.blockq[t] = wq.blockq[t]
        BY <1>3, <1>5, <1>6, <3>2, Types
      <4>2. QED BY <1>1, <1>2, <3>2, <4>1 DEF CallsMatch
    <3>3. QED BY <3>1, <3>2
  <2>2. ASSUME NEW t \in Threads, NEW v \in Threads, target'[t] = v
        PROVE  k'.state[v] = "suspended"
    BY <1>1, <1>2, <2>0, <2>2 DEF CallsMatch
  <2>3. QED BY <2>0, <2>1, <2>2 DEF CallsMatch
<1>10. CallsMasked'
  BY CallerStands, EnterMasked DEF Block
<1>11. QED
  BY <1>2, <1>6, <1>7, <1>8, <1>9, <1>10

LEMMA BlockReturnOK ==
  ASSUME ThreadInv, NEW q \in Queues, BlockReturn(q)
  PROVE  ThreadInv'
<1> USE DEF ThreadInv
<1>1. /\ k.state[k.cur] = "running" /\ drain.q = NoQueue /\ at[k.cur] = "block"
      /\ UNCHANGED <<k, wq, target, drain>>
  BY DEF BlockReturn, CpuAccounted
<1>2. /\ cs' \in [Threads -> Int] /\ ints' \in BOOLEAN /\ at' \in [Threads -> Places]
      /\ at' = [at EXCEPT ![k.cur] = "user"]
  BY LeaveOK DEF BlockReturn
<1>3. /\ frame' = [frame EXCEPT ![k.cur] = NoFrame]
      /\ frame' \in [Threads -> [q : Queues \cup {NoQueue}, timed : BOOLEAN]]
  BY Types DEF BlockReturn, NoFrame
<1>4. /\ timer' \in [Threads -> {"off", "sleep", "wait"}]
      /\ \A t \in Threads :
           timer'[t] = IF t = k.cur /\ frame[t].timed THEN "off" ELSE timer[t]
  BY Types DEF BlockReturn
<1>5. TypeOK'
  BY <1>1, <1>2, <1>3, <1>4 DEF TypeOK
<1>6. RunQueuesMatch' /\ WaitQueuesMatch'
  BY <1>1 DEF RunQueuesMatch, WaitQueuesMatch
<1>7. CpuAccounted'
  BY <1>1 DEF CpuAccounted
<1>8. StackTimersDisarmed'
  BY <1>1, <1>2, <1>3, <1>4, Types DEF StackTimersDisarmed
<1>9. CallsMatch'
  BY <1>1, <1>2, <1>3, Types DEF CallsMatch, NoFrame
<1>10. CallsMasked'
  BY <1>1, LeaveMasked DEF BlockReturn
<1>11. QED
  BY <1>5, <1>6, <1>7, <1>8, <1>9, <1>10

\* What the head of a wait queue is.
LEMMA HeadBlocked ==
  ASSUME ThreadInv, NEW q \in Queues, wq.list[q] # <<>>
  PROVE  /\ Head(wq.list[q]) \in Threads
         /\ k.state[Head(wq.list[q])] = "blocked" /\ wq.blockq[Head(wq.list[q])] = q
         /\ frame[Head(wq.list[q])].q = q /\ at[Head(wq.list[q])] = "block"
<1> DEFINE h == Head(wq.list[q])
           x == k.state
<1>1. wq \in Waits /\ WaitMatch(x, wq)
  BY DEF ThreadInv, TypeOK, WaitQueuesMatch
<1>2. "ok" \in Results
  BY DEF Results
<1> HIDE DEF x
<1>3. h \in Threads /\ x[h] = "blocked" /\ wq.blockq[h] = q
  BY <1>1, <1>2, PopOK
<1> HIDE DEF h
<1>4. frame[h].q = q /\ at[h] = "block"
  BY <1>3, ThreadAssumption DEF ThreadInv, CallsMatch, x
<1>5. QED
  BY <1>3, <1>4 DEF h, x

\* The wait queues after the head of q has been woken, whatever else ran.
LEMMA WokenOK ==
  ASSUME ThreadInv, NEW q \in Queues, wq.list[q] # <<>>, NEW err \in Results,
         wq' = PopWaiter(wq, q, err), NEW h, h = Head(wq.list[q]),
         k'.state[h] # "blocked", SameBlocked(k.state, k'.state, h)
  PROVE  /\ wq' \in Waits /\ WaitQueuesMatch'
         /\ wq'.blockq = [wq.blockq EXCEPT ![h] = NoQueue]
         /\ wq'.ret = [wq.ret EXCEPT ![h] = err]
         /\ wq'.list[q] = Tail(wq.list[q])
         /\ wq'.count[q] = wq.count[q] - 1
         /\ \A z \in Queues : z # q => wq'.list[z] = wq.list[z] /\ wq'.count[z] = wq.count[z]
<1> DEFINE x == k.state
           y == k'.state
           v == wq'
<1>1. /\ wq \in Waits /\ WaitMatch(x, wq) /\ y[h] # "blocked" /\ SameBlocked(x, y, h)
      /\ NoQueue \notin Queues
  BY ThreadAssumption DEF ThreadInv, TypeOK, WaitQueuesMatch
<1>2. v = PopWaiter(wq, q, err)
  OBVIOUS
<1> HIDE DEF x, y, v
<1>3. /\ h \in Threads /\ x[h] = "blocked" /\ wq.blockq[h] = q
      /\ Removed(v, wq, q, h, err) /\ v.list[q] = Tail(wq.list[q])
  BY <1>1, <1>2, PopOK
<1>4. WaitMatch(y, v)
  BY <1>1, <1>3, RemovedOK
<1>5. QED
  BY <1>3, <1>4 DEF Removed, v, y, WaitQueuesMatch

\* A step that neither enters nor leaves wait_queue_block and suspends no one.
LEMMA CallsKept ==
  ASSUME ThreadInv, UNCHANGED <<frame, target>>,
         \A t \in Threads : at'[t] = "block" <=> at[t] = "block",
         \A t \in Threads : k'.state[t] = "blocked" =>
            k.state[t] = "blocked" /\ wq'.blockq[t] = wq.blockq[t],
         \A t \in Threads : at[t] = "block" => k'.state[t] \in {"blocked", "ready", "running"},
         \A t \in Threads : k.state[t] = "suspended" => k'.state[t] = "suspended"
  PROVE  CallsMatch'
<1>1. \A t \in Threads :
        /\ k'.state[t] = "blocked" => frame'[t].q = wq'.blockq[t] /\ frame'[t].q # NoQueue
        /\ at'[t] = "block" <=> frame'[t].q # NoQueue
        /\ at'[t] = "block" => k'.state[t] \in {"blocked", "ready", "running"}
  BY DEF ThreadInv, CallsMatch
<1>2. \A t, u \in Threads : target'[t] = u => k'.state[u] = "suspended"
  BY DEF ThreadInv, CallsMatch
<1>3. \A t, u \in Threads : target'[t] = target'[u] => t = u \/ target'[t] = NoThread
  BY DEF ThreadInv, CallsMatch
<1>4. QED
  BY <1>1, <1>2, <1>3 DEF CallsMatch

LEMMA WakeOneOK ==
  ASSUME ThreadInv, NEW q \in Queues, NEW reschedule \in BOOLEAN, NEW err \in Results,
         WakeOne(q, reschedule, err), InKernelCaller, reschedule => at[k.cur] = "user"
  PROVE  ThreadInv'
<1> DEFINE h == Head(wq.list[q])
<1>1. /\ h \in Threads /\ k.state[h] = "blocked" /\ wq.blockq[h] = q /\ at[h] = "block"
      /\ k.state[k.cur] = "running" /\ drain.q = NoQueue /\ k.cur \in Threads /\ h # k.cur
      /\ wq.list[q] # <<>> /\ wq' = PopWaiter(wq, q, err) /\ k \in Sched /\ RunqMatch(k)
      /\ at[k.cur] # "block" /\ UNCHANGED <<frame, timer, target, drain>>
  BY HeadBlocked, Types DEF WakeOne, InKernelCaller, ThreadInv, CpuAccounted, TypeOK, RunQueuesMatch
<1>2. /\ k' \in Sched /\ RunqMatch(k') /\ CpuAccounted'
      /\ SameBlocked(k.state, k'.state, h)
      /\ k'.state[h] \in {"ready", "running"} /\ k'.state[k.cur] \in {"ready", "running"}
      /\ \A t \in Threads :
            t \notin {h, k.cur} => k'.state[t] = k.state[t] \/ (k.state[t] = "ready" /\ k'.state[t] = "running")
  <2>1. CASE reschedule
    <3> DEFINE a == MadeReady(k, k.cur)
               b == MadeReady(a, h)
    <3>1. /\ a \in Sched /\ RunqMatch(a) /\ a.cur = k.cur
          /\ a.state = [k.state EXCEPT ![k.cur] = "ready"]
      BY <1>1, MadeReadyOK
    <3> HIDE DEF a, h
    <3>2. a.state[h] # "ready"
      BY <1>1, <3>1, Types DEF ThreadInv
    <3>3. /\ b \in Sched /\ RunqMatch(b) /\ b.bitmap # {} /\ b.cur = k.cur
          /\ b.state = [a.state EXCEPT ![h] = "ready"]
      BY <1>1, <3>1, <3>2, MadeReadyOK
    <3> HIDE DEF b
    <3>4. k' = Resched(b)
      BY <2>1 DEF WakeOne, a, b, h
    <3>5. PICK new \in Threads :
            /\ b.state[new] = "ready" /\ k' \in Sched /\ RunqMatch(k') /\ k'.cur = new
            /\ k'.state = [b.state EXCEPT ![new] = "running"]
      BY <3>3, <3>4, ReschedOK
    <3>6. \A t \in Threads :
            /\ b.state[t] = IF t = k.cur \/ t = h THEN "ready" ELSE k.state[t]
            /\ k'.state[t] = IF t = new THEN "running" ELSE b.state[t]
      BY <1>1, <3>1, <3>3, <3>5, Types DEF ThreadInv
    <3>7. CpuAccounted'
      BY <1>1, <3>5, <3>6, ThreadAssumption DEF CpuAccounted, ThreadInv
    <3>8. SameBlocked(k.state, k'.state, h)
      BY <1>1, <3>5, <3>6 DEF SameBlocked
    <3>9. k'.state[h] \in {"ready", "running"} /\ k'.state[k.cur] \in {"ready", "running"}
      BY <1>1, <3>6
    <3>10. \A t \in Threads :
            t \notin {h, k.cur} => k'.state[t] = k.state[t] \/ (k.state[t] = "ready" /\ k'.state[t] = "running")
      BY <3>5, <3>6
    <3>11. QED BY <3>5, <3>7, <3>8, <3>9, <3>10 DEF h
  <2>2. CASE ~reschedule
    <3>1. /\ k' \in Sched /\ RunqMatch(k') /\ k'.cur = k.cur
          /\ k'.state = [k.state EXCEPT ![h] = "ready"] /\ at' = at
      <4>1. k' = MadeReady(k, h) /\ at' = at
        BY <2>2 DEF WakeOne
      <4>2. QED BY <1>1, <4>1, MadeReadyOK
    <3> HIDE DEF h
    <3>2. \A t \in Threads : k'.state[t] = IF t = h THEN "ready" ELSE k.state[t]
      BY <1>1, <3>1, Types DEF ThreadInv
    <3>3. CpuAccounted'
      BY <1>1, <3>1, <3>2, ThreadAssumption DEF CpuAccounted, ThreadInv
    <3>4. SameBlocked(k.state, k'.state, h)
      BY <3>2 DEF SameBlocked
    <3>5. k'.state[h] \in {"ready", "running"} /\ k'.state[k.cur] \in {"ready", "running"}
      BY <1>1, <3>2
    <3>6. \A t \in Threads :
            t \notin {h, k.cur} => k'.state[t] = k.state[t] \/ (k.state[t] = "ready" /\ k'.state[t] = "running")
      BY <3>2
    <3>7. QED BY <3>1, <3>3, <3>4, <3>5, <3>6 DEF h
  <2>3. QED BY <2>1, <2>2
<1>3. /\ wq' \in Waits /\ WaitQueuesMatch' /\ wq'.blockq = [wq.blockq EXCEPT ![h] = NoQueue]
  BY <1>1, <1>2, WokenOK, ZenonT(30)
<1> HIDE DEF h
<1>4. /\ cs' \in [Threads -> Int] /\ ints' \in BOOLEAN /\ at' \in [Threads -> Places]
      /\ \A t \in Threads : at'[t] = "block" <=> at[t] = "block"
  <2>1. CASE reschedule
    <3>1. EnterKernel("wake") /\ "wake" \in Places /\ TypeOK
      BY <2>1 DEF WakeOne, Places, Switched, ThreadInv
    <3>2. QED BY <1>1, <3>1, EnterOK, Types
  <2>2. CASE ~reschedule
    BY <2>2, Types DEF WakeOne, ThreadInv
  <2>3. QED BY <2>1, <2>2
<1>5. TypeOK'
  BY <1>1, <1>2, <1>3, <1>4 DEF TypeOK, ThreadInv
<1>6. StackTimersDisarmed'
  BY <1>1, <1>2, <1>4 DEF StackTimersDisarmed, ThreadInv
<1>7. CallsMatch'
  <2>1. \A t \in Threads : k'.state[t] = "blocked" =>
          k.state[t] = "blocked" /\ wq'.blockq[t] = wq.blockq[t]
    BY <1>1, <1>2, <1>3, Types DEF ThreadInv
  <2>2. \A t \in Threads : at[t] = "block" => k'.state[t] \in {"blocked", "ready", "running"}
    BY <1>1, <1>2 DEF ThreadInv, CallsMatch
  <2>3. \A t \in Threads : k.state[t] = "suspended" => k'.state[t] = "suspended"
    BY <1>1, <1>2
  <2>4. QED BY <1>1, <1>4, <2>1, <2>2, <2>3, CallsKept
<1>8. CallsMasked'
  <2>1. CASE reschedule
    <3>1. EnterKernel("wake") /\ cs[k.cur] = 0
      BY <2>1 DEF WakeOne, InKernelCaller
    <3>2. QED BY <3>1, EnterMasked
  <2>2. CASE ~reschedule
    <3>1. k' = MadeReady(k, Head(wq.list[q])) /\ UNCHANGED <<ints, at>>
      BY <2>2 DEF WakeOne
    <3>2. k'.cur = k.cur
      BY <1>1, <3>1, MadeReadyCur
    <3>3. QED BY <3>1, <3>2, SameMasked
  <2>3. QED BY <2>1, <2>2
<1>9. QED
  BY <1>2, <1>3, <1>5, <1>6, <1>7, <1>8 DEF ThreadInv, RunQueuesMatch

LEMMA WakeAllOK ==
  ASSUME ThreadInv, NEW q \in Queues, NEW reschedule \in BOOLEAN, NEW err \in Results,
         WakeAll(q, reschedule, err), InKernelCaller, reschedule => at[k.cur] = "user"
  PROVE  ThreadInv'
<1> USE DEF ThreadInv
<1>1. /\ k.state[k.cur] = "running" /\ k.cur \in Threads /\ k \in Sched /\ RunqMatch(k)
      /\ at[k.cur] \in {"user", "device"} /\ (at[k.cur] = "user" => cs[k.cur] = 0)
      /\ drain' = [q |-> q, err |-> err] /\ UNCHANGED <<wq, frame, timer, target>>
  BY Types DEF WakeAll, InKernelCaller, CpuAccounted, TypeOK, RunQueuesMatch
<1>2. wq.list[q] # <<>>
  BY DEF WakeAll, WaitQueuesMatch, WaitMatch
<1>3. drain' \in [q : Queues \cup {NoQueue}, err : Results] /\ drain'.q = q /\ q # NoQueue
  BY <1>1, ThreadAssumption
<1>4. CASE reschedule
  <2>1. /\ k' = MadeReady(k, k.cur) /\ EnterKernel("wake") /\ "wake" \in Places
        /\ cs[k.cur] = 0
    BY <1>1, <1>4 DEF WakeAll, Places, Switched
  <2>2. /\ k' \in Sched /\ RunqMatch(k') /\ k'.cur = k.cur
        /\ k'.state = [k.state EXCEPT ![k.cur] = "ready"]
    BY <1>1, <2>1, MadeReadyOK
  <2>3. /\ cs' \in [Threads -> Int] /\ ints' \in BOOLEAN /\ at' \in [Threads -> Places]
        /\ at' = [at EXCEPT ![k.cur] = "wake"]
    BY <2>1, EnterOK
  <2>4. \A t \in Threads : /\ k'.state[t] = IF t = k.cur THEN "ready" ELSE k.state[t]
                           /\ at'[t] = IF t = k.cur THEN "wake" ELSE at[t]
    BY <2>2, <2>3, Types
  <2>5. TypeOK'
    BY <1>1, <1>3, <2>2, <2>3 DEF TypeOK
  <2>6. RunQueuesMatch' /\ WaitQueuesMatch'
    <3>1. \A t \in Threads : k.state[t] = "blocked" <=> k'.state[t] = "blocked"
      BY <1>1, <2>4
    <3>2. WaitMatch(k'.state, wq)
      BY <3>1, SameWaiters DEF WaitQueuesMatch
    <3>3. QED BY <1>1, <2>2, <3>2 DEF RunQueuesMatch, WaitQueuesMatch
  <2>7. CpuAccounted'
    BY <1>1, <1>2, <1>3, <2>2, <2>4, ThreadAssumption DEF CpuAccounted
  <2>8. StackTimersDisarmed'
    BY <1>1, <2>4 DEF StackTimersDisarmed
  <2>9. CallsMatch'
    BY <1>1, <2>4, CallsKept DEF CallsMatch
  <2>10. CallsMasked'
    BY <2>1, EnterMasked
  <2>11. QED BY <2>5, <2>6, <2>7, <2>8, <2>9, <2>10
<1>5. CASE ~reschedule /\ at[k.cur] = "device"
  <2>1. UNCHANGED <<k, at, cs, ints>>
    BY <1>5 DEF WakeAll
  <2>2. CpuAccounted'
    BY <1>1, <1>2, <1>3, <1>5, <2>1 DEF CpuAccounted
  <2>3. StackTimersDisarmed' /\ CallsMatch' /\ CallsMasked'
    BY <1>1, <2>1 DEF StackTimersDisarmed, CallsMatch, CallsMasked
  <2>4. QED BY <1>1, <1>3, <2>1, <2>2, <2>3, Types, QuietStep
<1>6. CASE ~reschedule /\ at[k.cur] = "user"
  <2>1. k' = k /\ EnterKernel("waking") /\ "waking" \in Places /\ cs[k.cur] = 0
    BY <1>1, <1>6 DEF WakeAll, Places
  <2>2. /\ cs' \in [Threads -> Int] /\ ints' \in BOOLEAN /\ at' \in [Threads -> Places]
        /\ at' = [at EXCEPT ![k.cur] = "waking"]
    BY <2>1, EnterOK
  <2>3. \A t \in Threads : at'[t] = IF t = k.cur THEN "waking" ELSE at[t]
    BY <2>2, Types
  <2>4. CpuAccounted'
    BY <1>1, <1>2, <1>3, <2>1, <2>3 DEF CpuAccounted
  <2>5. StackTimersDisarmed' /\ CallsMatch'
    BY <1>1, <1>6, <2>1, <2>3 DEF StackTimersDisarmed, CallsMatch
  <2>6. CallsMasked'
    BY <2>1, EnterMasked
  <2>7. QED BY <1>1, <1>3, <2>1, <2>2, <2>4, <2>5, <2>6, Types, QuietStep
<1>7. QED BY <1>1, <1>4, <1>5, <1>6

LEMMA DrainOK ==
  ASSUME ThreadInv, Drain
  PROVE  ThreadInv'
<1> DEFINE q == drain.q
           err == drain.err
           h == Head(wq.list[q])
           woken == MadeReady(k, h)
           last == Len(wq.list[q]) = 1
<1>1. /\ q \in Queues /\ err \in Results /\ wq.list[q] # <<>>
      /\ wq' = PopWaiter(wq, q, err) /\ UNCHANGED <<cs, ints, at, frame, timer, target>>
      /\ drain' = IF last THEN NoDrain ELSE drain
      /\ k' = IF last /\ at[k.cur] \in {"wake", "exit"} THEN Resched(woken) ELSE woken
  BY Types DEF Drain, ThreadInv
<1>2. /\ h \in Threads /\ k.state[h] = "blocked" /\ at[h] = "block"
      /\ k.cur \in Threads /\ h # k.cur
      /\ k \in Sched /\ RunqMatch(k)
  BY <1>1, HeadBlocked, Types DEF ThreadInv, CpuAccounted, TypeOK, RunQueuesMatch
<1> HIDE DEF err
<1>3. /\ woken \in Sched /\ RunqMatch(woken) /\ woken.bitmap # {} /\ woken.cur = k.cur
      /\ \A t \in Threads : woken.state[t] = IF t = h THEN "ready" ELSE k.state[t]
  <2>1. /\ woken \in Sched /\ RunqMatch(woken) /\ woken.bitmap # {} /\ woken.cur = k.cur
        /\ woken.state = [k.state EXCEPT ![h] = "ready"]
    BY <1>2, MadeReadyOK
  <2> HIDE DEF woken, h
  <2>2. QED BY <1>2, <2>1, Types DEF ThreadInv
<1>4. wq.list[q] \in Seq(Threads) /\ (Tail(wq.list[q]) = <<>> <=> last)
  <2>1. wq.list[q] \in Seq(Threads)
    BY <1>1 DEF ThreadInv, TypeOK, Waits
  <2> DEFINE l == wq.list[q]
  <2>2. l \in Seq(Threads) /\ l # <<>>
    BY <1>1, <2>1
  <2> HIDE DEF l
  <2>3. Tail(l) = <<>> <=> Len(l) = 1
    <3>1. Tail(l) \in Seq(Threads) /\ Len(Tail(l)) = Len(l) - 1 /\ Len(l) \in Nat
      BY <2>2
    <3>2. QED BY <3>1, EmptySeq
  <2>4. QED BY <2>1, <2>3 DEF l
<1> HIDE DEF woken
<1>5. /\ k' \in Sched /\ RunqMatch(k')
      /\ k'.state[h] \in {"ready", "running"} /\ SameBlocked(k.state, k'.state, h)
      /\ \A t \in Threads : t # h =>
            k'.state[t] = k.state[t] \/ (k.state[t] = "ready" /\ k'.state[t] = "running")
      /\ last /\ at[k.cur] \in {"wake", "exit"} =>
            k'.state[k'.cur] = "running" /\ \A t \in Threads : k'.state[t] = "running" => t = k'.cur
      /\ ~(last /\ at[k.cur] \in {"wake", "exit"}) =>
            k'.cur = k.cur /\ \A t \in Threads \ {h} : k'.state[t] = k.state[t]
      /\ ~(last /\ at[k.cur] \in {"wake", "exit"}) => k'.state[h] = "ready"
  <2> HIDE DEF last, h
  <2>1. CASE last /\ at[k.cur] \in {"wake", "exit"}
    <3>1. k' = Resched(woken)
      BY <1>1, <2>1
    <3>2. PICK new \in Threads :
            /\ woken.state[new] = "ready" /\ k' \in Sched /\ RunqMatch(k') /\ k'.cur = new
            /\ k'.state = [woken.state EXCEPT ![new] = "running"]
      BY <1>3, <3>1, ReschedOK
    <3>3. \A t \in Threads : k'.state[t] = IF t = new THEN "running"
                                          ELSE IF t = h THEN "ready" ELSE k.state[t]
      BY <1>3, <3>2 DEF Sched
    <3>4. ~(k.state[k.cur] = "running")
      BY <2>1, <1>1, ThreadAssumption DEF ThreadInv, CpuAccounted
    <3>5. \A t \in Threads : k'.state[t] = "running" => t = k'.cur
      BY <1>2, <3>2, <3>3, <3>4 DEF ThreadInv, CpuAccounted
    <3>6. SameBlocked(k.state, k'.state, h)
      BY <1>2, <1>3, <3>2, <3>3 DEF SameBlocked
    <3>7. \A t \in Threads : t # h =>
            k'.state[t] = k.state[t] \/ (k.state[t] = "ready" /\ k'.state[t] = "running")
      BY <1>2, <1>3, <3>2, <3>3
    <3>8. k'.state[h] \in {"ready", "running"} /\ k'.state[k'.cur] = "running"
      BY <1>2, <3>2, <3>3
    <3>9. QED BY <2>1, <3>2, <3>5, <3>6, <3>7, <3>8
  <2>2. CASE ~(last /\ at[k.cur] \in {"wake", "exit"})
    <3>1. k' = woken
      BY <1>1, <2>2
    <3>2. SameBlocked(k.state, k'.state, h)
      BY <1>3, <3>1 DEF SameBlocked
    <3>3. QED BY <1>2, <1>3, <2>2, <3>1, <3>2
  <2>3. QED BY <2>1, <2>2
<1>6. /\ wq' \in Waits /\ WaitQueuesMatch' /\ wq'.blockq = [wq.blockq EXCEPT ![h] = NoQueue]
      /\ wq'.list[q] = Tail(wq.list[q])
  <2>1. k'.state[h] # "blocked"
    BY <1>5
  <2>2. q \in Queues /\ wq.list[q] # <<>> /\ err \in Results /\ wq' = PopWaiter(wq, q, err)
    BY <1>1
  <2> HIDE DEF q, last
  <2>3. QED BY <1>5, <2>1, <2>2, WokenOK, ZenonT(30)
<1> HIDE DEF last, h
<1>7. drain' \in [q : Queues \cup {NoQueue}, err : Results]
  BY <1>1, Types DEF ThreadInv, NoDrain, Results
<1>8. TypeOK'
  BY <1>1, <1>5, <1>6, <1>7 DEF TypeOK, ThreadInv
<1>9. k'.state[Idle] \in {"running", "ready"}
  BY <1>2, <1>5, ThreadAssumption DEF CpuAccounted, ThreadInv
<1>10. CpuAccounted'
  <2>1. CASE last
    <3>1. drain'.q = NoQueue
      BY <1>1, <2>1 DEF NoDrain
    <3>2. CASE at[k.cur] \in {"wake", "exit"}
      BY <1>5, <1>9, <2>1, <3>1, <3>2 DEF CpuAccounted
    <3>3. CASE at[k.cur] \notin {"wake", "exit"}
      <4>1. k.state[k.cur] = "running"
        BY <1>1, <3>3, ThreadAssumption DEF CpuAccounted, ThreadInv
      <4>2. QED BY <1>2, <1>5, <1>9, <3>1, <3>3, <4>1 DEF CpuAccounted, ThreadInv
    <3>4. QED BY <3>2, <3>3
  <2>2. CASE ~last
    <3>1. drain' = drain /\ wq'.list[q] # <<>> /\ q # NoQueue
      BY <1>1, <1>4, <1>6, <2>2, ThreadAssumption
    <3>2. k'.cur = k.cur /\ k'.state[k.cur] = k.state[k.cur] /\ at' = at
      BY <1>1, <1>2, <1>5, <2>2
    <3>3. \A t \in Threads : k'.state[t] = "running" => t = k'.cur
      BY <1>2, <1>5, <2>2 DEF CpuAccounted, ThreadInv
    <3>4. QED BY <1>9, <3>1, <3>2, <3>3 DEF CpuAccounted, ThreadInv
  <2>3. QED BY <2>1, <2>2
<1>11. StackTimersDisarmed'
  BY <1>1, <1>2, <1>5 DEF StackTimersDisarmed, ThreadInv
<1>12. CallsMatch'
  <2>1. \A t \in Threads : k'.state[t] = "blocked" =>
          k.state[t] = "blocked" /\ wq'.blockq[t] = wq.blockq[t]
    BY <1>2, <1>5, <1>6, Types DEF ThreadInv
  <2>2. \A t \in Threads : at[t] = "block" => k'.state[t] \in {"blocked", "ready", "running"}
    BY <1>2, <1>5 DEF ThreadInv, CallsMatch
  <2>3. \A t \in Threads : k.state[t] = "suspended" => k'.state[t] = "suspended"
    BY <1>2, <1>5
  <2>4. QED BY <1>1, <2>1, <2>2, <2>3, CallsKept
<1>13. CallsMasked'
  <2>1. at[k.cur] \notin {"user", "unmasked"}
    BY <1>1, ThreadAssumption DEF ThreadInv, CpuAccounted
  <2>2. QED BY <1>1, <2>1, KeptMasked
<1>14. QED
  BY <1>5, <1>6, <1>8, <1>10, <1>11, <1>12, <1>13 DEF ThreadInv, RunQueuesMatch

\* A timer makes ready a thread that was off the CPU.
LEMMA TimerWakes ==
  ASSUME ThreadInv, NEW t \in Threads, k.state[t] \in {"sleeping", "blocked"},
         at[k.cur] = "tick", k' = MadeReady(k, t), drain' = drain, at' = at
  PROVE  /\ k' \in Sched /\ RunQueuesMatch' /\ CpuAccounted' /\ t # k.cur
         /\ \A u \in Threads : k'.state[u] = IF u = t THEN "ready" ELSE k.state[u]
<1> USE DEF ThreadInv
<1>1. k.state[k.cur] = "running" /\ drain.q = NoQueue /\ t # k.cur
  BY DEF CpuAccounted
<1>2. /\ k' \in Sched /\ RunqMatch(k') /\ k'.cur = k.cur
      /\ k'.state = [k.state EXCEPT ![t] = "ready"]
  BY MadeReadyOK DEF TypeOK, RunQueuesMatch
<1>3. \A u \in Threads : k'.state[u] = IF u = t THEN "ready" ELSE k.state[u]
  BY <1>2, Types
<1>4. CpuAccounted'
  BY <1>1, <1>2, <1>3, Types, ThreadAssumption DEF CpuAccounted
<1>5. QED
  BY <1>1, <1>2, <1>3, <1>4 DEF RunQueuesMatch

LEMMA SleepFireOK ==
  ASSUME ThreadInv, NEW t \in Threads, SleepFire(t)
  PROVE  ThreadInv'
<1> USE DEF ThreadInv
<1>1. /\ timer' = [timer EXCEPT ![t] = "off"] /\ k.state[t] = "sleeping"
      /\ UNCHANGED <<wq, cs, ints, at, frame, target, drain>>
  BY DEF SleepFire, StackTimersDisarmed
<1>2. /\ k' \in Sched /\ RunQueuesMatch' /\ CpuAccounted' /\ t # k.cur
      /\ \A u \in Threads : k'.state[u] = IF u = t THEN "ready" ELSE k.state[u]
  BY <1>1, TimerWakes DEF SleepFire
<1>3. TypeOK'
  BY <1>1, <1>2, Types DEF TypeOK
<1>4. WaitQueuesMatch'
  BY <1>1, <1>2, SameWaiters DEF WaitQueuesMatch
<1>5. StackTimersDisarmed'
  BY <1>1, <1>2, Types DEF StackTimersDisarmed
<1>6. CallsMatch'
  BY <1>1, <1>2, CallsKept DEF CallsMatch
<1>7. CallsMasked'
  BY KeptMasked DEF SleepFire
<1>8. QED
  BY <1>2, <1>3, <1>4, <1>5, <1>6, <1>7

LEMMA TimeoutFireOK ==
  ASSUME ThreadInv, NEW t \in Threads, TimeoutFire(t)
  PROVE  ThreadInv'
<1> USE DEF ThreadInv
<1>1. /\ timer' = [timer EXCEPT ![t] = "off"] /\ timer[t] = "wait" /\ at[k.cur] = "tick"
      /\ UNCHANGED <<ints, at, frame, target, drain>>
      /\ timer' \in [Threads -> {"off", "sleep", "wait"}]
  BY Types DEF TimeoutFire
<1>2. CallsMasked'
  BY <1>1, KeptMasked
<1>3. CASE k.state[t] = "blocked"
  <2>1. k' = MadeReady(k, t) /\ wq' = UnlinkWaiter(wq, t, "timeout") /\ cs' = cs
    BY <1>3 DEF TimeoutFire
  <2>2. /\ k' \in Sched /\ RunQueuesMatch' /\ CpuAccounted' /\ t # k.cur
        /\ \A u \in Threads : k'.state[u] = IF u = t THEN "ready" ELSE k.state[u]
    BY <1>1, <1>3, <2>1, TimerWakes
  <2>3. /\ wq' \in Waits /\ WaitQueuesMatch'
        /\ wq'.blockq = [wq.blockq EXCEPT ![t] = NoQueue]
    <3> DEFINE x == k.state
               y == k'.state
               v == wq'
               q == wq.blockq[t]
    <3>1. wq \in Waits /\ WaitMatch(x, wq) /\ NoQueue \notin Queues /\ "timeout" \in Results
      BY ThreadAssumption DEF TypeOK, WaitQueuesMatch, Results
    <3>2. x[t] = "blocked" /\ y[t] # "blocked" /\ SameBlocked(x, y, t)
      BY <1>3, <2>2 DEF SameBlocked
    <3>3. q \in Queues
      BY <1>3, Types DEF CallsMatch
    <3>4. v = UnlinkWaiter(wq, t, "timeout")
      BY <2>1
    <3> HIDE DEF x, y, v
    <3>5. Removed(v, wq, q, t, "timeout")
      BY <3>1, <3>2, <3>3, <3>4, UnlinkOK
    <3>6. WaitMatch(y, v)
      BY <3>1, <3>2, <3>3, <3>5, RemovedOK
    <3>7. QED BY <3>5, <3>6 DEF Removed, WaitQueuesMatch, v, y
  <2>4. TypeOK'
    BY <1>1, <2>1, <2>2, <2>3 DEF TypeOK
  <2>5. StackTimersDisarmed'
    BY <1>1, <1>3, <2>2, Types DEF StackTimersDisarmed
  <2>6. CallsMatch'
    <3>1. \A u \in Threads : k'.state[u] = "blocked" =>
            k.state[u] = "blocked" /\ wq'.blockq[u] = wq.blockq[u]
      BY <2>2, <2>3, Types
    <3>2. \A u \in Threads : at[u] = "block" => k'.state[u] \in {"blocked", "ready", "running"}
      BY <2>2 DEF CallsMatch
    <3>3. \A u \in Threads : k.state[u] = "suspended" => k'.state[u] = "suspended"
      BY <1>3, <2>2
    <3>4. QED BY <1>1, <3>1, <3>2, <3>3, CallsKept
  <2>7. QED BY <1>2, <2>2, <2>3, <2>4, <2>5, <2>6
<1>4. CASE k.state[t] # "blocked"
  <2>1. UNCHANGED <<k, wq>> /\ cs' = [cs EXCEPT ![k.cur] = @ + 1]
    BY <1>4 DEF TimeoutFire
  <2>2. cs' \in [Threads -> Int]
    BY <2>1, Types
  <2>3. TypeOK'
    BY <1>1, <2>1, <2>2 DEF TypeOK
  <2>4. RunQueuesMatch' /\ WaitQueuesMatch' /\ CpuAccounted' /\ CallsMatch'
    BY <1>1, <2>1 DEF RunQueuesMatch, WaitQueuesMatch, CpuAccounted, CallsMatch
  <2>5. StackTimersDisarmed'
    BY <1>1, <2>1, Types DEF StackTimersDisarmed
  <2>6. QED BY <1>2, <2>3, <2>4, <2>5
<1>5. QED BY <1>3, <1>4

-----------------------------------------------------------------------------
(* Who is blocked, read off the wait queues.                               *)

LEMMA BlockedIsListed ==
  ASSUME ThreadInv
  PROVE  /\ \A t \in Threads :
              k.state[t] = "blocked" <=> \E q \in Queues : Listed(t, wq.list[q])
         /\ \A t \in Threads, q \in Queues : Listed(t, wq.list[q]) => wq.blockq[t] = q
<1>1. \A t \in Threads : k.state[t] = "blocked" => wq.blockq[t] \in Queues
  BY Types DEF ThreadInv, CallsMatch
<1>2. \A q \in Queues, t \in Threads :
        Listed(t, wq.list[q]) <=> k.state[t] = "blocked" /\ wq.blockq[t] = q
  BY DEF ThreadInv, WaitQueuesMatch, WaitMatch
<1>3. QED
  BY <1>1, <1>2

LEMMA SameListsSameBlocked ==
  ASSUME ThreadInv, ThreadInv', wq'.list = wq.list
  PROVE  \A t \in Threads : k'.state[t] = "blocked" <=> k.state[t] = "blocked"
<1>1. \A t \in Threads :
        k'.state[t] = "blocked" <=> \E q \in Queues : Listed(t, wq'.list[q])
  <2>1. \A t \in Threads : k'.state[t] = "blocked" => wq'.blockq[t] \in Queues
    BY DEF ThreadInv, CallsMatch, TypeOK, Waits
  <2>2. \A q \in Queues, t \in Threads :
          Listed(t, wq'.list[q]) <=> k'.state[t] = "blocked" /\ wq'.blockq[t] = q
    BY DEF ThreadInv, WaitQueuesMatch, WaitMatch
  <2>3. QED BY <2>1, <2>2
<1>2. QED
  BY <1>1, BlockedIsListed

LEMMA RemovedIsUnblocked ==
  ASSUME ThreadInv, ThreadInv', NEW q \in Queues, NEW t \in Threads, NEW err,
         Removed(wq', wq, q, t, err), k.state[t] = "blocked", wq.blockq[t] = q
  PROVE  /\ \A u \in Threads : k'.state[u] = "blocked" <=> k.state[u] = "blocked" /\ u # t
         /\ \A u \in Threads : wq'.ret[u] = IF u = t THEN err ELSE wq.ret[u]
<1>1. \A u \in Threads :
        k'.state[u] = "blocked" <=> \E z \in Queues : Listed(u, wq'.list[z])
  <2>1. \A u \in Threads : k'.state[u] = "blocked" => wq'.blockq[u] \in Queues
    BY DEF ThreadInv, CallsMatch, TypeOK, Waits
  <2>2. \A z \in Queues, u \in Threads :
          Listed(u, wq'.list[z]) <=> k'.state[u] = "blocked" /\ wq'.blockq[u] = z
    BY DEF ThreadInv, WaitQueuesMatch, WaitMatch
  <2>3. QED BY <2>1, <2>2
<1>2. \A u \in Threads, z \in Queues :
        Listed(u, wq'.list[z]) <=> Listed(u, wq.list[z]) /\ u # t
  <2> TAKE u \in Threads, z \in Queues
  <2>1. CASE z = q
    BY <2>1 DEF Removed
  <2>2. CASE z # q
    BY <2>2, BlockedIsListed DEF Removed
  <2>3. QED BY <2>1, <2>2
<1>3. \A u \in Threads : wq'.ret[u] = IF u = t THEN err ELSE wq.ret[u]
  BY Types DEF Removed, ThreadInv
<1>4. QED
  BY <1>1, <1>2, <1>3, BlockedIsListed

\* What a step may do to a thread u that is inside wait_queue_block: nothing,
\* or wake it, with the error of the queue that is being emptied or a timeout.
Untouched(u) == (k'.state[u] = "blocked" <=> k.state[u] = "blocked") /\ wq'.ret[u] = wq.ret[u]
Woken(u, err) == k.state[u] = "blocked" /\ k'.state[u] # "blocked" /\ wq'.ret[u] = err

LEMMA CoreWaiters ==
  ASSUME ThreadInv, ThreadInv', Core
  PROVE  /\ frame' = frame
         /\ drain' = drain \/ (drain' = NoDrain /\ wq'.list[drain.q] = <<>>)
         /\ \A u \in Threads : frame[u].q # NoQueue =>
              \/ Untouched(u)
              \/ Woken(u, drain.err) /\ drain.q = frame[u].q
              \/ Woken(u, "timeout") /\ frame[u].timed
<1>1. CASE wq' = wq /\ frame' = frame /\ drain' = drain
  BY <1>1, SameListsSameBlocked DEF Untouched
<1>2. CASE \E t \in Threads : Create(t)
  <2>1. PICK t \in Threads : Create(t)
    BY <1>2
  <2>2. /\ wq'.list = wq.list /\ wq'.ret = [wq.ret EXCEPT ![t] = "ok"]
        /\ frame' = frame /\ drain' = drain /\ k.state[t] = "none"
    BY <2>1 DEF Create, ThreadInv, TypeOK, Waits
  <2>3. frame[t].q = NoQueue
    BY <2>2 DEF ThreadInv, CallsMatch
  <2>4. QED BY <2>2, <2>3, SameListsSameBlocked, Types DEF Untouched, ThreadInv
<1>3. CASE Drain
  <2> DEFINE q == drain.q
             err == drain.err
             h == Head(wq.list[q])
             x == k.state
  <2>1. /\ q \in Queues /\ err \in Results /\ wq.list[q] # <<>> /\ wq' = PopWaiter(wq, q, err)
        /\ frame' = frame /\ (drain' = drain \/ drain' = NoDrain)
        /\ wq \in Waits /\ WaitMatch(x, wq)
    BY <1>3, Types DEF Drain, ThreadInv, TypeOK, WaitQueuesMatch
  <2>2. h \in Threads /\ x[h] = "blocked" /\ wq.blockq[h] = q /\ frame[h].q = q
    BY <2>1, HeadBlocked
  <2> HIDE DEF q, err, x
  <2>3. Removed(wq', wq, q, h, err)
    BY <2>1, PopOK
  <2>4. drain' = drain \/ wq'.list[q] = <<>>
    <3>1. drain' = drain \/ Len(wq.list[q]) = 1
      BY <1>3 DEF Drain, q
    <3>2. wq.list[q] \in Seq(Threads)
      BY <2>1 DEF Waits
    <3>3. PopWaiter(wq, q, err).list[q] = Tail(wq.list[q])
      BY <2>1, PopOK
    <3>4. ASSUME NEW s \in Seq(Threads), Len(s) = 1 PROVE Tail(s) = <<>>
      <4>1. Tail(s) \in Seq(Threads) /\ Len(Tail(s)) = 0
        BY <3>4
      <4>2. QED BY <4>1, EmptySeq
    <3>5. wq'.list[q] = Tail(wq.list[q])
      BY <2>1, <3>3, Zenon
    <3>6. QED BY <3>1, <3>2, <3>4, <3>5, Zenon
  <2> HIDE DEF h
  <2>5. /\ \A u \in Threads : k'.state[u] = "blocked" <=> k.state[u] = "blocked" /\ u # h
        /\ \A u \in Threads : wq'.ret[u] = IF u = h THEN err ELSE wq.ret[u]
    BY <2>1, <2>2, <2>3, RemovedIsUnblocked DEF x
  <2>6. QED BY <2>1, <2>2, <2>4, <2>5 DEF Untouched, Woken, q, err, x
<1>4. CASE \E t \in Threads : TimeoutFire(t)
  <2>1. PICK t \in Threads : TimeoutFire(t)
    BY <1>4
  <2>2. frame' = frame /\ drain' = drain /\ timer[t] = "wait"
    BY <2>1 DEF TimeoutFire
  <2>3. CASE k.state[t] = "blocked"
    <3> DEFINE q == wq.blockq[t]
               x == k.state
    <3>1. /\ wq' = UnlinkWaiter(wq, t, "timeout") /\ wq \in Waits /\ WaitMatch(x, wq)
          /\ "timeout" \in Results
      BY <2>1, <2>3 DEF TimeoutFire, ThreadInv, TypeOK, WaitQueuesMatch, Results
    <3>2. q \in Queues /\ x[t] = "blocked" /\ frame[t].timed
      BY <2>2, <2>3, Types DEF ThreadInv, CallsMatch, StackTimersDisarmed
    <3> HIDE DEF x
    <3>3. Removed(wq', wq, q, t, "timeout")
      BY <3>1, <3>2, UnlinkOK
    <3> HIDE DEF q
    <3>4. /\ \A u \in Threads : k'.state[u] = "blocked" <=> k.state[u] = "blocked" /\ u # t
          /\ \A u \in Threads : wq'.ret[u] = IF u = t THEN "timeout" ELSE wq.ret[u]
      BY <2>3, <3>2, <3>3, RemovedIsUnblocked DEF q
    <3>5. QED BY <2>2, <2>3, <3>2, <3>4 DEF Untouched, Woken
  <2>4. CASE k.state[t] # "blocked"
    <3>1. wq' = wq
      BY <2>1, <2>4 DEF TimeoutFire
    <3>2. QED BY <1>1, <2>2, <3>1
  <2>5. QED BY <2>3, <2>4
<1>5. QED
  <2>1. CASE ThreadCalls
    <3>1. CASE \E t \in Threads : ResumeCheck(t)
      BY <1>1, <3>1 DEF ResumeCheck
    <3>2. CASE Resume \/ Yield \/ Sleep \/ EnterUnmasked
      BY <1>1, <3>2 DEF Resume, Yield, Sleep, EnterUnmasked
    <3>3. CASE \E p \in SettablePriorities : SetPriority(p)
      BY <1>1, <3>3 DEF SetPriority
    <3>4. QED BY <1>2, <2>1, <3>1, <3>2, <3>3 DEF ThreadCalls
  <2>2. CASE KernelSteps
    <3>1. CASE Return \/ TickExit \/ Unmasked
      BY <1>1, <3>1 DEF Return, TickExit, Unmasked, tvars
    <3>2. CASE \E source \in {"tick", "device"} : IrqEnter(source)
      BY <1>1, <3>2 DEF IrqEnter
    <3>3. CASE \E t \in Threads : SleepFire(t)
      BY <1>1, <3>3 DEF SleepFire
    <3>4. CASE \E reschedule \in BOOLEAN : DeviceExit(reschedule)
      BY <1>1, <3>4 DEF DeviceExit
    <3>5. QED BY <1>3, <1>4, <2>2, <3>1, <3>2, <3>3, <3>4 DEF KernelSteps
  <2>3. QED BY <2>1, <2>2 DEF Core

LEMMA HeadRemoved ==
  ASSUME NEW S, NEW s \in Seq(S), s # <<>>
  PROVE  1 \in DOMAIN s /\ s[1] = Head(s) /\ RemoveAt(s, 1) = Tail(s)
<1> DEFINE x == SubSeq(s, 1, 0)
           y == SubSeq(s, 2, Len(s))
<1>1. DOMAIN s = 1..Len(s) /\ Len(s) \in Nat \ {0} /\ s[1] = Head(s)
  OBVIOUS
<1>2. x = <<>>
  OBVIOUS
<1>3. y = Tail(s)
  BY <1>1
<1>4. <<>> \o Tail(s) = Tail(s)
  OBVIOUS
<1>5. RemoveAt(s, 1) = x \o y
  BY DEF RemoveAt
<1> QED
  BY <1>1, <1>2, <1>3, <1>4, <1>5

\* The thread t, the i-th that waits on q, is taken off it and told err.
TakenOff(q, t, i, err) ==
  /\ k.state[t] = "blocked" /\ wq.blockq[t] = q /\ Removed(wq', wq, q, t, err)
  /\ i \in DOMAIN wq.list[q] /\ wq.list[q][i] = t
  /\ wq'.list[q] = RemoveAt(wq.list[q], i)

\* What the scheduler by itself does to the wait queues: nothing, one round of
\* the loop that empties one, or a timeout, which finds no such loop running.
LEMMA CoreTakesOff ==
  ASSUME ThreadInv, ThreadInv', Core
  PROVE  \/ /\ wq'.list = wq.list /\ drain' = drain
            /\ \A u \in Threads : frame[u].q # NoQueue => Untouched(u)
         \/ \E q \in Queues, t \in Threads :
              /\ drain.q = q /\ TakenOff(q, t, 1, drain.err)
              /\ drain' = drain \/ (drain' = NoDrain /\ wq'.list[q] = <<>>)
         \/ \E q \in Queues, t \in Threads, i \in Nat :
              /\ drain.q = NoQueue /\ drain' = drain /\ TakenOff(q, t, i, "timeout")
<1>1. wq \in Waits /\ NoDrain.q = NoQueue
  BY DEF ThreadInv, TypeOK, NoDrain
<1>2. ASSUME wq'.list = wq.list
      PROVE  \A u \in Threads : frame[u].q # NoQueue => Untouched(u)
  BY <1>2, CoreWaiters, SameListsSameBlocked DEF Woken
<1>3. CASE Drain
  <2> DEFINE q == drain.q
             err == drain.err
             h == Head(wq.list[q])
             x == k.state
  <2>1. /\ q \in Queues /\ err \in Results /\ wq.list[q] # <<>> /\ wq' = PopWaiter(wq, q, err)
        /\ WaitMatch(x, wq) /\ wq.list[q] \in Seq(Threads)
    BY <1>3, Types DEF Drain, ThreadInv, TypeOK, WaitQueuesMatch, Waits
  <2>2. drain' = drain \/ (drain' = NoDrain /\ wq'.list[q] = <<>>)
    BY CoreWaiters
  <2> HIDE DEF q, err, x
  <2>3. /\ h \in Threads /\ x[h] = "blocked" /\ wq.blockq[h] = q
        /\ Removed(wq', wq, q, h, err) /\ wq'.list[q] = Tail(wq.list[q])
    BY <1>1, <2>1, PopOK
  <2>4. 1 \in DOMAIN wq.list[q] /\ wq.list[q][1] = h /\ wq'.list[q] = RemoveAt(wq.list[q], 1)
    BY <2>1, <2>3, HeadRemoved
  <2> HIDE DEF h
  <2>5. TakenOff(q, h, 1, err)
    BY <2>3, <2>4 DEF TakenOff, x
  <2> QED
    BY <2>1, <2>2, <2>3, <2>5 DEF q, err
<1>4. ASSUME NEW t \in Threads, TimeoutFire(t), k.state[t] = "blocked"
      PROVE  \E q \in Queues, i \in Nat :
               drain.q = NoQueue /\ drain' = drain /\ TakenOff(q, t, i, "timeout")
  <2> DEFINE q == wq.blockq[t]
             i == CHOOSE j \in DOMAIN wq.list[q] : wq.list[q][j] = t
             x == k.state
  <2>1. /\ wq' = UnlinkWaiter(wq, t, "timeout") /\ WaitMatch(x, wq) /\ "timeout" \in Results
        /\ drain.q = NoQueue /\ drain' = drain
    BY <1>4 DEF TimeoutFire, ThreadInv, WaitQueuesMatch, Results, CpuAccounted
  <2>2. q \in Queues /\ x[t] = "blocked" /\ wq.list[q] \in Seq(Threads)
    BY <1>1, <1>4, Types DEF ThreadInv, CallsMatch, Waits
  <2>3. Listed(t, wq.list[q])
    BY <2>1, <2>2 DEF WaitMatch
  <2> HIDE DEF x
  <2>4. Removed(wq', wq, q, t, "timeout")
    BY <1>1, <2>1, <2>2, UnlinkOK
  <2>5. i \in DOMAIN wq.list[q] /\ wq.list[q][i] = t
    BY <2>3 DEF Listed
  <2>6. wq'.list[q] = RemoveAt(wq.list[q], i)
    BY <1>1, <2>1, <2>2 DEF UnlinkWaiter, Waits
  <2>7. i \in Nat
    BY <2>2, <2>5
  <2> HIDE DEF i
  <2>8. TakenOff(q, t, i, "timeout")
    BY <2>2, <2>4, <2>5, <2>6 DEF TakenOff, x
  <2> QED
    BY <2>1, <2>2, <2>7, <2>8
<1>5. CASE \E t \in Threads : TimeoutFire(t)
  <2>1. PICK t \in Threads : TimeoutFire(t)
    BY <1>5
  <2>2. CASE k.state[t] = "blocked"
    BY <1>4, <2>1, <2>2
  <2>3. CASE k.state[t] # "blocked"
    BY <1>2, <2>1, <2>3 DEF TimeoutFire
  <2> QED
    BY <2>2, <2>3
<1>6. CASE \E t \in Threads : Create(t)
  BY <1>1, <1>2, <1>6 DEF Create, Waits
<1>7. CASE ThreadCalls
  BY <1>2, <1>6, <1>7 
  DEF ThreadCalls, ResumeCheck, Resume, Yield, Sleep, SetPriority, EnterUnmasked
<1>8. CASE KernelSteps
  BY <1>2, <1>3, <1>5, <1>8
  DEF KernelSteps, Return, TickExit, IrqEnter, SleepFire, DeviceExit, Unmasked, tvars
<1> QED
  BY <1>7, <1>8 DEF Core

-----------------------------------------------------------------------------
(* The theorems.                                                           *)

LEMMA StutterOK ==
  ASSUME ThreadInv, UNCHANGED tvars
  PROVE  ThreadInv'
BY DEF ThreadInv, tvars, TypeOK, RunQueuesMatch, WaitQueuesMatch, CpuAccounted,
       StackTimersDisarmed, CallsMatch, CallsMasked

\* Whatever thread and device code calls the scheduler, every step of the
\* kernel itself and every thread call keeps the invariant.
LEMMA CoreOK ==
  ASSUME ThreadInv, ExclusiveResume, Core
  PROVE  ThreadInv'
<1>1. CASE ThreadCalls
  <2>1. CASE \E t \in Threads : Create(t) \/ ResumeCheck(t)
    BY <2>1, CreateOK, ResumeCheckOK
  <2>2. CASE Resume \/ Yield \/ Sleep
    BY <2>2, ResumeOK, YieldOK, SleepOK
  <2>3. CASE \E p \in SettablePriorities : SetPriority(p)
    BY <2>3, SetPriorityOK, PriorityAssumption
  <2>4. CASE EnterUnmasked
    BY <2>4, EnterUnmaskedOK
  <2>5. QED BY <1>1, <2>1, <2>2, <2>3, <2>4 DEF ThreadCalls
<1>2. CASE KernelSteps
  <2>1. CASE Return \/ Drain \/ TickExit
    BY <2>1, ReturnOK, DrainOK, TickExitOK
  <2>2. CASE \E source \in {"tick", "device"} : IrqEnter(source)
    BY <2>2, IrqEnterOK
  <2>3. CASE \E t \in Threads : SleepFire(t) \/ TimeoutFire(t)
    BY <2>3, SleepFireOK, TimeoutFireOK
  <2>4. CASE \E reschedule \in BOOLEAN : DeviceExit(reschedule)
    BY <2>4, DeviceExitOK
  <2>5. CASE Unmasked
    BY <2>5, StutterOK DEF Unmasked
  <2>6. QED BY <1>2, <2>1, <2>2, <2>3, <2>4, <2>5 DEF KernelSteps
<1>3. QED BY <1>1, <1>2 DEF Core

LEMMA WaitClientOK ==
  ASSUME ThreadInv, WaitClient
  PROVE  ThreadInv'
<1>1. PICK q \in Queues :
        \/ \E timed \in BOOLEAN : Block(q, timed)
        \/ BlockReturn(q)
        \/ /\ Caller
           /\ \E reschedule \in BOOLEAN :
                \/ WakeOne(q, reschedule, "ok")
                \/ \E err \in {"ok", "destroyed"} : WakeAll(q, reschedule, err)
        \/ /\ at[k.cur] = "device" /\ drain.q = NoQueue
           /\ WakeOne(q, FALSE, "ok") \/ WakeAll(q, FALSE, "ok")
  BY DEF WaitClient
<1>2. "ok" \in Results /\ "destroyed" \in Results
  BY DEF Results
<1>3. CASE \E timed \in BOOLEAN : Block(q, timed)
  BY <1>3, BlockOK
<1>4. CASE BlockReturn(q)
  BY <1>4, BlockReturnOK
<1>5. CASE /\ Caller
           /\ \E reschedule \in BOOLEAN :
                \/ WakeOne(q, reschedule, "ok")
                \/ \E err \in {"ok", "destroyed"} : WakeAll(q, reschedule, err)
  BY <1>2, <1>5, CallerStands, WakeOneOK, WakeAllOK
<1>6. CASE /\ at[k.cur] = "device" /\ drain.q = NoQueue
           /\ WakeOne(q, FALSE, "ok") \/ WakeAll(q, FALSE, "ok")
  BY <1>2, <1>6, WakeOneOK, WakeAllOK DEF InKernelCaller
<1>7. QED BY <1>1, <1>3, <1>4, <1>5, <1>6

LEMMA InitOK ==
  ASSUME ThreadInit
  PROVE  ThreadInv
<1> DEFINE At(p) == \E t \in BootThreads : StartPriority[t] = p
           First(p) == CHOOSE t \in BootThreads : StartPriority[t] = p
           list(p) == IF At(p) THEN <<First(p)>> ELSE <<>>
<1>1. /\ BootThreads \subseteq Threads \ {Idle} /\ Idle \in Threads
      /\ StartPriority \in [Threads -> Priorities] /\ IdlePriority \in Priorities
      /\ \A t, u \in BootThreads : StartPriority[t] = StartPriority[u] => t = u
  BY ThreadAssumption, PriorityAssumption
<1>2. \A p : At(p) => First(p) \in BootThreads /\ StartPriority[First(p)] = p
  OBVIOUS
<1>3. k = [cur |-> Idle,
           state |-> [t \in Threads |-> IF t = Idle THEN "running"
                                       ELSE IF t \in BootThreads THEN "ready" ELSE "none"],
           prio |-> [t \in Threads |-> IF t = Idle THEN IdlePriority ELSE StartPriority[t]],
           quantum |-> [t \in Threads |-> 0],
           runq |-> [p \in Priorities |-> list(p)],
           bitmap |-> {StartPriority[t] : t \in BootThreads}]
  BY DEF ThreadInit
<1> HIDE DEF First
<1>4. \A p \in Priorities : list(p) \in Seq(Threads)
  BY <1>1, <1>2
<1>5. k \in Sched
  <2>1. [t \in Threads |-> IF t = Idle THEN "running"
                          ELSE IF t \in BootThreads THEN "ready" ELSE "none"] \in [Threads -> States]
    BY DEF States
  <2>2. /\ [t \in Threads |-> IF t = Idle THEN IdlePriority ELSE StartPriority[t]]
              \in [Threads -> Priorities]
        /\ [t \in Threads |-> 0] \in [Threads -> 0..Slice]
        /\ {StartPriority[t] : t \in BootThreads} \in SUBSET Priorities
    BY <1>1, ThreadAssumption
  <2>3. [p \in Priorities |-> list(p)] \in [Priorities -> Seq(Threads)]
    BY <1>4
  <2> HIDE DEF list
  <2>4. QED BY <1>1, <1>3, <2>1, <2>2, <2>3 DEF Sched
<1>6. \A p \in Priorities, t \in Threads :
        Listed(t, list(p)) <=> t \in BootThreads /\ StartPriority[t] = p
  <2> TAKE p \in Priorities, t \in Threads
  <2>1. CASE At(p)
    <3>1. Listed(t, <<First(p)>>) <=> t = First(p)
      BY DEF Listed
    <3>2. QED BY <1>1, <1>2, <2>1, <3>1
  <2>2. CASE ~At(p)
    BY <2>2 DEF Listed
  <2>3. QED BY <2>1, <2>2
<1>7. \A p \in Priorities : Once(list(p)) /\ (list(p) # <<>> <=> At(p))
  BY DEF Once
<1>8. RunQueuesMatch
  <2>1. \A p \in Priorities, t \in Threads :
          Listed(t, k.runq[p]) <=> k.state[t] = "ready" /\ k.prio[t] = p
    <3>1. \A p \in Priorities : k.runq[p] = list(p)
      BY <1>3
    <3> HIDE DEF list
    <3>2. \A t \in Threads : /\ k.state[t] = "ready" <=> t \in BootThreads
                             /\ t \in BootThreads => k.prio[t] = StartPriority[t]
      BY <1>1, <1>3
    <3>3. QED BY <1>6, <3>1, <3>2
  <2>2. \A p \in Priorities : Once(k.runq[p])
    BY <1>3, <1>7
  <2>3. k.bitmap = {p \in Priorities : k.runq[p] # <<>>}
    BY <1>1, <1>3, <1>7
  <2>4. QED BY <2>1, <2>2, <2>3 DEF RunQueuesMatch, RunqMatch
<1>9. /\ wq.list = [q \in Queues |-> <<>>] /\ wq.count = [q \in Queues |-> 0]
      /\ wq \in Waits
  BY DEF ThreadInit, Waits, Results
<1>10. \A t \in Threads : k.state[t] \in {"running", "ready", "none"}
  BY <1>3
<1>11. WaitQueuesMatch
  BY <1>9, <1>10 DEF WaitQueuesMatch, WaitMatch, Listed, Once
<1>12. /\ at \in [Threads -> Places] /\ \A t \in Threads : at[t] # "block"
       /\ frame \in [Threads -> [q : Queues \cup {NoQueue}, timed : BOOLEAN]]
       /\ \A t \in Threads : frame[t].q = NoQueue
       /\ timer \in [Threads -> {"off", "sleep", "wait"}]
       /\ \A t \in Threads : timer[t] = "off" /\ target[t] = NoThread
       /\ target \in [Threads -> Threads \cup {NoThread}]
       /\ drain \in [q : Queues \cup {NoQueue}, err : Results] /\ drain.q = NoQueue
  BY DEF ThreadInit, Places, Switched, NoFrame, NoDrain, Results
<1>13. TypeOK
  BY <1>5, <1>9, <1>12 DEF TypeOK, ThreadInit
<1>14. CpuAccounted
  BY <1>1, <1>3, <1>12 DEF CpuAccounted
<1>15. StackTimersDisarmed /\ CallsMatch
  BY <1>10, <1>12, ThreadAssumption DEF StackTimersDisarmed, CallsMatch
<1>16. CallsMasked
  BY <1>1 DEF CallsMasked, ThreadInit
<1>17. QED
  BY <1>8, <1>11, <1>13, <1>14, <1>15, <1>16 DEF ThreadInv

\* As long as a thread is resumed once and by one thread, as every call of
\* thread_resume in the source does, the scheduler keeps its invariant for any
\* number of threads, priorities and wait queues, whatever the order of thread
\* calls, wake-ups, timeouts and interrupts: up to the first kernel call that a
\* thread makes with a count leaked by a late timeout, which ends the model.
THEOREM SchedulerInvariant ==
  ASSUME ExclusiveResume
  PROVE  ThreadSpec => []ThreadInv
<1>1. ThreadInit => ThreadInv
  BY InitOK
<1>2. ThreadInv /\ [ThreadNext]_tvars => ThreadInv'
  <2> SUFFICES ASSUME ThreadInv, [ThreadNext]_tvars
               PROVE  ThreadInv'
    OBVIOUS
  <2>1. CASE Core
    BY <2>1, CoreOK
  <2>2. CASE WaitClient
    BY <2>2, WaitClientOK
  <2>3. CASE UNCHANGED tvars
    BY <2>3, StutterOK
  <2>4. QED BY <2>1, <2>2, <2>3 DEF ThreadNext
<1>3. QED
  BY <1>1, <1>2, PTL DEF ThreadSpec

\* Every variable of the scheduler keeps its type.
THEOREM SchedulerTypes ==
  ASSUME ExclusiveResume
  PROVE  ThreadSpec => []TypeOK
<1>1. ThreadInv => TypeOK
  BY DEF ThreadInv
<1>2. QED
  BY <1>1, SchedulerInvariant, PTL

\* Interrupts are disabled in every kernel call but the one with which the model
\* ends.  So an interrupt, which is taken whenever interrupts are enabled, finds
\* the current thread in its own code, and none cuts the steps of a call.
THEOREM CallsAreMasked ==
  ASSUME ExclusiveResume
  PROVE  ThreadSpec => []CallsMasked
<1>1. ThreadInv => CallsMasked
  BY DEF ThreadInv
<1>2. QED
  BY <1>1, SchedulerInvariant, PTL

\* Until a thread makes a kernel call with a leaked critical section, the run
\* queues hold the ready threads, each once, and the bitmap is exact.
THEOREM RunQueuesExact ==
  ASSUME ExclusiveResume
  PROVE  ThreadSpec => []RunQueuesMatch
<1>1. ThreadInv => RunQueuesMatch
  BY DEF ThreadInv
<1>2. QED
  BY <1>1, SchedulerInvariant, PTL

\* Until a thread makes a kernel call with a leaked critical section, the wait
\* queues hold the blocked threads, each once, and the counts are exact.
THEOREM WaitQueuesExact ==
  ASSUME ExclusiveResume
  PROVE  ThreadSpec => []WaitQueuesMatch
<1>1. ThreadInv => WaitQueuesMatch
  BY DEF ThreadInv
<1>2. QED
  BY <1>1, SchedulerInvariant, PTL

\* No timer outlives the stack frame it is on.
THEOREM StackTimersSafe ==
  ASSUME ExclusiveResume
  PROVE  ThreadSpec => []StackTimersDisarmed
<1>1. ThreadInv => StackTimersDisarmed
  BY DEF ThreadInv
<1>2. QED
  BY <1>1, SchedulerInvariant, PTL

LEMMA TickTops ==
  ASSUME ThreadInv, ThreadNext, at[k.cur] = "tick", at'[k.cur] # "tick"
  PROVE  \A t \in Threads : k'.state[t] = "ready" => k'.prio[t] <= k'.prio[k'.cur]
<1>1. drain.q = NoQueue /\ k.state[k.cur] = "running"
  BY DEF ThreadInv, CpuAccounted
<1>2. TickExit
  <2>1. ~ThreadCalls
    BY DEF ThreadCalls, Create, ResumeCheck, Resume, Yield, Sleep, SetPriority, EnterUnmasked,
           Caller, InThread
  <2>2. ~WaitClient
    BY DEF WaitClient, Block, BlockReturn, Caller, InThread
  <2>3. ~Return /\ ~Drain
    BY <1>1 DEF Return, Switched, Drain
  <2>4. ~(\E source \in {"tick", "device"} : IrqEnter(source)) /\ ~Unmasked
    BY DEF IrqEnter, Unmasked, ThreadInv, CallsMasked
  <2>5. ~(\E t \in Threads : SleepFire(t) \/ TimeoutFire(t))
    BY DEF SleepFire, TimeoutFire
  <2>6. ~(\E reschedule \in BOOLEAN : DeviceExit(reschedule))
    BY DEF DeviceExit
  <2>7. QED BY <2>1, <2>2, <2>3, <2>4, <2>5, <2>6 DEF ThreadNext, Core, KernelSteps
<1>3. PICK new \in Threads : Switch(k', Ticked(k), new)
  BY <1>1, <1>2, TickedOK, PreemptedOK DEF TickExit, TypeOK, RunQueuesMatch, ThreadInv
<1>4. Ticked(k).state = k.state /\ Ticked(k).prio = k.prio /\ Ticked(k).cur = k.cur
  BY TickedOK DEF TypeOK, RunQueuesMatch, ThreadInv
<1>5. \A t \in Threads : k'.state[t] = "ready" => t = k.cur \/ k.state[t] = "ready"
  BY <1>3, <1>4, Types DEF Switch, ThreadInv
<1>6. QED BY <1>3, <1>4, <1>5 DEF Switch

\* The end of a tick always gives the CPU to a thread that none outranks.
THEOREM TicksRunHighest ==
  ASSUME ExclusiveResume
  PROVE  ThreadSpec => TickRunsHighest
<1> DEFINE Tops == (at[k.cur] = "tick" /\ at'[k.cur] # "tick") =>
                     \A t \in Threads : k'.state[t] = "ready" => k'.prio[t] <= k'.prio[k'.cur]
<1>1. ThreadInv /\ [ThreadNext]_tvars => [Tops]_tvars
  BY TickTops
<1>2. QED
  BY <1>1, SchedulerInvariant, PTL DEF ThreadSpec, TickRunsHighest

\* Until a thread makes a kernel call with a leaked critical section, the
\* current thread runs, except in the loop of wait_queue_wake_all, which no
\* switch cuts; and the idle thread is there for thread_resched to find.
THEOREM CpuIsAccounted ==
  ASSUME ExclusiveResume
  PROVE  ThreadSpec => []CpuAccounted
<1>1. ThreadInv => CpuAccounted
  BY DEF ThreadInv
<1>2. QED
  BY <1>1, SchedulerInvariant, PTL

\* A blocked thread is inside wait_queue_block on the queue recorded for it, and
\* no two threads resume the same one.
THEOREM CallsAgree ==
  ASSUME ExclusiveResume
  PROVE  ThreadSpec => []CallsMatch
<1>1. ThreadInv => CallsMatch
  BY DEF ThreadInv
<1>2. QED
  BY <1>1, SchedulerInvariant, PTL

-----------------------------------------------------------------------------
(* A woken thread is left alone until it has run.                          *)

\* In the scheduler state s thread t is ready or has been switched in.
Calm(s, t) ==
  /\ "state" \in DOMAIN s
  /\ DOMAIN s.state = Threads
  /\ s.state[t] \in {"ready", "running"}

LEMMA CalmOperations ==
  ASSUME NEW s, NEW t \in Threads, Calm(s, t)
  PROVE  /\ Calm(Resched(s), t)
         /\ \A u : Calm(InsertHead(s, u), t) /\ Calm(InsertTail(s, u), t)
         /\ \A u : Calm(MadeReady(s, u), t)
         /\ \A u : Calm(SetState(s, u, "ready"), t)
         /\ \A u, x : u # t => Calm(SetState(s, u, x), t)
         /\ \A x : Calm([s EXCEPT !.quantum[s.cur] = x], t)
<1>1. Calm(Resched(s), t)
  BY DEF Calm, Resched
<1>2. ASSUME NEW z, Calm(z, t), NEW u PROVE Calm(InsertHead(z, u), t) /\ Calm(InsertTail(z, u), t)
  BY <1>2 DEF Calm, InsertHead, InsertTail
<1>3. \A u : Calm(SetState(s, u, "ready"), t)
  BY DEF Calm, SetState
<1>4. \A u, x : u # t => Calm(SetState(s, u, x), t)
  BY DEF Calm, SetState
<1>5. \A x : Calm([s EXCEPT !.quantum[s.cur] = x], t)
  BY DEF Calm
<1>6. \A u : Calm(MadeReady(s, u), t)
  BY <1>2, <1>3 DEF MadeReady
<1> QED
  BY <1>1, <1>2, <1>3, <1>4, <1>5, <1>6

LEMMA CalmSwitches ==
  ASSUME NEW s, NEW t \in Threads, Calm(s, t)
  PROVE  Calm(Yielded(s), t) /\ Calm(Preempted(s), t) /\ Calm(Ticked(s), t)
<1> DEFINE r == SetState(s, s.cur, "ready")
<1>1. Calm(r, t)
  BY CalmOperations
<1>2. Calm(Yielded(s), t)
  <2> DEFINE z == [r EXCEPT !.quantum[s.cur] = 0]
  <2>1. Calm(z, t)
    BY <1>1 DEF Calm
  <2> HIDE DEF z
  <2>2. Calm(Resched(InsertTail(z, s.cur)), t)
    BY <2>1, CalmOperations
  <2> QED
    BY <2>2 DEF Yielded, z
<1>3. Calm(Preempted(s), t)
  <2> HIDE DEF r
  <2>1. Calm(Resched(InsertHead(r, s.cur)), t) /\ Calm(Resched(InsertTail(r, s.cur)), t)
    BY <1>1, CalmOperations
  <2> QED
    BY <2>1 DEF Preempted, r
<1>4. Calm(Ticked(s), t)
  BY CalmOperations DEF Ticked
<1> QED
  BY <1>2, <1>3, <1>4

\* What any step does to a thread that has been woken and has not run.
LEMMA WokenIsLeftAlone ==
  ASSUME ThreadInv, ThreadNext, NEW t \in Threads, at[t] = "block", k.state[t] = "ready"
  PROVE  wq'.ret[t] = wq.ret[t] /\ Calm(k', t)
<1>1. Calm(k, t)
  BY DEF Calm, ThreadInv, TypeOK, Sched
<1>2. Caller => k.cur # t
  BY DEF Caller, InThread
<1>3. wq \in Waits /\ DOMAIN wq.ret = Threads
  BY DEF ThreadInv, TypeOK, Waits
<1>4. ASSUME NEW q \in Queues, wq.list[q] # <<>> PROVE Head(wq.list[q]) # t
  BY <1>4, HeadBlocked
<1>5. ASSUME NEW q \in Queues, wq.list[q] # <<>>, NEW err PROVE PopWaiter(wq, q, err).ret[t] = wq.ret[t]
  <2>1. Head(wq.list[q]) # t
    BY <1>4, <1>5
  <2> QED
    BY <1>3, <2>1 DEF PopWaiter, Waits
<1>6. CASE ThreadCalls
  <2>1. ASSUME NEW u \in Threads, Create(u) PROVE wq'.ret[t] = wq.ret[t] /\ Calm(k', t)
    BY <1>1, <1>3, <2>1 DEF Create, Calm, Waits
  <2>2. ASSUME NEW u \in Threads, ResumeCheck(u) PROVE wq'.ret[t] = wq.ret[t] /\ Calm(k', t)
    BY <1>1, <2>2 DEF ResumeCheck
  <2>3. CASE Resume
    BY <1>1, <2>3, CalmOperations, CalmSwitches DEF Resume
  <2>4. CASE Yield \/ EnterUnmasked
    BY <1>1, <2>4, CalmSwitches DEF Yield, EnterUnmasked
  <2>5. CASE Sleep
    BY <1>1, <1>2, <2>5, CalmOperations DEF Sleep
  <2>6. ASSUME NEW p, SetPriority(p) PROVE wq'.ret[t] = wq.ret[t] /\ Calm(k', t)
    BY <1>1, <2>6 DEF SetPriority, Calm
  <2> QED
    BY <1>6, <2>1, <2>2, <2>3, <2>4, <2>5, <2>6 DEF ThreadCalls
<1>7. CASE KernelSteps
  <2>1. CASE Return \/ Unmasked \/ \E source \in {"tick", "device"} : IrqEnter(source)
    BY <1>1, <2>1 DEF Return, IrqEnter, Unmasked, tvars
  <2>2. CASE Drain
    <3>1. drain.q \in Queues /\ wq.list[drain.q] # <<>>
      BY <2>2 DEF Drain, ThreadInv, TypeOK
    <3>2. wq'.ret[t] = wq.ret[t]
      BY <1>5, <2>2, <3>1 DEF Drain
    <3>3. Calm(k', t)
      BY <1>1, <2>2, CalmOperations DEF Drain
    <3> QED
      BY <3>2, <3>3
  <2>3. CASE TickExit
    BY <1>1, <2>3, CalmSwitches DEF TickExit
  <2>4. ASSUME NEW u \in Threads, SleepFire(u) PROVE wq'.ret[t] = wq.ret[t] /\ Calm(k', t)
    BY <1>1, <2>4, CalmOperations DEF SleepFire
  <2>5. ASSUME NEW u \in Threads, TimeoutFire(u) PROVE wq'.ret[t] = wq.ret[t] /\ Calm(k', t)
    <3>1. CASE k.state[u] = "blocked"
      <4>1. wq'.ret[t] = wq.ret[t]
        BY <1>3, <2>5, <3>1, ZenonT(40) DEF TimeoutFire, UnlinkWaiter, Waits
      <4>2. Calm(k', t)
        BY <1>1, <2>5, <3>1, CalmOperations DEF TimeoutFire
      <4> QED
        BY <4>1, <4>2
    <3>2. CASE k.state[u] # "blocked"
      BY <1>1, <2>5, <3>2 DEF TimeoutFire
    <3> QED
      BY <3>1, <3>2
  <2>6. ASSUME NEW reschedule \in BOOLEAN, DeviceExit(reschedule)
        PROVE  wq'.ret[t] = wq.ret[t] /\ Calm(k', t)
    BY <1>1, <2>6, CalmSwitches DEF DeviceExit
  <2> QED
    BY <1>7, <2>1, <2>2, <2>3, <2>4, <2>5, <2>6 DEF KernelSteps
<1>8. CASE WaitClient
  <2>1. ASSUME NEW q \in Queues, NEW timed, Block(q, timed)
        PROVE  wq'.ret[t] = wq.ret[t] /\ Calm(k', t)
    <3>1. wq'.ret[t] = wq.ret[t]
      BY <1>2, <1>3, <2>1 DEF Block, PushWaiter, Waits
    <3>2. Calm(k', t)
      BY <1>1, <1>2, <2>1, CalmOperations DEF Block
    <3> QED
      BY <3>1, <3>2
  <2>2. ASSUME NEW q \in Queues, BlockReturn(q) PROVE wq'.ret[t] = wq.ret[t] /\ Calm(k', t)
    BY <1>1, <2>2 DEF BlockReturn
  <2>3. ASSUME NEW q \in Queues, NEW r, NEW err, WakeOne(q, r, err)
        PROVE  wq'.ret[t] = wq.ret[t] /\ Calm(k', t)
    <3>1. wq'.ret[t] = wq.ret[t]
      BY <1>5, <2>3 DEF WakeOne
    <3>2. Calm(k', t)
      BY <1>1, <2>3, CalmOperations DEF WakeOne
    <3> QED
      BY <3>1, <3>2
  <2>4. ASSUME NEW q \in Queues, NEW r, NEW err, WakeAll(q, r, err)
        PROVE  wq'.ret[t] = wq.ret[t] /\ Calm(k', t)
    BY <1>1, <2>4, CalmOperations DEF WakeAll
  <2> QED
    BY <1>8, <2>1, <2>2, <2>3, <2>4 DEF WaitClient
<1> QED
  BY <1>6, <1>7, <1>8 DEF ThreadNext, Core

\* The result of a wait is that of what woke it: nothing touches a thread
\* between its wake-up and its next step, the timeout that fires in between
\* included.  What that timeout leaks is another matter: this is said up to the
\* next kernel call of the thread it leaks into, EnterUnmasked.
THEOREM WakeupsStand ==
  ASSUME ExclusiveResume
  PROVE  ThreadSpec => WokenOnce
<1> DEFINE Stands == \A t \in Threads :
                       (at[t] = "block" /\ k.state[t] = "ready") =>
                         /\ wq'.ret[t] = wq.ret[t]
                         /\ k'.state[t] \in {"ready", "running"}
<1>1. ThreadInv /\ [ThreadNext]_tvars => [Stands]_tvars
  BY WokenIsLeftAlone DEF Calm
<1>2. QED
  BY <1>1, SchedulerInvariant, PTL DEF ThreadSpec, WokenOnce
-----------------------------------------------------------------------------
(* Who is alive.  The scheduler kills nobody, and only thread_create gives  *)
(* life.                                                                    *)

\* On the way from s to r nobody dies and nobody comes to life.
Lives(s, r) ==
  \A t \in Threads : /\ s.state[t] = "death" <=> r.state[t] = "death"
                     /\ s.state[t] = "none" <=> r.state[t] = "none"

LEMMA SwitchLives ==
  ASSUME NEW s \in Sched, s.state[s.cur] \notin {"none", "death"}, NEW r, NEW new \in Threads,
         Switch(r, s, new)
  PROVE  Lives(s, r)
<1>1. s.cur \in Threads /\ s.state \in [Threads -> States]
  BY DEF Sched
<1>2. \A t \in Threads : r.state[t] = IF t = new THEN "running"
                                     ELSE IF t = s.cur THEN "ready" ELSE s.state[t]
  BY <1>1 DEF Switch
<1>3. s.state[new] \notin {"none", "death"}
  BY DEF Switch
<1> QED
  BY <1>2, <1>3 DEF Lives

LEMMA MadeReadyLives ==
  ASSUME NEW s \in Sched, RunqMatch(s), NEW t \in Threads,
         s.state[t] \notin {"none", "death", "ready"}
  PROVE  Lives(s, MadeReady(s, t))
<1>1. MadeReady(s, t).state = [s.state EXCEPT ![t] = "ready"] /\ s.state \in [Threads -> States]
  BY MadeReadyOK DEF Sched
<1>2. \A u \in Threads : MadeReady(s, t).state[u] = IF u = t THEN "ready" ELSE s.state[u]
  BY <1>1
<1> QED
  BY <1>2 DEF Lives

LEMMA ReschedLives ==
  ASSUME NEW s \in Sched, RunqMatch(s), s.bitmap # {}
  PROVE  Lives(s, Resched(s))
<1>1. PICK new \in Threads :
        s.state[new] = "ready" /\ Resched(s).state = [s.state EXCEPT ![new] = "running"]
  BY ReschedOK
<1>2. \A u \in Threads : Resched(s).state[u] = IF u = new THEN "running" ELSE s.state[u]
  BY <1>1 DEF Sched
<1> QED
  BY <1>1, <1>2 DEF Lives

LEMMA LivesChain ==
  ASSUME NEW s, NEW m, NEW r, Lives(s, m), Lives(m, r)
  PROVE  Lives(s, r)
BY DEF Lives

\* What the scheduler's own steps do to life and death, and to the recorded queues.
LEMMA CoreLives ==
  ASSUME ThreadInv, Core
  PROVE  /\ Lives(k, k') \/ \E t \in Threads : Create(t)
         /\ \A t \in Threads : wq'.blockq[t] \in {wq.blockq[t], NoQueue}
<1> DEFINE Kept == \A t \in Threads : wq'.blockq[t] \in {wq.blockq[t], NoQueue}
<1>1. /\ k \in Sched /\ RunqMatch(k) /\ k.cur \in Threads /\ wq \in Waits
      /\ k.state \in [Threads -> States] /\ wq.blockq \in [Threads -> Queues \cup {NoQueue}]
  BY Types DEF ThreadInv, TypeOK, RunQueuesMatch
<1>2. InThread \/ Caller \/ at[k.cur] = "tick" => k.state[k.cur] = "running" /\ drain.q = NoQueue
  BY DEF InThread, Caller, ThreadInv, CpuAccounted
<1>3. wq' = wq => Kept
  OBVIOUS
<1>4. k' = k => Lives(k, k')
  BY DEF Lives
<1>5. ASSUME NEW t \in Threads, Create(t) PROVE Kept
  <2>1. wq'.blockq = [wq.blockq EXCEPT ![t] = NoQueue]
    BY <1>1, <1>5 DEF Create, Waits
  <2> QED
    BY <1>1, <2>1
<1>6. ASSUME NEW t \in Threads, ResumeCheck(t) PROVE Lives(k, k') /\ Kept
  BY <1>3, <1>4, <1>6 DEF ResumeCheck
<1>7. CASE Resume
  <2> DEFINE u == target[k.cur]
             m == MadeReady(k, u)
  <2>1. u \in Threads /\ k.state[u] = "suspended" /\ k.state[k.cur] = "running"
    BY <1>1, <1>2, <1>7, Types DEF Resume, ThreadInv, CallsMatch
  <2> HIDE DEF u
  <2>2. /\ m \in Sched /\ RunqMatch(m) /\ m.cur = k.cur /\ Lives(k, m)
        /\ m.state = [k.state EXCEPT ![u] = "ready"]
    BY <1>1, <2>1, MadeReadyOK, MadeReadyLives
  <2>3. m.state[m.cur] = "running"
    BY <1>1, <2>1, <2>2
  <2>4. k' = Yielded(m)
    BY <1>7 DEF Resume, u
  <2> HIDE DEF m
  <2>5. Lives(m, k')
    BY <2>2, <2>3, <2>4, YieldedOK, SwitchLives
  <2> QED
    BY <1>3, <1>7, <2>2, <2>5, LivesChain DEF Resume
<1>8. CASE Yield
  <2>1. Lives(k, k')
    BY <1>1, <1>2, <1>8, YieldedOK, SwitchLives DEF Yield
  <2> QED
    BY <1>3, <1>8, <2>1 DEF Yield
<1>9. CASE Sleep
  <2>1. k.state[k.cur] = "running" /\ drain.q = NoQueue /\ k.cur # Idle
    BY <1>2, <1>9 DEF Sleep, Caller, InThread
  <2>2. PICK new \in Threads :
          /\ k.state[new] = "ready"
          /\ \A t \in Threads : k'.state[t] = IF t = new THEN "running"
                                             ELSE IF t = k.cur THEN "sleeping" ELSE k.state[t]
    BY <1>9, <2>1, LeavesCpu DEF Sleep
  <2>3. Lives(k, k')
    BY <2>1, <2>2 DEF Lives
  <2> QED
    BY <1>3, <1>9, <2>3 DEF Sleep
<1>10. ASSUME NEW p, SetPriority(p) PROVE Lives(k, k') /\ Kept
  <2>1. k'.state = k.state
    BY <1>1, <1>10 DEF SetPriority, Sched
  <2> QED
    BY <1>3, <1>10, <2>1 DEF SetPriority, Lives
<1>11. CASE \/ Return \/ Unmasked \/ EnterUnmasked
            \/ \E source \in {"tick", "device"} : IrqEnter(source)
  BY <1>3, <1>4, <1>11 DEF Return, IrqEnter, Unmasked, EnterUnmasked, tvars
<1>12. CASE Drain
  <2> DEFINE q == drain.q
             h == Head(wq.list[q])
             m == MadeReady(k, h)
  <2>1. q \in Queues /\ wq.list[q] # <<>>
    BY <1>12, Types DEF Drain, ThreadInv
  <2>2. h \in Threads /\ k.state[h] = "blocked"
    BY <2>1, HeadBlocked
  <2>3. wq' = PopWaiter(wq, q, drain.err)
    BY <1>12 DEF Drain
  <2>4. Kept
    BY <1>1, <2>2, <2>3 DEF PopWaiter, Waits
  <2>5. k' = Resched(m) \/ k' = m
    BY <1>12 DEF Drain
  <2> HIDE DEF h
  <2>6. m \in Sched /\ RunqMatch(m) /\ m.bitmap # {} /\ Lives(k, m)
    BY <1>1, <2>2, MadeReadyOK, MadeReadyLives
  <2> HIDE DEF m
  <2>7. Lives(k, k')
    BY <2>5, <2>6, ReschedLives, LivesChain
  <2> QED
    BY <2>4, <2>7
<1>13. CASE TickExit
  <2> DEFINE s == Ticked(k)
  <2>1. s \in Sched /\ RunqMatch(s) /\ s.cur = k.cur /\ s.state = k.state
    BY <1>1, TickedOK
  <2>2. k' = Preempted(s) /\ s.state[s.cur] = "running"
    <3>1. at[k.cur] = "tick" /\ k' = Preempted(s)
      BY <1>13 DEF TickExit
    <3> HIDE DEF s
    <3> QED
      BY <1>2, <2>1, <3>1
  <2> HIDE DEF s
  <2>3. Lives(s, k')
    BY <2>1, <2>2, PreemptedOK, SwitchLives
  <2> QED
    BY <1>3, <1>13, <2>1, <2>3 DEF TickExit, Lives
<1>14. ASSUME NEW t \in Threads, SleepFire(t) PROVE Lives(k, k') /\ Kept
  <2>1. k.state[t] = "sleeping"
    BY <1>14 DEF SleepFire, ThreadInv, StackTimersDisarmed
  <2> QED
    BY <1>1, <1>3, <1>14, <2>1, MadeReadyLives DEF SleepFire
<1>15. ASSUME NEW t \in Threads, TimeoutFire(t) PROVE Lives(k, k') /\ Kept
  <2>1. CASE k.state[t] = "blocked"
    <3>1. Lives(k, k')
      BY <1>1, <1>15, <2>1, MadeReadyLives DEF TimeoutFire
    <3>2. Kept
      <4> DEFINE x == k.state
      <4>1. WaitMatch(x, wq) /\ x[t] = "blocked" /\ wq.blockq[t] \in Queues /\ "timeout" \in Results
        BY <1>1, <2>1 DEF ThreadInv, WaitQueuesMatch, CallsMatch, Results
      <4>2. wq' = UnlinkWaiter(wq, t, "timeout")
        BY <1>15, <2>1 DEF TimeoutFire
      <4> HIDE DEF x
      <4>3. Removed(wq', wq, wq.blockq[t], t, "timeout")
        BY <1>1, <4>1, <4>2, UnlinkOK
      <4> QED
        BY <1>1, <4>3 DEF Removed
    <3> QED
      BY <3>1, <3>2
  <2>2. CASE k.state[t] # "blocked"
    BY <1>3, <1>4, <1>15, <2>2 DEF TimeoutFire
  <2> QED
    BY <2>1, <2>2
<1>16. ASSUME NEW reschedule \in BOOLEAN, DeviceExit(reschedule) PROVE Lives(k, k') /\ Kept
  <2>1. k.state[k.cur] = "running"
    BY <1>16 DEF DeviceExit, ThreadInv, CpuAccounted
  <2>2. CASE reschedule
    <3>1. k' = Preempted(k)
      BY <1>16, <2>2 DEF DeviceExit
    <3>2. Lives(k, k')
      BY <1>1, <2>1, <3>1, PreemptedOK, SwitchLives
    <3> QED
      BY <1>3, <1>16, <3>2 DEF DeviceExit
  <2>3. CASE ~reschedule
    BY <1>3, <1>4, <1>16, <2>3 DEF DeviceExit
  <2> QED
    BY <2>2, <2>3
<1>17. CASE ThreadCalls
  BY <1>5, <1>6, <1>7, <1>8, <1>9, <1>10, <1>11, <1>17 DEF ThreadCalls
<1>18. CASE KernelSteps
  BY <1>11, <1>12, <1>13, <1>14, <1>15, <1>16, <1>18 DEF KernelSteps
<1> QED
  BY <1>17, <1>18 DEF Core

LEMMA ClientLives ==
  ASSUME ThreadInv, WaitClient
  PROVE  Lives(k, k')
<1>1. k \in Sched /\ RunqMatch(k) /\ k.cur \in Threads /\ k.state \in [Threads -> States]
  BY Types DEF ThreadInv, TypeOK, RunQueuesMatch
<1>2. Caller => k.state[k.cur] = "running" /\ drain.q = NoQueue /\ k.cur # Idle
  BY DEF InThread, Caller, ThreadInv, CpuAccounted
<1>3. ASSUME NEW q \in Queues, NEW timed \in BOOLEAN, Block(q, timed) PROVE Lives(k, k')
  <2>1. PICK new \in Threads :
          /\ k.state[new] = "ready"
          /\ \A t \in Threads : k'.state[t] = IF t = new THEN "running"
                                             ELSE IF t = k.cur THEN "blocked" ELSE k.state[t]
    BY <1>2, <1>3, LeavesCpu DEF Block
  <2> QED
    BY <1>2, <1>3, <2>1 DEF Lives, Block
<1>4. ASSUME NEW q \in Queues, BlockReturn(q) PROVE Lives(k, k')
  BY <1>4 DEF BlockReturn, Lives
<1>5. ASSUME NEW q \in Queues, NEW reschedule \in BOOLEAN, NEW err,
             WakeOne(q, reschedule, err), k.state[k.cur] = "running"
      PROVE  Lives(k, k')
  <2> DEFINE h == Head(wq.list[q])
             m == MadeReady(k, k.cur)
  <2>1. h \in Threads /\ k.state[h] = "blocked"
    BY <1>5, HeadBlocked DEF WakeOne
  <2>2. k' = Resched(MadeReady(m, h)) \/ k' = MadeReady(k, h)
    BY <1>5 DEF WakeOne
  <2> HIDE DEF h
  <2>3. /\ m \in Sched /\ RunqMatch(m) /\ Lives(k, m)
        /\ m.state = [k.state EXCEPT ![k.cur] = "ready"]
    BY <1>1, <1>5, MadeReadyOK, MadeReadyLives
  <2>4. m.state[h] = "blocked"
    BY <1>1, <1>5, <2>1, <2>3
  <2> HIDE DEF m
  <2>5. /\ MadeReady(m, h) \in Sched /\ RunqMatch(MadeReady(m, h))
        /\ MadeReady(m, h).bitmap # {} /\ Lives(m, MadeReady(m, h))
    BY <2>1, <2>3, <2>4, MadeReadyOK, MadeReadyLives
  <2>6. Lives(k, Resched(MadeReady(m, h)))
    BY <2>3, <2>5, ReschedLives, LivesChain
  <2>7. Lives(k, MadeReady(k, h))
    BY <1>1, <2>1, MadeReadyLives
  <2> QED
    BY <2>2, <2>6, <2>7
<1>6. ASSUME NEW q \in Queues, NEW reschedule \in BOOLEAN, NEW err,
             WakeAll(q, reschedule, err), k.state[k.cur] = "running"
      PROVE  Lives(k, k')
  <2>1. k' = MadeReady(k, k.cur) \/ k' = k
    BY <1>6 DEF WakeAll
  <2>2. Lives(k, MadeReady(k, k.cur))
    BY <1>1, <1>6, MadeReadyLives
  <2> QED
    BY <2>1, <2>2 DEF Lives
<1>7. at[k.cur] = "device" /\ drain.q = NoQueue => k.state[k.cur] = "running"
  BY DEF ThreadInv, CpuAccounted
<1> QED
  BY <1>2, <1>3, <1>4, <1>5, <1>6, <1>7 DEF WaitClient

-----------------------------------------------------------------------------
(* Critical sections.                                                      *)

\* Where only a thread that has the CPU can stand.
Own == {"user", "waking", "tick", "device"}

\* Every count is that of the calls in progress, and a thread that does not
\* have the CPU is inside one of them, unless it does not live.
Sections ==
  /\ \A t \in Threads : cs[t] = Nest(at[t])
  /\ \A t \in Threads : at[t] \in Own => t = k.cur \/ k.state[t] \in {"none", "death"}
  /\ ints <=> at[k.cur] = "user"

\* No thread that did not live, or that stands in its own code, gets the CPU.
LEMMA SwitchedIn ==
  ASSUME ThreadInv, ThreadInv', Sections, Lives(k, k'), k'.cur # k.cur
  PROVE  at[k'.cur] \notin Own \/ at'[k'.cur] # "user"
<1>1. k'.cur \in Threads /\ k.cur \in Threads /\ k.state \in [Threads -> States]
  BY Types DEF ThreadInv, TypeOK, Sched
<1>2. at'[k'.cur] = "user" => k'.state[k'.cur] = "running"
  BY DEF ThreadInv, CpuAccounted
<1> QED
  BY <1>1, <1>2 DEF Sections, Lives

\* A call is entered.
LEMMA EnterSections ==
  ASSUME ThreadInv, ThreadInv', Sections, Lives(k, k'), at[k.cur] = "user",
         NEW place \in Places \ {"user"}, EnterKernel(place),
         place \in Own => k'.cur = k.cur
  PROVE  Sections'
<1>1. /\ k.cur \in Threads /\ k'.cur \in Threads
      /\ cs \in [Threads -> Int] /\ at \in [Threads -> Places]
      /\ k.state \in [Threads -> States] /\ k'.state \in [Threads -> States]
  BY Types DEF ThreadInv, TypeOK, Sched
<1>2. /\ at' = [at EXCEPT ![k.cur] = place]
      /\ cs' = [cs EXCEPT ![k.cur] = @ + Nest(place)]
      /\ cs[k.cur] = 0
  BY <1>1 DEF EnterKernel, Sections, Nest
<1>3. ints' = FALSE
  BY <1>2 DEF EnterKernel
<1>4. \A t \in Threads : cs'[t] = Nest(at'[t])
  BY <1>1, <1>2, NestType DEF Sections
<1>5. \A t \in Threads : at'[t] \in Own => t = k'.cur \/ k'.state[t] \in {"none", "death"}
  BY <1>1, <1>2 DEF Sections, Lives
<1>6. at'[k'.cur] # "user"
  BY <1>1, <1>2, SwitchedIn DEF Own
<1> QED
  BY <1>3, <1>4, <1>5, <1>6 DEF Sections

\* A call, or an interrupt, is left.
LEMMA LeaveSections ==
  ASSUME ThreadInv, Sections, k' = k, LeaveKernel
  PROVE  Sections'
<1>1. k.cur \in Threads /\ cs \in [Threads -> Int] /\ at \in [Threads -> Places]
  BY Types DEF ThreadInv
<1>2. /\ at' = [at EXCEPT ![k.cur] = "user"]
      /\ cs' = [cs EXCEPT ![k.cur] = 0]
      /\ cs[k.cur] - Nest(at[k.cur]) = 0
  <2>1. cs[k.cur] = Nest(at[k.cur]) /\ Nest(at[k.cur]) \in Int
    BY <1>1, NestType DEF Sections
  <2>2. cs[k.cur] - Nest(at[k.cur]) = 0
    BY <2>1
  <2> QED
    BY <2>2 DEF LeaveKernel
<1>3. ints' = TRUE
  BY <1>2 DEF LeaveKernel
<1>4. \A t \in Threads : cs'[t] = Nest(at'[t])
  BY <1>1, <1>2 DEF Sections, Nest
<1>5. \A t \in Threads : at'[t] \in Own => t = k'.cur \/ k'.state[t] \in {"none", "death"}
  BY <1>1, <1>2 DEF Sections
<1>6. at'[k'.cur] = "user"
  BY <1>1, <1>2
<1> QED
  BY <1>3, <1>4, <1>5, <1>6 DEF Sections

\* No call is entered or left; a thread in its own code keeps the CPU.
LEMMA SameSections ==
  ASSUME ThreadInv, ThreadInv', Sections, Lives(k, k'), UNCHANGED <<cs, ints, at>>,
         k'.cur = k.cur \/ at[k.cur] \notin Own
  PROVE  Sections'
<1>1. k.cur \in Threads /\ k'.cur \in Threads
  BY Types DEF ThreadInv, TypeOK, Sched
<1>2. \A t \in Threads : cs'[t] = Nest(at'[t])
  BY DEF Sections
<1>3. \A t \in Threads : at'[t] \in Own => t = k'.cur \/ k'.state[t] \in {"none", "death"}
  BY <1>1 DEF Sections, Lives
<1>4. ints' <=> at'[k'.cur] = "user"
  <2>1. CASE k'.cur = k.cur
    BY <2>1 DEF Sections
  <2>2. CASE k'.cur # k.cur
    BY <2>2, SwitchedIn DEF Sections, Own
  <2> QED
    BY <2>1, <2>2
<1> QED
  BY <1>2, <1>3, <1>4 DEF Sections

\* The end of an interrupt that reschedules.
LEMMA PreemptSections ==
  ASSUME ThreadInv, ThreadInv', Sections, Lives(k, k'), at[k.cur] \in {"tick", "device"},
         at' = [at EXCEPT ![k.cur] = "preempt"], cs' = [cs EXCEPT ![k.cur] = @ + 1],
         UNCHANGED ints
  PROVE  Sections'
<1>1. /\ k.cur \in Threads /\ k'.cur \in Threads
      /\ cs \in [Threads -> Int] /\ at \in [Threads -> Places]
  BY Types DEF ThreadInv, TypeOK, Sched
<1>2. cs[k.cur] = 1 /\ Nest("preempt") = 2 /\ ints = FALSE
  BY <1>1 DEF Sections, Nest, ThreadInv, TypeOK
<1>3. \A t \in Threads : cs'[t] = Nest(at'[t])
  BY <1>1, <1>2 DEF Sections
<1>4. \A t \in Threads : at'[t] \in Own => t = k'.cur \/ k'.state[t] \in {"none", "death"}
  BY <1>1 DEF Sections, Lives, Own
<1>5. at'[k'.cur] # "user"
  BY <1>1, SwitchedIn DEF Own
<1> QED
  BY <1>2, <1>3, <1>4, <1>5 DEF Sections

LEMMA CoreSections ==
  ASSUME ThreadInv, ThreadInv', Sections, Core,
         \A t \in Threads : TimeoutFire(t) => k.state[t] = "blocked"
  PROVE  Sections'
<1>1. /\ k.cur \in Threads /\ cs \in [Threads -> Int] /\ at \in [Threads -> Places]
      /\ k.state \in [Threads -> States]
  BY Types DEF ThreadInv
<1>2. ASSUME NEW t \in Threads, Create(t) PROVE Sections'
  <2>1. /\ k.state[t] = "none" /\ t # k.cur /\ k'.cur = k.cur /\ UNCHANGED ints
        /\ k'.state = [k.state EXCEPT ![t] = "suspended"]
        /\ cs' = [cs EXCEPT ![t] = 1] /\ at' = [at EXCEPT ![t] = "fresh"]
    BY <1>2 DEF Create, Caller, InThread, ThreadInv, TypeOK, Sched, CpuAccounted
  <2>2. \A u \in Threads : cs'[u] = Nest(at'[u])
    BY <1>1, <2>1 DEF Sections, Nest
  <2>3. \A u \in Threads : at'[u] \in Own => u = k'.cur \/ k'.state[u] \in {"none", "death"}
    BY <1>1, <2>1 DEF Sections, Own
  <2>4. ints' <=> at'[k'.cur] = "user"
    BY <1>1, <2>1 DEF Sections
  <2> QED
    BY <2>2, <2>3, <2>4 DEF Sections
<1>3. CASE \A t \in Threads : ~Create(t)
  <2>1. Lives(k, k')
    BY <1>3, CoreLives
  <2>2. CASE Resume \/ Yield \/ Sleep
    <3>1. PICK place \in {"resume", "yield", "sleep"} : EnterKernel(place) /\ at[k.cur] = "user"
      BY <2>2 DEF Resume, Yield, Sleep, Caller, InThread
    <3>2. place \in Places \ {"user"} /\ place \notin Own
      BY DEF Places, Switched, Own
    <3> QED
      BY <2>1, <3>1, <3>2, EnterSections
  <2>3. CASE Return
    BY <2>3, LeaveSections DEF Return
  <2>4. ASSUME NEW source \in {"tick", "device"}, IrqEnter(source) PROVE Sections'
    <3>1. /\ at[k.cur] = "user" /\ k' = k /\ ints' = FALSE
          /\ at' = [at EXCEPT ![k.cur] = source] /\ cs' = [cs EXCEPT ![k.cur] = @ + 1]
      BY <2>4 DEF IrqEnter, Sections
    <3>2. cs[k.cur] = 0 /\ Nest(source) = 1
      BY <1>1, <3>1 DEF Sections, Nest
    <3>3. \A u \in Threads : cs'[u] = Nest(at'[u])
      BY <1>1, <3>1, <3>2 DEF Sections
    <3>4. \A u \in Threads : at'[u] \in Own => u = k'.cur \/ k'.state[u] \in {"none", "death"}
      BY <1>1, <3>1 DEF Sections
    <3>5. at'[k'.cur] # "user"
      BY <1>1, <3>1
    <3> QED
      BY <3>1, <3>3, <3>4, <3>5 DEF Sections
  <2>5. CASE TickExit
    BY <2>1, <2>5, PreemptSections DEF TickExit
  <2>6. ASSUME NEW reschedule \in BOOLEAN, DeviceExit(reschedule) PROVE Sections'
    <3>1. CASE reschedule
      BY <2>1, <2>6, <3>1, PreemptSections DEF DeviceExit
    <3>2. CASE ~reschedule
      BY <2>6, <3>2, LeaveSections DEF DeviceExit
    <3> QED
      BY <3>1, <3>2
  <2>7. CASE Drain
    <3>1. k'.cur = k.cur \/ at[k.cur] \in {"wake", "exit"}
      BY <2>7, MadeReadyCur DEF Drain, ThreadInv, TypeOK
    <3>2. at[k.cur] \in {"wake", "exit"} => at[k.cur] \notin Own
      BY DEF Own
    <3> QED
      BY <2>1, <2>7, <3>1, <3>2, SameSections DEF Drain
  <2>8. ASSUME NEW t \in Threads, SleepFire(t) PROVE Sections'
    <3>1. k'.cur = k.cur
      BY <2>8, MadeReadyCur DEF SleepFire, ThreadInv, TypeOK
    <3> QED
      BY <2>1, <2>8, <3>1, SameSections DEF SleepFire
  <2>9. ASSUME NEW t \in Threads, TimeoutFire(t) PROVE Sections'
    <3>1. k.state[t] = "blocked"
      BY <2>9
    <3>2. k'.cur = k.cur
      BY <2>9, <3>1, MadeReadyCur DEF TimeoutFire, ThreadInv, TypeOK
    <3> QED
      BY <2>1, <2>9, <3>1, <3>2, SameSections DEF TimeoutFire
  <2>10. ASSUME NEW p, SetPriority(p) PROVE Sections'
    <3>1. k'.cur = k.cur
      BY <2>10 DEF SetPriority, ThreadInv, TypeOK, Sched
    <3> QED
      BY <2>1, <2>10, <3>1, SameSections DEF SetPriority
  <2>11. ASSUME NEW t \in Threads, ResumeCheck(t) PROVE Sections'
    BY <2>1, <2>11, SameSections DEF ResumeCheck
  <2>12. ~EnterUnmasked
    <3>1. at[k.cur] = "user" => cs[k.cur] = 0
      BY <1>1 DEF Sections, Nest
    <3> QED
      BY <3>1 DEF EnterUnmasked, InThread
  <2>13. CASE Unmasked
    BY <2>1, <2>13, SameSections DEF Unmasked, tvars
  <2> QED
    BY <1>3, <2>2, <2>3, <2>4, <2>5, <2>6, <2>7, <2>8, <2>9, <2>10, <2>11, <2>12, <2>13
    DEF Core, ThreadCalls, KernelSteps
<1> QED
  BY <1>2, <1>3

LEMMA ClientSections ==
  ASSUME ThreadInv, ThreadInv', Sections, WaitClient
  PROVE  Sections'
<1>1. Lives(k, k')
  BY ClientLives
<1>2. /\ {"block", "wake", "waking"} \subseteq Places \ {"user"}
      /\ "block" \notin Own /\ "wake" \notin Own
  BY DEF Places, Switched, Own
<1>3. Caller => at[k.cur] = "user"
  BY DEF Caller, InThread
<1>4. ASSUME NEW q \in Queues, NEW timed \in BOOLEAN, Block(q, timed) PROVE Sections'
  BY <1>1, <1>2, <1>3, <1>4, EnterSections DEF Block
<1>5. ASSUME NEW q \in Queues, BlockReturn(q) PROVE Sections'
  BY <1>5, LeaveSections DEF BlockReturn
<1>6. ASSUME NEW q \in Queues, NEW reschedule \in BOOLEAN, NEW err,
             WakeOne(q, reschedule, err) \/ WakeAll(q, reschedule, err),
             at[k.cur] = "user" \/ (at[k.cur] = "device" /\ ~reschedule)
      PROVE  Sections'
  <2>1. CASE reschedule
    <3>1. EnterKernel("wake") /\ at[k.cur] = "user"
      BY <1>6, <2>1 DEF WakeOne, WakeAll
    <3> QED
      BY <1>1, <1>2, <3>1, EnterSections
  <2>2. CASE ~reschedule
    <3>1. k'.cur = k.cur
      BY <1>6, <2>2, MadeReadyCur DEF WakeOne, WakeAll, ThreadInv, TypeOK
    <3>2. CASE UNCHANGED <<cs, ints, at>>
      BY <1>1, <3>1, <3>2, SameSections
    <3>3. CASE EnterKernel("waking") /\ at[k.cur] = "user"
      BY <1>1, <1>2, <3>1, <3>3, EnterSections
    <3> QED
      BY <1>6, <2>2, <3>2, <3>3 DEF WakeOne, WakeAll
  <2> QED
    BY <2>1, <2>2
<1> QED
  BY <1>3, <1>4, <1>5, <1>6 DEF WaitClient

\* The late timeout is the only hole: as long as no timeout fires after its
\* thread has been woken, whoever is in a kernel call has interrupts disabled,
\* and every thread leaves the critical sections it has entered.
THEOREM SectionsHold ==
  ASSUME ExclusiveResume
  PROVE  ThreadSpec /\ [][\A t \in Threads : TimeoutFire(t) => k.state[t] = "blocked"]_tvars
           => [](CriticalSectionDisablesInts /\ NothingLeaked)
<1> DEFINE Prompt == \A t \in Threads : TimeoutFire(t) => k.state[t] = "blocked"
<1>1. ThreadInit => Sections
  <2> SUFFICES ASSUME ThreadInit PROVE Sections
    OBVIOUS
  <2>1. k.cur = Idle /\ Idle \in Threads /\ Idle \notin BootThreads /\ ints = TRUE
    BY ThreadAssumption DEF ThreadInit
  <2>2. \A t \in Threads : k.state[t] = IF t = Idle THEN "running"
                                       ELSE IF t \in BootThreads THEN "ready" ELSE "none"
    BY DEF ThreadInit
  <2>3. \A t \in Threads : /\ cs[t] = IF t \in BootThreads THEN 1 ELSE 0
                           /\ at[t] = IF t \in BootThreads THEN "fresh" ELSE "user"
    BY DEF ThreadInit
  <2>4. \A t \in Threads : cs[t] = Nest(at[t])
    BY <2>3 DEF Nest
  <2>5. \A t \in Threads : at[t] \in Own => t = k.cur \/ k.state[t] \in {"none", "death"}
    BY <2>1, <2>2, <2>3 DEF Own
  <2>6. at[k.cur] = "user"
    BY <2>1, <2>3
  <2> QED
    BY <2>1, <2>4, <2>5, <2>6 DEF Sections
<1>2. ThreadInv /\ ThreadInv' /\ Sections /\ [ThreadNext]_tvars /\ [Prompt]_tvars => Sections'
  <2> SUFFICES ASSUME ThreadInv, ThreadInv', Sections, [ThreadNext]_tvars, [Prompt]_tvars
               PROVE  Sections'
    OBVIOUS
  <2>1. CASE UNCHANGED tvars
    BY <2>1 DEF tvars, Sections
  <2>2. CASE ThreadNext /\ Prompt
    BY <2>2, CoreSections, ClientSections DEF ThreadNext
  <2> QED
    BY <2>1, <2>2
<1>3. ThreadInv /\ Sections => CriticalSectionDisablesInts /\ NothingLeaked
  BY Types DEF ThreadInv, Sections, CriticalSectionDisablesInts, NothingLeaked
<1> HIDE DEF Prompt
<1>4. ThreadSpec /\ [][Prompt]_tvars => [](CriticalSectionDisablesInts /\ NothingLeaked)
  BY <1>1, <1>2, <1>3, SchedulerInvariant, PTL DEF ThreadSpec
<1> QED
  BY <1>4 DEF Prompt
=============================================================================
