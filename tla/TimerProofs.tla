----------------------------- MODULE TimerProofs -----------------------------
(***************************************************************************)
(* The timer queue stays sorted by the true time that is left, although    *)
(* the clock wraps around and times are compared by the sign of a          *)
(* difference.  First what the comparison says, for any modulus; then what *)
(* the list operations do to a sorted list; then one lemma for each action.*)
(* Last, that all this implements Alarms, which knows no clock.            *)
(***************************************************************************)
EXTENDS Timer, SequenceTheorems, WellFoundedInduction, TLAPS

-----------------------------------------------------------------------------
(* Times.                                                                  *)

LEMMA ModulusType ==
  /\ Modulus \in Nat \ {0} /\ MaxLate \in Nat /\ 2 * (MaxLate + 2) < Modulus
  /\ NoTimer \notin Timers
BY TimerAssumption

\* Within one turn of the clock % is a single subtraction or addition.
LEMMA Wrap ==
  ASSUME NEW M \in Nat \ {0}, NEW x \in Int, -M <= x, x < 2 * M
  PROVE  x % M = IF x < 0 THEN x + M ELSE IF x >= M THEN x - M ELSE x
<1>1. CASE x < 0
  BY <1>1, SMTT(20)
<1>2. CASE x >= M
  BY <1>2, SMTT(20)
<1>3. CASE x >= 0 /\ x < M
  BY <1>3, SMTT(20)
<1> QED
  BY <1>1, <1>2, <1>3

\* x is the time that the clock c shows "left" milliseconds from now.
Shows(x, c, left) == x = c + left \/ x = c + left - Modulus \/ x = c + left + Modulus

Moments == 0..(Modulus - 1)

\* Near enough to be compared.
Near(left) == left \in Int /\ -MaxLate <= left /\ 2 * (left + MaxLate + 1) < Modulus

LEMMA Later ==
  ASSUME NEW c \in Moments, NEW d \in Nat, 2 * (d + MaxLate + 1) < Modulus
  PROVE  (c + d) % Modulus \in Moments /\ Shows((c + d) % Modulus, c, d)
<1> DEFINE x == c + d
<1>1. /\ Modulus \in Nat \ {0} /\ x \in Int /\ -Modulus <= x /\ x < 2 * Modulus
      /\ x = c + d /\ x >= 0
  BY ModulusType DEF Moments
<1> HIDE DEF x
<1>2. x % Modulus = IF x < 0 THEN x + Modulus ELSE IF x >= Modulus THEN x - Modulus ELSE x
  BY <1>1, Wrap
<1>3. x % Modulus \in Moments /\ Shows(x % Modulus, c, d)
  BY <1>1, <1>2 DEF Moments, Shows
<1> QED
  BY <1>1, <1>3

\* The sign of the difference of two times is that of what is left.
LEMMA Difference ==
  ASSUME NEW x \in Moments, NEW y \in Moments, NEW c \in Int, NEW l \in Int, NEW m \in Int,
         Shows(x, c, l), Shows(y, c, m), 2 * (l - m) < Modulus, 2 * (m - l) < Modulus
  PROVE  SignedDifference(x, y) = l - m
<1>1. Modulus \in Nat \ {0} /\ x - y \in Int /\ -Modulus <= x - y /\ x - y < 2 * Modulus
  BY ModulusType DEF Moments
<1>2. (x - y) % Modulus = IF x - y < 0 THEN x - y + Modulus
                          ELSE IF x - y >= Modulus THEN x - y - Modulus ELSE x - y
  BY <1>1, Wrap
<1>3. \/ x - y = l - m \/ x - y = l - m + Modulus \/ x - y = l - m - Modulus
      \/ x - y = l - m + 2 * Modulus \/ x - y = l - m - 2 * Modulus
  BY <1>1 DEF Shows, Moments
<1>4. (x - y) % Modulus = IF l - m < 0 THEN l - m + Modulus ELSE l - m
  BY <1>1, <1>2, <1>3 DEF Moments
<1> QED
  BY <1>1, <1>4 DEF SignedDifference

-----------------------------------------------------------------------------
(* Sorted lists of timers.                                                 *)

Entries == [timer : Timers, time : Moments, period : Nat, left : Int]

\* e is due at the time it shows by the clock c, and can be compared.
Fits(e, c) == Near(e.left) /\ Shows(e.time, c, e.left) /\ 2 * (e.period + MaxLate + 1) < Modulus

Sorted(list) == \A i, j \in DOMAIN list : i < j => list[i].left <= list[j].left
Single(list) == \A i, j \in DOMAIN list : list[i].timer = list[j].timer => i = j

Good(list, c) ==
  /\ list \in Seq(Entries)
  /\ \A i \in DOMAIN list : Fits(list[i], c)
  /\ Sorted(list) /\ Single(list)

LEMMA Compared ==
  ASSUME NEW c \in Moments, NEW x \in Entries, NEW y \in Entries, Fits(x, c), Fits(y, c)
  PROVE  TimeGT(x.time, y.time) <=> x.left > y.left
<1>1. SignedDifference(x.time, y.time) = x.left - y.left
  BY Difference, ModulusType DEF Fits, Near, Entries, Moments
<1> QED
  BY <1>1 DEF TimeGT, Entries

LEMMA SmallestExists ==
  ASSUME NEW S, S \subseteq Nat, S # {}
  PROVE  \E m \in S : \A n \in S : m <= n
<1> DEFINE R == {p \in Nat \X Nat : p[1] < p[2]}
<1>1. IsWellFoundedOn(R, Nat)
  BY NatLessThanWellFounded DEF OpToRel
<1>2. PICK m \in S : \A n \in S : ~(<<n, m>> \in R)
  <2> HIDE DEF R
  <2> QED
    BY <1>1, WFMin
<1>3. ASSUME NEW n \in S PROVE m <= n
  <2>1. <<n, m>> \in Nat \X Nat /\ <<n, m>>[1] = n /\ <<n, m>>[2] = m
    BY <1>2
  <2>2. ~(n < m)
    BY <1>2, <2>1
  <2> QED
    BY <2>2, <1>2
<1> QED
  BY <1>2, <1>3

\* s with e put in at the place n.
LEMMA InsertAtOK ==
  ASSUME NEW S, NEW s \in Seq(S), NEW e \in S, NEW n \in 1..(Len(s) + 1)
  PROVE  /\ InsertAt(s, n, e) \in Seq(S) /\ Len(InsertAt(s, n, e)) = Len(s) + 1
         /\ \A i \in 1..(Len(s) + 1) :
              InsertAt(s, n, e)[i] = IF i < n THEN s[i] ELSE IF i = n THEN e ELSE s[i - 1]
<1> DEFINE x == SubSeq(s, 1, n - 1)
           y == SubSeq(s, n, Len(s))
           xe == x \o <<e>>
<1>1. Len(s) \in Nat /\ n \in Int /\ DOMAIN s = 1..Len(s)
  OBVIOUS
<1>2. x \in Seq(S) /\ Len(x) = n - 1 /\ \A i \in 1..(n - 1) : x[i] = s[i]
  <2>1. \A i \in 1..(n - 1) : s[i] \in S
    BY <1>1
  <2> QED
    BY <1>1, <2>1, SubSeqProperties
<1>3. y \in Seq(S) /\ Len(y) = Len(s) - n + 1 /\ \A i \in 1..(Len(s) - n + 1) : y[i] = s[n + i - 1]
  <2>1. \A i \in n..Len(s) : s[i] \in S
    BY <1>1
  <2>2. /\ y \in Seq(S) /\ Len(y) = IF n <= Len(s) THEN Len(s) - n + 1 ELSE 0
        /\ \A i \in 1..(Len(s) - n + 1) : y[i] = s[n + i - 1]
    BY <1>1, <2>1, SubSeqProperties
  <2> QED
    BY <1>1, <2>2
<1> HIDE DEF x, y
<1>4. /\ xe \in Seq(S) /\ Len(xe) = n
      /\ \A i \in 1..n : xe[i] = IF i <= n - 1 THEN s[i] ELSE e
  <2>1. <<e>> \in Seq(S) /\ Len(<<e>>) = 1 /\ <<e>>[1] = e
    OBVIOUS
  <2>2. /\ xe \in Seq(S) /\ Len(xe) = Len(x) + 1
        /\ \A i \in 1..(Len(x) + 1) : xe[i] = IF i <= Len(x) THEN x[i] ELSE <<e>>[i - Len(x)]
    BY <1>2, <2>1, ConcatProperties
  <2> HIDE DEF xe
  <2>3. ASSUME NEW i \in 1..n PROVE xe[i] = IF i <= n - 1 THEN s[i] ELSE e
    <3>1. i \in 1..(Len(x) + 1) /\ (~(i <= n - 1) => i - Len(x) = 1)
      BY <1>1, <1>2
    <3> QED
      BY <1>1, <1>2, <2>1, <2>2, <3>1
  <2> QED
    BY <1>1, <1>2, <2>2, <2>3
<1> HIDE DEF xe
<1>5. /\ xe \o y \in Seq(S) /\ Len(xe \o y) = Len(s) + 1
      /\ \A i \in 1..(Len(s) + 1) : (xe \o y)[i] = IF i <= n THEN xe[i] ELSE y[i - n]
  <2>1. /\ xe \o y \in Seq(S) /\ Len(xe \o y) = Len(xe) + Len(y)
        /\ \A i \in 1..(Len(xe) + Len(y)) :
             (xe \o y)[i] = IF i <= Len(xe) THEN xe[i] ELSE y[i - Len(xe)]
    BY <1>3, <1>4, ConcatProperties
  <2>2. Len(xe) + Len(y) = Len(s) + 1
    BY <1>1, <1>3, <1>4
  <2> QED
    BY <1>4, <2>1, <2>2
<1>6. InsertAt(s, n, e) = xe \o y
  BY DEF InsertAt, x, y, xe
<1>7. ASSUME NEW i \in 1..(Len(s) + 1)
      PROVE  (xe \o y)[i] = IF i < n THEN s[i] ELSE IF i = n THEN e ELSE s[i - 1]
  <2>1. CASE i <= n
    BY <1>1, <1>4, <1>5, <2>1
  <2>2. CASE i > n
    <3>1. i - n \in 1..(Len(s) - n + 1) /\ n + (i - n) - 1 = i - 1
      BY <1>1, <2>2
    <3>2. y[i - n] = s[i - 1]
      BY <1>3, <3>1
    <3> QED
      BY <1>1, <1>5, <2>2, <3>2
  <2>3. i <= n \/ i > n
    BY <1>1
  <2> QED
    BY <2>1, <2>2, <2>3
<1> QED
  BY <1>5, <1>6, <1>7

\* insert_timer_in_queue keeps the list sorted.
LEMMA InsertTimerOK ==
  ASSUME NEW c \in Moments, NEW list, Good(list, c), NEW e \in Entries, Fits(e, c),
         ~InQueue(list, e.timer)
  PROVE  /\ Good(InsertTimer(list, e), c)
         /\ \A t : InQueue(InsertTimer(list, e), t) <=> InQueue(list, t) \/ t = e.timer
         /\ Seens(InsertTimer(list, e)) = Seens(list) \cup {Seen(e)}
<1> DEFINE later == {i \in DOMAIN list : TimeGT(list[i].time, e.time)}
           n == IF later = {} THEN Len(list) + 1 ELSE CHOOSE i \in later : \A j \in later : i <= j
           r == InsertTimer(list, e)
<1>1. list \in Seq(Entries) /\ DOMAIN list = 1..Len(list) /\ Len(list) \in Nat
  BY DEF Good
<1>2. \A i \in DOMAIN list : list[i] \in Entries /\ (i \in later <=> list[i].left > e.left)
  BY <1>1, Compared DEF Good
<1>3. /\ n \in 1..(Len(list) + 1)
      /\ \A i \in DOMAIN list : i < n => i \notin later
      /\ \A i \in DOMAIN list : i >= n => n \in later
  <2>1. CASE later = {}
    BY <1>1, <2>1
  <2>2. CASE later # {}
    <3>1. later \subseteq Nat /\ later \subseteq 1..Len(list)
      BY <1>1
    <3>2. \E i \in later : \A j \in later : i <= j
      <4> HIDE DEF later
      <4> QED
        BY <2>2, <3>1, SmallestExists
    <3>3. n \in later /\ \A j \in later : n <= j
      <4> HIDE DEF later
      <4> QED
        BY <2>2, <3>2
    <3> HIDE DEF n
    <3> QED
      BY <1>1, <3>1, <3>3
  <2> QED
    BY <2>1, <2>2
<1>4. r = InsertAt(list, n, e)
  BY DEF InsertTimer
<1> HIDE DEF later, n, r
<1>5. /\ r \in Seq(Entries) /\ Len(r) = Len(list) + 1 /\ DOMAIN r = 1..(Len(list) + 1)
      /\ \A i \in 1..(Len(list) + 1) :
           r[i] = IF i < n THEN list[i] ELSE IF i = n THEN e ELSE list[i - 1]
  <2>1. /\ r \in Seq(Entries) /\ Len(r) = Len(list) + 1
        /\ \A i \in 1..(Len(list) + 1) :
             r[i] = IF i < n THEN list[i] ELSE IF i = n THEN e ELSE list[i - 1]
    <3> HIDE DEF Entries
    <3>1. n \in 1..(Len(list) + 1)
      BY <1>3
    <3>2. list \in Seq(Entries)
      BY <1>1
    <3>3. /\ InsertAt(list, n, e) \in Seq(Entries) /\ Len(InsertAt(list, n, e)) = Len(list) + 1
          /\ \A i \in 1..(Len(list) + 1) :
               InsertAt(list, n, e)[i] = IF i < n THEN list[i] ELSE IF i = n THEN e ELSE list[i - 1]
      BY <3>1, <3>2, InsertAtOK
    <3> QED
      BY <3>3, <1>4
  <2> QED
    BY <2>1
<1>6. \A i \in DOMAIN r : Fits(r[i], c)
  <2> TAKE i \in DOMAIN r
  <2>1. i = n \/ (i < n /\ i \in DOMAIN list) \/ (i > n /\ i - 1 \in DOMAIN list)
    BY <1>1, <1>3, <1>5
  <2> QED
    BY <1>3, <1>5, <2>1 DEF Good
<1>7. Sorted(r)
  <2> SUFFICES ASSUME NEW i \in DOMAIN r, NEW j \in DOMAIN r, i < j
               PROVE  r[i].left <= r[j].left
    BY DEF Sorted
  <2>1. \A h \in DOMAIN list : list[h].left \in Int /\ e.left \in Int
    BY <1>2 DEF Entries
  <2>2. \A g, h \in DOMAIN list : g <= h => list[g].left <= list[h].left
    BY <1>1, <2>1 DEF Good, Sorted
  <2>3. \A h \in DOMAIN list : h < n => list[h].left <= e.left
    BY <1>2, <1>3, <2>1
  <2>4. \A h \in DOMAIN list : h >= n => e.left <= list[h].left
    <3> SUFFICES ASSUME NEW h \in DOMAIN list, h >= n PROVE e.left <= list[h].left
      OBVIOUS
    <3>1. n \in DOMAIN list /\ list[n].left > e.left
      BY <1>1, <1>2, <1>3
    <3>2. list[n].left <= list[h].left
      BY <1>1, <2>2, <3>1
    <3> QED
      BY <2>1, <3>1, <3>2
  <2>5. CASE j < n
    BY <1>1, <1>3, <1>5, <2>2, <2>5
  <2>6. CASE j = n
    BY <1>1, <1>3, <1>5, <2>3, <2>6
  <2>7. CASE j > n
    <3>1. j - 1 \in DOMAIN list /\ j - 1 >= n /\ r[j] = list[j - 1]
      BY <1>1, <1>3, <1>5, <2>7
    <3>2. CASE i < n
      <4>1. i \in DOMAIN list /\ i <= j - 1 /\ r[i] = list[i]
        BY <1>1, <1>3, <1>5, <3>1, <3>2
      <4> QED
        BY <2>2, <3>1, <4>1
    <3>3. CASE i = n
      BY <1>5, <2>4, <3>1, <3>3
    <3>4. CASE i > n
      <4>1. i - 1 \in DOMAIN list /\ i - 1 <= j - 1 /\ r[i] = list[i - 1]
        BY <1>1, <1>3, <1>5, <3>4
      <4> QED
        BY <2>2, <3>1, <4>1
    <3> QED
      BY <1>3, <1>5, <3>2, <3>3, <3>4
  <2> QED
    BY <1>3, <1>5, <2>5, <2>6, <2>7
<1>8. Single(r)
  <2> SUFFICES ASSUME NEW i \in DOMAIN r, NEW j \in DOMAIN r, r[i].timer = r[j].timer
               PROVE  i = j
    BY DEF Single
  <2>1. \A h \in DOMAIN list : list[h].timer # e.timer
    BY DEF InQueue
  <2> DEFINE ii == IF i < n THEN i ELSE i - 1
             jj == IF j < n THEN j ELSE j - 1
  <2>2. i # n => ii \in DOMAIN list /\ r[i] = list[ii]
    BY <1>1, <1>3, <1>5
  <2>3. j # n => jj \in DOMAIN list /\ r[j] = list[jj]
    BY <1>1, <1>3, <1>5
  <2>4. CASE i = n \/ j = n
    BY <1>3, <1>5, <2>1, <2>2, <2>3, <2>4
  <2>5. CASE i # n /\ j # n
    <3>1. ii = jj
      BY <2>2, <2>3, <2>5 DEF Good, Single
    <3> QED
      BY <1>3, <1>5, <2>5, <3>1
  <2> QED
    BY <2>4, <2>5
<1>9. ASSUME NEW t, InQueue(r, t) PROVE InQueue(list, t) \/ t = e.timer
  <2>1. PICK i \in DOMAIN r : r[i].timer = t
    BY <1>9 DEF InQueue
  <2>2. i = n \/ (i < n /\ i \in DOMAIN list) \/ (i > n /\ i - 1 \in DOMAIN list)
    BY <1>1, <1>3, <1>5
  <2> QED
    BY <1>3, <1>5, <2>1, <2>2 DEF InQueue
<1>10. n \in DOMAIN r /\ r[n] = e
  BY <1>3, <1>5
<1>11. ASSUME NEW i \in DOMAIN list PROVE \E j \in DOMAIN r : r[j] = list[i]
  <2>1. CASE i < n
    BY <1>1, <1>5, <2>1
  <2>2. CASE i >= n
    <3>1. i + 1 \in DOMAIN r /\ r[i + 1] = list[i]
      BY <1>1, <1>3, <1>5, <2>2
    <3> QED
      BY <3>1
  <2> QED
    BY <1>1, <1>3, <2>1, <2>2
<1>12. ASSUME NEW t, InQueue(list, t) \/ t = e.timer PROVE InQueue(r, t)
  BY <1>10, <1>11, <1>12 DEF InQueue
<1>13. \A i \in DOMAIN r : r[i] = e \/ \E j \in DOMAIN list : r[i] = list[j]
  <2> TAKE i \in DOMAIN r
  <2>1. i = n \/ (i < n /\ i \in DOMAIN list) \/ (i > n /\ i - 1 \in DOMAIN list)
    BY <1>1, <1>3, <1>5
  <2> QED
    BY <1>3, <1>5, <2>1
<1>14. Seens(r) = Seens(list) \cup {Seen(e)}
  BY <1>10, <1>11, <1>13, SMTT(20) DEF Seens
<1> QED
  BY <1>5, <1>6, <1>7, <1>8, <1>9, <1>12, <1>14 DEF Good, r
\* s without its element at n.
LEMMA RemoveAtOK ==
  ASSUME NEW S, NEW s \in Seq(S), NEW n \in 1..Len(s)
  PROVE  /\ RemoveAt(s, n) \in Seq(S) /\ Len(RemoveAt(s, n)) = Len(s) - 1
         /\ \A i \in 1..(Len(s) - 1) : RemoveAt(s, n)[i] = IF i < n THEN s[i] ELSE s[i + 1]
<1> DEFINE x == SubSeq(s, 1, n - 1)
           y == SubSeq(s, n + 1, Len(s))
<1>1. /\ Len(s) \in Nat /\ n \in Int
      /\ \A i \in 1..(n - 1) : s[i] \in S
      /\ \A i \in (n + 1)..Len(s) : s[i] \in S
  BY LenProperties, ElementOfSeq
<1>2. x \in Seq(S) /\ Len(x) = n - 1 /\ \A i \in 1..(n - 1) : x[i] = s[i]
  BY <1>1, SubSeqProperties
<1>3. y \in Seq(S) /\ Len(y) = Len(s) - n /\ \A i \in 1..(Len(s) - n) : y[i] = s[n + i]
  BY <1>1, SubSeqProperties
<1> HIDE DEF x, y
<1>4. /\ x \o y \in Seq(S) /\ Len(x \o y) = Len(x) + Len(y)
      /\ \A i \in 1..(Len(x) + Len(y)) : (x \o y)[i] = IF i <= Len(x) THEN x[i] ELSE y[i - Len(x)]
  BY <1>2, <1>3, ConcatProperties
<1>5. RemoveAt(s, n) = x \o y
  BY DEF RemoveAt, x, y
<1>6. ASSUME NEW i \in 1..(Len(s) - 1)
      PROVE  (x \o y)[i] = IF i < n THEN s[i] ELSE s[i + 1]
  <2>1. CASE i < n
    BY <1>1, <1>2, <1>3, <1>4, <2>1
  <2>2. CASE ~(i < n)
    <3>1. (x \o y)[i] = y[i - (n - 1)] /\ i - (n - 1) \in 1..(Len(s) - n)
      BY <1>1, <1>2, <1>3, <1>4, <2>2
    <3> QED
      BY <1>1, <1>3, <2>2, <3>1
  <2> QED
    BY <2>1, <2>2
<1>7. Len(x \o y) = Len(s) - 1
  BY <1>1, <1>2, <1>3, <1>4
<1> QED
  BY <1>4, <1>5, <1>6, <1>7

\* A sorted list that loses one entry stays sorted.
LEMMA DropOK ==
  ASSUME NEW c, NEW list, Good(list, c), NEW n \in 1..Len(list),
         NEW r \in Seq(Entries), Len(r) = Len(list) - 1,
         \A i \in 1..(Len(list) - 1) : r[i] = IF i < n THEN list[i] ELSE list[i + 1]
  PROVE  /\ Good(r, c)
         /\ \A t : InQueue(r, t) <=> InQueue(list, t) /\ t # list[n].timer
         /\ Seens(r) = {a \in Seens(list) : a.timer # list[n].timer}
<1> DEFINE old(i) == IF i < n THEN i ELSE i + 1
<1>1. list \in Seq(Entries) /\ DOMAIN list = 1..Len(list) /\ Len(list) \in Nat /\ n \in Int
  BY DEF Good
<1>2. DOMAIN r = 1..(Len(list) - 1)
  OBVIOUS
<1>3. \A i \in DOMAIN r : i \in Int /\ old(i) \in DOMAIN list /\ old(i) # n /\ r[i] = list[old(i)]
  BY <1>1, <1>2
<1>4. \A i, j \in DOMAIN r : (i < j => old(i) < old(j)) /\ (old(i) = old(j) => i = j)
  BY <1>1, <1>2
<1>5. \A i \in DOMAIN list : i # n => \E j \in DOMAIN r : i = old(j)
  <2> TAKE i \in DOMAIN list
  <2> HAVE i # n
  <2>1. CASE i < n
    BY <1>1, <1>2, <2>1
  <2>2. CASE i > n
    <3>1. i - 1 \in DOMAIN r /\ i = old(i - 1)
      BY <1>1, <1>2, <2>2
    <3> QED
      BY <3>1
  <2> QED
    BY <1>1, <2>1, <2>2
<1> HIDE DEF old
<1>6. \A i \in DOMAIN r : Fits(r[i], c)
  BY <1>3 DEF Good
<1>7. Sorted(r)
  BY <1>3, <1>4 DEF Good, Sorted
<1>8. Single(r)
  BY <1>3, <1>4 DEF Good, Single
<1>9. ASSUME NEW t PROVE InQueue(r, t) <=> InQueue(list, t) /\ t # list[n].timer
  <2>1. ASSUME InQueue(r, t) PROVE InQueue(list, t) /\ t # list[n].timer
    <3>1. PICK i \in DOMAIN r : r[i].timer = t
      BY <2>1 DEF InQueue
    <3>2. old(i) \in DOMAIN list /\ old(i) # n /\ list[old(i)].timer = t
      BY <1>3, <3>1
    <3> QED
      BY <1>1, <3>2 DEF InQueue, Good, Single
  <2>2. ASSUME InQueue(list, t), t # list[n].timer PROVE InQueue(r, t)
    <3>1. PICK i \in DOMAIN list : list[i].timer = t
      BY <2>2 DEF InQueue
    <3>2. PICK j \in DOMAIN r : i = old(j)
      BY <1>5, <2>2, <3>1
    <3> QED
      BY <1>3, <3>1, <3>2 DEF InQueue
  <2> QED
    BY <2>1, <2>2
<1>10. Seens(r) = {a \in Seens(list) : a.timer # list[n].timer}
  <2>1. \A i \in DOMAIN list : list[i].timer # list[n].timer <=> i # n
    BY <1>1 DEF Good, Single
  <2>2. \A i \in DOMAIN r : \E j \in DOMAIN list : j # n /\ r[i] = list[j]
    BY <1>3
  <2>3. \A i \in DOMAIN list : i # n => \E j \in DOMAIN r : r[j] = list[i]
    BY <1>3, <1>5
  <2>4. \A i \in DOMAIN list : Seen(list[i]).timer = list[i].timer
    BY DEF Seen
  <2>5. Seens(r) = {a \in Seens(list) : a.timer # list[n].timer}
    <3>1. ASSUME NEW a \in Seens(r) PROVE a \in Seens(list) /\ a.timer # list[n].timer
      <4>1. PICK i \in DOMAIN r : a = Seen(r[i])
        BY <3>1 DEF Seens
      <4>2. PICK j \in DOMAIN list : j # n /\ r[i] = list[j]
        BY <2>2
      <4> QED
        BY <2>1, <2>4, <4>1, <4>2 DEF Seens
    <3>2. ASSUME NEW a \in Seens(list), a.timer # list[n].timer PROVE a \in Seens(r)
      <4>1. PICK i \in DOMAIN list : a = Seen(list[i])
        BY <3>2 DEF Seens
      <4>2. PICK j \in DOMAIN r : r[j] = list[i]
        BY <2>1, <2>3, <2>4, <3>2, <4>1
      <4> QED
        BY <4>1, <4>2 DEF Seens
    <3> QED
      BY <3>1, <3>2
  <2> QED
    BY <2>5
<1> QED
  BY <1>6, <1>7, <1>8, <1>9, <1>10 DEF Good

LEMMA TailOK ==
  ASSUME NEW c, NEW list, Good(list, c), list # <<>>
  PROVE  /\ Head(list) \in Entries /\ Fits(Head(list), c) /\ Head(list) = list[1]
         /\ 1 \in DOMAIN list
         /\ Good(Tail(list), c)
         /\ \A t : InQueue(Tail(list), t) <=> InQueue(list, t) /\ t # Head(list).timer
         /\ InQueue(list, Head(list).timer)
         /\ Seens(Tail(list)) = {a \in Seens(list) : a.timer # Head(list).timer}
<1>1. list \in Seq(Entries) /\ Len(list) \in Nat \ {0} /\ DOMAIN list = 1..Len(list)
  BY EmptySeq DEF Good
<1>2. /\ Head(list) = list[1] /\ 1 \in 1..Len(list) /\ Tail(list) \in Seq(Entries)
      /\ Len(Tail(list)) = Len(list) - 1
      /\ \A i \in 1..(Len(list) - 1) : Tail(list)[i] = IF i < 1 THEN list[i] ELSE list[i + 1]
  BY <1>1, HeadTailProperties
<1> DEFINE r == Tail(list)
           n == 1
<1>3. /\ n \in 1..Len(list) /\ r \in Seq(Entries) /\ Len(r) = Len(list) - 1
      /\ \A i \in 1..(Len(list) - 1) : r[i] = IF i < n THEN list[i] ELSE list[i + 1]
  BY <1>2
<1> HIDE DEF r, n
<1>4. /\ Good(r, c) /\ \A t : InQueue(r, t) <=> InQueue(list, t) /\ t # list[n].timer
      /\ Seens(r) = {a \in Seens(list) : a.timer # list[n].timer}
  <2> DEFINE without == {a \in Seens(list) : a.timer # list[n].timer}
  <2>1. Good(r, c) /\ (\A t : InQueue(r, t) <=> InQueue(list, t) /\ t # list[n].timer)
    BY <1>3, DropOK, Zenon
  <2>2. Seens(r) = without
    BY <1>3, DropOK, Zenon
  <2> QED
    BY <2>1, <2>2
<1>5. Head(list) = list[n] /\ n \in DOMAIN list /\ n = 1
  BY <1>1, <1>2 DEF n
<1>6. /\ Good(r, c) /\ \A t : InQueue(r, t) <=> InQueue(list, t) /\ t # Head(list).timer
      /\ Seens(r) = {a \in Seens(list) : a.timer # Head(list).timer}
  BY <1>4, <1>5
<1>7. InQueue(list, Head(list).timer)
  BY <1>5 DEF InQueue
<1>8. Head(list) \in Entries /\ Fits(Head(list), c)
  BY <1>1, <1>5, ElementOfSeq DEF Good
<1> QED
  BY <1>5, <1>6, <1>7, <1>8 DEF r

LEMMA RemoveTimerOK ==
  ASSUME NEW c, NEW list, Good(list, c), NEW t
  PROVE  /\ Good(RemoveTimer(list, t), c)
         /\ \A u : InQueue(RemoveTimer(list, t), u) <=> InQueue(list, u) /\ u # t
         /\ Seens(RemoveTimer(list, t)) = {a \in Seens(list) : a.timer # t}
<1>1. CASE ~InQueue(list, t)
  <2>1. \A a \in Seens(list) : a.timer # t
    BY <1>1 DEF Seens, Seen, InQueue
  <2> QED
    BY <1>1, <2>1 DEF RemoveTimer
<1>2. CASE InQueue(list, t)
  <2> DEFINE n == CHOOSE i \in DOMAIN list : list[i].timer = t
             r == RemoveAt(list, n)
  <2>1. list \in Seq(Entries) /\ n \in 1..Len(list) /\ list[n].timer = t
    BY <1>2 DEF InQueue, Good
  <2>2. RemoveTimer(list, t) = r
    BY <1>2 DEF RemoveTimer
  <2> HIDE DEF n
  <2>3. /\ r \in Seq(Entries) /\ Len(r) = Len(list) - 1
        /\ \A i \in 1..(Len(list) - 1) : r[i] = IF i < n THEN list[i] ELSE list[i + 1]
    BY <2>1, RemoveAtOK
  <2> HIDE DEF r
  <2>4. /\ Good(r, c) /\ \A u : InQueue(r, u) <=> InQueue(list, u) /\ u # list[n].timer
        /\ Seens(r) = {a \in Seens(list) : a.timer # list[n].timer}
    BY <2>1, <2>3, DropOK
  <2> QED
    BY <2>1, <2>2, <2>4
<1> QED
  BY <1>1, <1>2
-----------------------------------------------------------------------------
(* The invariant.                                                          *)

Idle == [timer |-> NoTimer]

\* A tick's argument is the time that the clock showed lag milliseconds ago.
TickShows ==
  /\ tick \in [on : BOOLEAN, now : Moments, lag : 0..MaxLate]
  /\ tick.on => Shows(tick.now, clock, -tick.lag)

SettingFits ==
  setting = Idle \/ (setting \in Entries /\ Fits(setting, clock) /\ ~InQueue(queue, setting.timer))

TimerInv == clock \in Moments /\ Good(queue, clock) /\ SettingFits /\ TickShows

\* An entry made from a time "ago" that is not more than MaxLate back.
LEMMA EntryOK ==
  ASSUME NEW c \in Moments, NEW from \in Moments, NEW ago \in 0..MaxLate, Shows(from, c, -ago),
         NEW t \in Timers, NEW d \in Nat \ {0}, NEW p \in Nat,
         2 * (d + MaxLate + 1) < Modulus, 2 * (p + MaxLate + 1) < Modulus
  PROVE  Entry(t, from, ago, d, p) \in Entries /\ Fits(Entry(t, from, ago, d, p), c)
<1> DEFINE x == (from + d) % Modulus
           e == Entry(t, from, ago, d, p)
<1>1. x \in Moments /\ Shows(x, from, d)
  BY Later
<1> HIDE DEF x
<1>2. Near(d - ago) /\ Shows(x, c, d - ago)
  BY <1>1, ModulusType DEF Near, Shows, Moments
<1>3. e = [timer |-> t, time |-> x, period |-> p, left |-> d - ago]
  BY DEF Entry, x
<1>4. d - ago \in Int
  BY ModulusType
<1> HIDE DEF e
<1>5. e \in Entries /\ e.left = d - ago /\ e.time = x /\ e.period = p
  BY <1>1, <1>3, <1>4 DEF Entries
<1>6. Fits(e, c)
  BY <1>2, <1>5 DEF Fits
<1> QED
  BY <1>5, <1>6 DEF e

LEMMA ArgumentsType ==
  ASSUME NEW a \in Arguments
  PROVE  /\ a.delay \in Nat \ {0} /\ a.period \in Nat
         /\ 2 * (a.delay + MaxLate + 1) < Modulus /\ 2 * (a.period + MaxLate + 1) < Modulus
BY TimerAssumption DEF Arguments

LEMMA NewEntryOK ==
  ASSUME NEW c \in Moments, NEW t \in Timers, NEW a \in Arguments
  PROVE  /\ Entry(t, c, 0, a.delay, a.period) \in Entries
         /\ Fits(Entry(t, c, 0, a.delay, a.period), c)
         /\ Entry(t, c, 0, a.delay, a.period).timer = t
<1>1. 0 \in 0..MaxLate /\ Shows(c, c, -0)
  BY ModulusType DEF Shows, Moments
<1>2. /\ Entry(t, c, 0, a.delay, a.period) \in Entries
      /\ Fits(Entry(t, c, 0, a.delay, a.period), c)
  BY <1>1, ArgumentsType, EntryOK
<1> QED
  BY <1>2 DEF Entry

\* A periodic timer is put back for the time the tick was called with.
LEMMA RequeueOK ==
  ASSUME TimerInv, tick.on, NEW list, Good(list, clock), NEW e \in Entries, Fits(e, clock),
         NEW kept \in BOOLEAN
  PROVE  /\ Good(Requeue(list, e, kept), clock)
         /\ \A t : InQueue(Requeue(list, e, kept), t) => InQueue(list, t) \/ t = e.timer
         /\ Seens(Requeue(list, e, kept)) =
              IF e.period > 0 /\ kept /\ ~InQueue(list, e.timer)
              THEN Seens(list) \cup {[timer |-> e.timer, left |-> e.period - tick.lag,
                                      period |-> e.period]}
              ELSE Seens(list)
<1>1. CASE ~(e.period > 0 /\ kept /\ ~InQueue(list, e.timer))
  BY <1>1 DEF Requeue
<1>2. CASE e.period > 0 /\ kept /\ ~InQueue(list, e.timer)
  <2> DEFINE n == Entry(e.timer, tick.now, tick.lag, e.period, e.period)
  <2>1. /\ clock \in Moments /\ tick.now \in Moments /\ tick.lag \in 0..MaxLate
        /\ Shows(tick.now, clock, -tick.lag)
    BY DEF TimerInv, TickShows
  <2>2. /\ e.timer \in Timers /\ e.period \in Nat \ {0}
        /\ 2 * (e.period + MaxLate + 1) < Modulus
    BY <1>2 DEF Entries, Fits
  <2>3. n \in Entries /\ Fits(n, clock)
    BY <2>1, <2>2, EntryOK
  <2>4. /\ n.timer = e.timer
        /\ Seen(n) = [timer |-> e.timer, left |-> e.period - tick.lag, period |-> e.period]
    BY DEF Entry, Seen
  <2>5. Requeue(list, e, kept) = InsertTimer(list, n)
    BY <1>2 DEF Requeue
  <2> HIDE DEF n
  <2>6. ~InQueue(list, n.timer)
    BY <1>2, <2>4
  <2>7. /\ Good(InsertTimer(list, n), clock)
        /\ \A t : InQueue(InsertTimer(list, n), t) <=> InQueue(list, t) \/ t = n.timer
        /\ Seens(InsertTimer(list, n)) = Seens(list) \cup {Seen(n)}
    BY <2>1, <2>3, <2>6, InsertTimerOK
  <2> QED
    BY <1>2, <2>4, <2>5, <2>7
<1> QED
  BY <1>1, <1>2

LEMMA InsertFirst ==
  ASSUME TimerInv, NEW list, Good(list, clock), NEW t \in Timers, ~InQueue(list, t),
         NEW a \in Arguments
  PROVE  LET r == InsertTimer(list, Entry(t, clock, 0, a.delay, a.period))
         IN  /\ Good(r, clock) /\ \A u : InQueue(r, u) <=> InQueue(list, u) \/ u = t
             /\ Seens(r) = Seens(list) \cup
                            {[timer |-> t, left |-> a.delay, period |-> a.period]}
<1> DEFINE e == Entry(t, clock, 0, a.delay, a.period)
<1>1. clock \in Moments
  BY DEF TimerInv
<1>2. /\ e \in Entries /\ Fits(e, clock) /\ e.timer = t
      /\ Seen(e) = [timer |-> t, left |-> a.delay, period |-> a.period]
  <2>1. a.delay - 0 = a.delay
    BY ArgumentsType
  <2> QED
    BY <1>1, <2>1, NewEntryOK DEF Seen, Entry
<1> HIDE DEF e
<1>3. /\ Good(InsertTimer(list, e), clock)
      /\ \A u : InQueue(InsertTimer(list, e), u) <=> InQueue(list, u) \/ u = e.timer
      /\ Seens(InsertTimer(list, e)) = Seens(list) \cup {Seen(e)}
  BY <1>1, <1>2, InsertTimerOK
<1> QED
  BY <1>2, <1>3 DEF e

-----------------------------------------------------------------------------
(* The steps.                                                              *)

LEMMA TimerInitOK == TimerInit => TimerInv
<1> SUFFICES ASSUME TimerInit PROVE TimerInv
  OBVIOUS
<1>1. clock \in Moments
  BY ModulusType DEF TimerInit, Moments
<1>2. Good(queue, clock)
  <2>1. queue \in Seq(Entries) /\ DOMAIN queue = {}
    BY DEF TimerInit
  <2> QED
    BY <2>1 DEF Good, Sorted, Single
<1>3. SettingFits
  BY DEF TimerInit, SettingFits, Idle
<1>4. TickShows
  BY ModulusType DEF TimerInit, TickShows, Moments
<1> QED
  BY <1>1, <1>2, <1>3, <1>4 DEF TimerInv

LEMMA SetBeginOK ==
  ASSUME TimerInv, NEW t \in Timers, NEW a \in Arguments, SetBegin(t, a)
  PROVE  TimerInv'
<1>1. clock' = clock /\ queue' = queue /\ tick' = tick
  BY DEF SetBegin
<1>2. setting' \in Entries /\ Fits(setting', clock) /\ setting'.timer = t
  BY NewEntryOK DEF SetBegin, TimerInv
<1>3. SettingFits'
  BY <1>1, <1>2 DEF SetBegin, SettingFits
<1> QED
  BY <1>1, <1>3 DEF TimerInv, TickShows

LEMMA SetEndOK ==
  ASSUME TimerInv, SetEnd
  PROVE  TimerInv'
<1>1. clock' = clock /\ tick' = tick /\ setting' = Idle
  BY DEF SetEnd, Idle
<1>2. setting \in Entries /\ Fits(setting, clock) /\ ~InQueue(queue, setting.timer)
  BY DEF SetEnd, TimerInv, SettingFits, Idle
<1>3. clock \in Moments /\ Good(queue, clock) /\ queue' = InsertTimer(queue, setting)
  BY DEF TimerInv, SetEnd
<1>4. Good(queue', clock)
  BY <1>2, <1>3, InsertTimerOK
<1> QED
  BY <1>1, <1>4 DEF TimerInv, SettingFits, TickShows

LEMMA CancelOK ==
  ASSUME TimerInv, NEW t \in Timers, Cancel(t)
  PROVE  TimerInv'
<1>1. clock' = clock /\ tick' = tick /\ setting' = setting /\ queue' = RemoveTimer(queue, t)
  BY DEF Cancel
<1>2. Good(queue', clock) /\ \A u : InQueue(queue', u) => InQueue(queue, u)
  BY <1>1, RemoveTimerOK DEF TimerInv
<1> QED
  BY <1>1, <1>2 DEF TimerInv, SettingFits, TickShows

LEMMA TickBeginOK ==
  ASSUME TimerInv, TickBegin
  PROVE  TimerInv'
<1>1. clock' = clock /\ queue' = queue /\ setting' = setting
  BY DEF TickBegin
<1>2. TickShows'
  BY <1>1, ModulusType DEF TickBegin, TickShows, TimerInv, Shows, Moments
<1> QED
  BY <1>1, <1>2 DEF TimerInv, SettingFits

LEMMA TickEndOK ==
  ASSUME TimerInv, TickEnd
  PROVE  TimerInv'
<1>1. clock' = clock /\ queue' = queue /\ setting' = setting
  BY DEF TickEnd
<1>2. TickShows'
  BY <1>1, ModulusType DEF TickEnd, TickShows, TimerInv, Moments
<1> QED
  BY <1>1, <1>2 DEF TimerInv, SettingFits

\* Whatever the callback does, the rest of the list and what it puts there are
\* in order, and a timer that a thread is about to set stays out of it.
LEMMA FireOK ==
  ASSUME TimerInv, Fire
  PROVE  TimerInv'
<1> DEFINE e == Head(queue)
           rest == Tail(queue)
<1>1. clock' = clock /\ tick' = tick /\ setting' = setting /\ tick.on /\ queue # <<>>
  BY DEF Fire, HeadIsDue
<1>2. /\ e \in Entries /\ Fits(e, clock) /\ Good(rest, clock)
      /\ \A u : InQueue(rest, u) => InQueue(queue, u)
      /\ InQueue(queue, e.timer)
  BY <1>1, TailOK DEF TimerInv
<1>3. \/ queue' = Requeue(rest, e, TRUE)
      \/ \E t \in Timers \ {setting.timer} :
           \/ queue' = Requeue(RemoveTimer(rest, t), e, t # e.timer)
           \/ /\ ~InQueue(rest, t)
              /\ \E a \in Arguments :
                   queue' = Requeue(InsertTimer(rest, Entry(t, clock, 0, a.delay, a.period)),
                                    e, TRUE)
  BY DEF Fire
<1> HIDE DEF e, rest
<1> DEFINE Out == /\ Good(queue', clock)
                  /\ \A u : InQueue(queue', u) => InQueue(queue, u) \/ u # setting.timer
<1>4. ASSUME queue' = Requeue(rest, e, TRUE)
      PROVE  Out
  <2>1. Good(queue', clock) /\ \A u : InQueue(queue', u) => InQueue(rest, u) \/ u = e.timer
    BY <1>1, <1>2, <1>4, RequeueOK
  <2> QED
    BY <1>2, <2>1
<1>5. ASSUME NEW t \in Timers \ {setting.timer},
             queue' = Requeue(RemoveTimer(rest, t), e, t # e.timer)
      PROVE  Out
  <2> DEFINE r == RemoveTimer(rest, t)
             kept == t # e.timer
  <2>1. Good(r, clock) /\ \A u : InQueue(r, u) => InQueue(rest, u)
    BY <1>2, RemoveTimerOK
  <2>2. kept \in BOOLEAN /\ queue' = Requeue(r, e, kept)
    BY <1>5
  <2> HIDE DEF r, kept
  <2>3. Good(queue', clock) /\ \A u : InQueue(queue', u) => InQueue(r, u) \/ u = e.timer
    BY <1>1, <1>2, <2>1, <2>2, RequeueOK
  <2> QED
    BY <1>2, <2>1, <2>3
<1>6. ASSUME NEW t \in Timers \ {setting.timer}, ~InQueue(rest, t), NEW a \in Arguments,
             queue' = Requeue(InsertTimer(rest, Entry(t, clock, 0, a.delay, a.period)), e, TRUE)
      PROVE  Out
  <2> DEFINE r == InsertTimer(rest, Entry(t, clock, 0, a.delay, a.period))
  <2>1. Good(r, clock) /\ \A u : InQueue(r, u) <=> InQueue(rest, u) \/ u = t
    BY <1>2, <1>6, InsertFirst
  <2>2. queue' = Requeue(r, e, TRUE)
    BY <1>6
  <2> HIDE DEF r
  <2>3. Good(queue', clock) /\ \A u : InQueue(queue', u) => InQueue(r, u) \/ u = e.timer
    BY <1>1, <1>2, <2>1, <2>2, RequeueOK
  <2> QED
    BY <1>2, <2>1, <2>3
<1>7. Out
  BY <1>3, <1>4, <1>5, <1>6
<1> QED
  BY <1>1, <1>7 DEF TimerInv, SettingFits, TickShows

\* A millisecond later every time shows one millisecond less.
LEMMA OneLater ==
  ASSUME NEW c \in Moments, NEW x \in Moments, NEW l \in Int, Shows(x, c, l),
         -Modulus < 2 * l, 2 * l < Modulus
  PROVE  (c + 1) % Modulus \in Moments /\ Shows(x, (c + 1) % Modulus, l - 1)
<1> DEFINE n == c + 1
<1>1. /\ Modulus \in Nat \ {0} /\ n \in Int /\ -Modulus <= n /\ n < 2 * Modulus
      /\ n = c + 1 /\ n > 0 /\ n <= Modulus
  BY ModulusType DEF Moments
<1> HIDE DEF n
<1>2. n % Modulus = IF n < 0 THEN n + Modulus ELSE IF n >= Modulus THEN n - Modulus ELSE n
  BY <1>1, Wrap
<1> DEFINE v == n % Modulus
<1>3. v = IF n = Modulus THEN 0 ELSE n
  BY <1>1, <1>2
<1> HIDE DEF v
<1>4. v \in Moments /\ Shows(x, v, l - 1)
  BY <1>1, <1>3 DEF Moments, Shows
<1> QED
  BY <1>1, <1>4 DEF v

LEMMA EntryLater ==
  ASSUME NEW c \in Moments, NEW e \in Entries, Fits(e, c), e.left > -MaxLate
  PROVE  /\ [e EXCEPT !.left = @ - 1] \in Entries
         /\ Fits([e EXCEPT !.left = @ - 1], (c + 1) % Modulus)
<1> DEFINE n == [e EXCEPT !.left = @ - 1]
<1>1. /\ e.left \in Int /\ e.time \in Moments /\ Near(e.left) /\ Shows(e.time, c, e.left)
      /\ 2 * (e.period + MaxLate + 1) < Modulus
  BY DEF Entries, Fits
<1>2. Near(e.left - 1)
  BY <1>1, ModulusType DEF Near
<1>3. -Modulus < 2 * e.left /\ 2 * e.left < Modulus
  BY <1>1, ModulusType DEF Near
<1>4. Shows(e.time, (c + 1) % Modulus, e.left - 1)
  BY <1>1, <1>3, OneLater
<1>5. n \in Entries /\ n.left = e.left - 1 /\ n.time = e.time /\ n.period = e.period
  BY <1>1 DEF Entries
<1> HIDE DEF n
<1>6. Fits(n, (c + 1) % Modulus)
  BY <1>1, <1>2, <1>4, <1>5 DEF Fits
<1> QED
  BY <1>5, <1>6 DEF n

LEMMA AdvanceOK ==
  ASSUME TimerInv, Advance
  PROVE  TimerInv'
<1> DEFINE c == (clock + 1) % Modulus
<1>1. /\ clock' = c /\ clock \in Moments /\ Good(queue, clock) /\ SettingFits /\ TickShows
      /\ queue' = [i \in DOMAIN queue |-> [queue[i] EXCEPT !.left = @ - 1]]
  BY DEF Advance, TimerInv
<1>2. c \in Moments
  BY <1>1, ModulusType DEF Moments
<1> HIDE DEF c
<1>3. queue \in Seq(Entries) /\ DOMAIN queue = 1..Len(queue) /\ Len(queue) \in Nat
  BY <1>1 DEF Good
<1>4. ASSUME NEW i \in DOMAIN queue
      PROVE  /\ queue'[i] \in Entries /\ Fits(queue'[i], c) /\ queue[i].left \in Int
             /\ queue'[i].timer = queue[i].timer /\ queue'[i].left = queue[i].left - 1
  <2>1. queue[i] \in Entries /\ Fits(queue[i], clock) /\ queue[i].left > -MaxLate
    BY <1>1, <1>3 DEF Good, Advance
  <2>2. queue'[i] = [queue[i] EXCEPT !.left = @ - 1]
    BY <1>1
  <2>3. queue'[i] \in Entries /\ Fits(queue'[i], c)
    BY <1>1, <2>1, <2>2, EntryLater DEF c
  <2>4. /\ queue[i].left \in Int /\ queue'[i].timer = queue[i].timer
        /\ queue'[i].left = queue[i].left - 1
    BY <2>1, <2>2 DEF Entries
  <2> QED
    BY <2>3, <2>4
<1>5. DOMAIN queue' = DOMAIN queue
  BY <1>1
<1>6. queue' \in Seq(Entries)
  <2>1. queue' = [i \in 1..Len(queue) |-> queue'[i]]
    BY <1>1, <1>3
  <2>2. \A i \in 1..Len(queue) : queue'[i] \in Entries
    BY <1>3, <1>4
  <2> QED
    BY <1>3, <2>1, <2>2, SeqDef
<1>7. Good(queue', c)
  <2>1. Sorted(queue')
    <3> SUFFICES ASSUME NEW i \in DOMAIN queue, NEW j \in DOMAIN queue, i < j
                 PROVE  queue'[i].left <= queue'[j].left
      BY <1>5 DEF Sorted
    <3>1. queue[i].left <= queue[j].left
      BY <1>1 DEF Good, Sorted
    <3> QED
      BY <1>4, <3>1
  <2>2. Single(queue')
    <3> SUFFICES ASSUME NEW i \in DOMAIN queue, NEW j \in DOMAIN queue,
                        queue'[i].timer = queue'[j].timer
                 PROVE  i = j
      BY <1>5 DEF Single
    <3>1. queue[i].timer = queue[j].timer
      BY <1>4
    <3> QED
      BY <1>1, <3>1 DEF Good, Single
  <2> QED
    BY <1>4, <1>5, <1>6, <2>1, <2>2 DEF Good
<1>8. SettingFits'
  <2>1. CASE setting.timer = NoTimer
    <3>1. setting = Idle
      BY <1>1, <2>1, ModulusType DEF SettingFits, Entries
    <3> QED
      BY <2>1, <3>1 DEF Advance, SettingFits, Idle
  <2>2. CASE setting.timer # NoTimer
    <3>1. /\ setting \in Entries /\ Fits(setting, clock) /\ ~InQueue(queue, setting.timer)
          /\ setting.left > -MaxLate /\ setting' = [setting EXCEPT !.left = @ - 1]
      BY <1>1, <2>2 DEF SettingFits, Idle, Advance
    <3>2. setting' \in Entries /\ Fits(setting', c)
      BY <1>1, <3>1, EntryLater DEF c
    <3>3. setting'.timer = setting.timer
      BY <3>1 DEF Entries
    <3>4. ~InQueue(queue', setting.timer)
      BY <1>4, <1>5, <3>1 DEF InQueue
    <3> QED
      BY <1>1, <3>2, <3>3, <3>4 DEF SettingFits
  <2> QED
    BY <2>1, <2>2
<1>9. TickShows'
  <2>1. tick \in [on : BOOLEAN, now : Moments, lag : 0..MaxLate]
    BY <1>1 DEF TickShows
  <2>2. CASE ~tick.on
    BY <2>1, <2>2 DEF Advance, TickShows
  <2>3. CASE tick.on
    <3>1. tick.lag < MaxLate /\ tick' = [tick EXCEPT !.lag = @ + 1] /\ Shows(tick.now, clock, -tick.lag)
      BY <1>1, <2>3 DEF Advance, TickShows
    <3>2. /\ tick' \in [on : BOOLEAN, now : Moments, lag : 0..MaxLate]
          /\ tick'.lag = tick.lag + 1 /\ tick'.now = tick.now
      BY <2>1, <3>1, ModulusType
    <3>3. -Modulus < 2 * (-tick.lag) /\ 2 * (-tick.lag) < Modulus /\ -tick.lag \in Int
      BY <2>1, ModulusType
    <3>4. Shows(tick.now, c, -tick.lag - 1)
      BY <1>1, <2>1, <3>1, <3>3, OneLater DEF c
    <3>5. -tick'.lag = -tick.lag - 1
      BY <2>1, <3>2
    <3> QED
      BY <1>1, <3>2, <3>4, <3>5 DEF TickShows
  <2> QED
    BY <2>2, <2>3
<1> QED
  BY <1>1, <1>2, <1>7, <1>8, <1>9 DEF TimerInv

-----------------------------------------------------------------------------
(* Theorems.                                                               *)

\* The invariant of the timer queue holds for every modulus, all delays within
\* half of it, and callbacks that set and cancel timers.
THEOREM TimerInvariant == TimerSpec => []TimerInv
<1>1. TimerInit => TimerInv
  BY TimerInitOK
<1>2. TimerInv /\ [TimerNext]_timervars => TimerInv'
  <2> SUFFICES ASSUME TimerInv, [TimerNext]_timervars PROVE TimerInv'
    OBVIOUS
  <2>1. ASSUME NEW t \in Timers, NEW a \in Arguments, SetBegin(t, a) PROVE TimerInv'
    BY <2>1, SetBeginOK
  <2>2. ASSUME NEW t \in Timers, Cancel(t) PROVE TimerInv'
    BY <2>2, CancelOK
  <2>3. CASE SetEnd \/ TickBegin \/ Fire
    BY <2>3, SetEndOK, TickBeginOK, FireOK
  <2>4. CASE TickEnd \/ Advance
    BY <2>4, TickEndOK, AdvanceOK
  <2>5. CASE UNCHANGED timervars
    BY <2>5 DEF timervars, TimerInv, SettingFits, TickShows
  <2> QED
    BY <2>1, <2>2, <2>3, <2>4, <2>5 DEF TimerNext
<1> QED
  BY <1>1, <1>2, PTL DEF TimerSpec

\* Types, and a timer is in the list at most once.
THEOREM TimersTyped == TimerSpec => []TimerTypeOK
<1>1. TimerInv => TimerTypeOK
  <2> SUFFICES ASSUME TimerInv PROVE TimerTypeOK
    OBVIOUS
  <2>1. clock \in 0..(Modulus - 1) /\ tick.on \in BOOLEAN
    BY DEF TimerInv, TickShows, Moments
  <2>2. \A i \in DOMAIN queue : queue[i] \in Entries
    BY DEF TimerInv, Good
  <2>3. \A i \in DOMAIN queue :
          /\ queue[i].timer \in Timers
          /\ queue[i].time \in 0..(Modulus - 1)
          /\ queue[i].period \in Nat /\ queue[i].left \in Int
    BY <2>2 DEF Entries, Moments
  <2>4. \A i, j \in DOMAIN queue : queue[i].timer = queue[j].timer => i = j
    BY DEF TimerInv, Good, Single
  <2> QED
    BY <2>1, <2>3, <2>4 DEF TimerTypeOK
<1> QED
  BY <1>1, TimerInvariant, PTL

\* The list is sorted by the true time left, across the wrap of the clock.
THEOREM QueueIsSorted == TimerSpec => []QueueSorted
<1>1. TimerInv => QueueSorted
  BY DEF TimerInv, Good, Sorted, QueueSorted
<1> QED
  BY <1>1, TimerInvariant, PTL

\* The head is due at the argument of the tick when no time is left but what
\* the tick is behind.
LEMMA DueOK ==
  ASSUME TimerInv, tick.on, queue # <<>>
  PROVE  HeadIsDue <=> Head(queue).left + tick.lag <= 0
<1> DEFINE e == Head(queue)
           now == tick.now
           lag == tick.lag
           left == e.left
<1>1. e \in Entries /\ Fits(e, clock)
  BY TailOK DEF TimerInv
<1>2. now \in Moments /\ lag \in 0..MaxLate /\ Shows(now, clock, -lag) /\ clock \in Moments
  BY DEF TimerInv, TickShows
<1> HIDE DEF e
<1>3. e.time \in Moments /\ left \in Int /\ Shows(e.time, clock, left) /\ Near(left)
  BY <1>1 DEF Entries, Fits
<1>4. HeadIsDue <=> ~(SignedDifference(now, e.time) < 0)
  BY DEF HeadIsDue, TimeLT, e
<1> HIDE DEF now, lag, left
<1>5. /\ -lag \in Int /\ clock \in Int /\ 2 * (-lag - left) < Modulus
      /\ 2 * (left - (-lag)) < Modulus
  BY <1>2, <1>3, ModulusType DEF Near, Moments
<1>6. SignedDifference(now, e.time) = -lag - left
  <2> DEFINE m == -lag
             time == e.time
  <2> HIDE DEF m, time
  <2>1. /\ m \in Int /\ Shows(now, clock, m) /\ 2 * (m - left) < Modulus
        /\ 2 * (left - m) < Modulus
    BY <1>2, <1>5 DEF m
  <2>2. time \in Moments /\ Shows(time, clock, left)
    BY <1>3 DEF time
  <2>3. SignedDifference(now, time) = m - left
    BY <1>2, <1>3, <1>5, <2>1, <2>2, Difference
  <2> QED
    BY <2>3 DEF m, time
<1>7. HeadIsDue <=> left + lag <= 0
  BY <1>2, <1>3, <1>4, <1>6
<1> QED
  BY <1>7 DEF e, left, lag

\* No callback runs before its time.
THEOREM TimersAreNeverEarly == TimerSpec => NeverEarly
<1>1. TimerInv /\ [TimerNext]_timervars =>
        [queue # <<>> /\ Fire => Head(queue).left <= 0]_timervars
  <2> SUFFICES ASSUME TimerInv, queue # <<>>, Fire PROVE Head(queue).left <= 0
    OBVIOUS
  <2>1. HeadIsDue /\ tick.on
    BY DEF Fire
  <2>2. Head(queue).left + tick.lag <= 0
    BY <2>1, DueOK
  <2>3. Head(queue) \in Entries
    BY TailOK DEF TimerInv
  <2>4. Head(queue).left \in Int /\ tick.lag \in 0..MaxLate
    BY <2>3 DEF Entries, TimerInv, TickShows
  <2> QED
    BY <2>2, <2>4, ModulusType
<1> QED
  BY <1>1, TimerInvariant, PTL DEF TimerSpec, NeverEarly

\* Looking at the head alone is enough for the handler to leave nothing that
\* was due when it was called.
THEOREM TicksLeaveNothingDue == TimerSpec => TickLeavesNothingDue
<1>1. TimerInv /\ [TimerNext]_timervars =>
        [tick.on /\ ~tick'.on => \A i \in DOMAIN queue : queue[i].left + tick.lag > 0]_timervars
  <2> SUFFICES ASSUME TimerInv, TimerNext, tick.on, ~tick'.on, NEW i \in DOMAIN queue
               PROVE  queue[i].left + tick.lag > 0
    BY DEF timervars
  <2>1. TickEnd
    <3>1. ~Advance
      <4>1. tick \in [on : BOOLEAN, now : Moments, lag : 0..MaxLate]
        BY DEF TimerInv, TickShows
      <4> QED
        BY <4>1 DEF Advance
    <3> QED
      BY <3>1 DEF TimerNext, SetBegin, Cancel, SetEnd, TickBegin, Fire
  <2>2. queue \in Seq(Entries) /\ queue # <<>> /\ DOMAIN queue = 1..Len(queue) /\ Len(queue) \in Nat
    BY DEF TimerInv, Good
  <2>3. /\ ~(Head(queue).left + tick.lag <= 0) /\ Head(queue) = queue[1] /\ 1 \in DOMAIN queue
        /\ Head(queue) \in Entries
    <3>1. ~(Head(queue).left + tick.lag <= 0)
      BY <2>1, <2>2, DueOK DEF TickEnd
    <3>2. Good(queue, clock)
      BY DEF TimerInv
    <3>3. Head(queue) = queue[1] /\ 1 \in DOMAIN queue /\ Head(queue) \in Entries
      BY <2>2, <3>2, TailOK
    <3> QED
      BY <3>1, <3>3
  <2>4. /\ queue[1].left \in Int /\ queue[i].left \in Int /\ tick.lag \in 0..MaxLate
    <3>1. queue[1] \in Entries /\ queue[i] \in Entries
      BY <2>2, <2>3, ElementOfSeq
    <3>2. queue[1].left \in Int /\ queue[i].left \in Int
      BY <3>1 DEF Entries
    <3> QED
      BY <3>2 DEF TimerInv, TickShows
  <2>5. queue[1].left <= queue[i].left
    BY <2>2, <2>3, <2>4 DEF TimerInv, Good, Sorted
  <2> QED
    BY <2>3, <2>4, <2>5, ModulusType
<1> QED
  BY <1>1, TimerInvariant, PTL DEF TimerSpec, TickLeavesNothingDue

-----------------------------------------------------------------------------
(* The timers are alarms.                                                   *)

LEMMA SeenIn ==
  ASSUME NEW list, NEW t
  PROVE  TheAlarms!In(Seens(list), t) <=> InQueue(list, t)
<1>1. \A i \in DOMAIN list : Seen(list[i]) \in Seens(list) /\ Seen(list[i]).timer = list[i].timer
  BY DEF Seens, Seen
<1>2. \A a \in Seens(list) : \E i \in DOMAIN list : a = Seen(list[i])
  BY DEF Seens
<1> QED
  BY <1>1, <1>2 DEF TheAlarms!In, InQueue

LEMMA RequeueIsAgain ==
  ASSUME TimerInv, tick.on, NEW list, Good(list, clock), NEW e \in Entries, Fits(e, clock),
         NEW kept \in BOOLEAN
  PROVE  Seens(Requeue(list, e, kept)) =
           IF kept THEN TheAlarms!Again(Seens(list), Seen(e)) ELSE Seens(list)
<1>1. Seens(Requeue(list, e, kept)) =
        IF e.period > 0 /\ kept /\ ~InQueue(list, e.timer)
        THEN Seens(list) \cup {[timer |-> e.timer, left |-> e.period - tick.lag,
                                period |-> e.period]}
        ELSE Seens(list)
  BY RequeueOK
<1>2. /\ Seen(e).timer = e.timer /\ Seen(e).period = e.period /\ Handler.late = tick.lag
      /\ TheAlarms!In(Seens(list), e.timer) <=> InQueue(list, e.timer)
  BY SeenIn DEF Seen, Handler
<1> QED
  BY <1>1, <1>2 DEF TheAlarms!Again, TheAlarms!Alarm

\* The most overdue alarm is the head of the list.
LEMMA HeadRings ==
  ASSUME TimerInv, tick.on, HeadIsDue
  PROVE  /\ Seen(Head(queue)) \in Pending
         /\ Seen(Head(queue)).left + Handler.late <= 0
         /\ \A b \in Pending : Seen(Head(queue)).left <= b.left
<1> DEFINE e == Head(queue)
<1>1. queue # <<>> /\ Good(queue, clock) /\ DOMAIN queue = 1..Len(queue) /\ Len(queue) \in Nat
  BY DEF HeadIsDue, TimerInv, Good
<1>2. e = queue[1] /\ 1 \in DOMAIN queue
  BY <1>1, TailOK
<1>3. e.left + tick.lag <= 0
  BY <1>1, DueOK
<1> HIDE DEF e
<1>4. Seen(e) \in Pending
  BY <1>2 DEF Pending, Seens
<1>5. ASSUME NEW b \in Pending PROVE e.left <= b.left
  <2>1. PICK i \in DOMAIN queue : b.left = queue[i].left
    BY DEF Pending, Seens, Seen
  <2>2. queue[1] \in Entries
    BY <1>1, <1>2, ElementOfSeq DEF Good
  <2>3. queue[1].left \in Int
    BY <2>2 DEF Entries
  <2>4. i = 1 \/ 1 < i
    BY <1>1
  <2> QED
    BY <1>1, <1>2, <2>1, <2>3, <2>4 DEF Good, Sorted
<1>6. Seen(e).left = e.left /\ Handler.late = tick.lag
  BY DEF Seen, Handler
<1> QED
  BY <1>3, <1>4, <1>5, <1>6 DEF e

LEMMA FireRings ==
  ASSUME TimerInv, Fire
  PROVE  TheAlarms!Next
<1> DEFINE e == Head(queue)
           rest == Tail(queue)
           a == Seen(Head(queue))
<1>1. setting' = setting /\ tick' = tick /\ tick.on /\ HeadIsDue /\ queue # <<>>
  BY DEF Fire, HeadIsDue
<1>2. /\ e \in Entries /\ Fits(e, clock) /\ Good(rest, clock)
      /\ Seens(rest) = {b \in Seens(queue) : b.timer # e.timer}
  <2> DEFINE c == clock
             list == queue
  <2>1. Good(list, c) /\ list # <<>>
    BY <1>1 DEF TimerInv
  <2> HIDE DEF c, list
  <2>2. /\ Head(list) \in Entries /\ Fits(Head(list), c) /\ Good(Tail(list), c)
        /\ Seens(Tail(list)) = {b \in Seens(list) : b.timer # Head(list).timer}
    BY <2>1, TailOK
  <2> QED
    BY <2>2 DEF c, list
<1>3. \/ queue' = Requeue(rest, e, TRUE)
      \/ \E t \in Timers \ {setting.timer} :
           \/ queue' = Requeue(RemoveTimer(rest, t), e, t # e.timer)
           \/ /\ ~InQueue(rest, t)
              /\ \E x \in Arguments :
                   queue' = Requeue(InsertTimer(rest, Entry(t, clock, 0, x.delay, x.period)),
                                    e, TRUE)
  BY DEF Fire
<1>4. /\ Handler.on /\ a \in Pending /\ a.left + Handler.late <= 0
      /\ \A b \in Pending : a.left <= b.left
  BY <1>1, HeadRings DEF Handler
<1>5. a = Seen(e) /\ a.timer = e.timer
  BY DEF Seen
<1>6. UNCHANGED <<Setting, Handler>>
  BY <1>1 DEF Setting, Handler
<1>7. Pending' = Seens(queue') /\ Seens(queue) = Pending
  BY DEF Pending, Seens
<1> HIDE DEF e, rest, a
<1>8. Seens(rest) = TheAlarms!Without(Pending, a.timer)
  BY <1>2, <1>5, <1>7 DEF TheAlarms!Without
<1> DEFINE Out == \/ Pending' = TheAlarms!Again(Seens(rest), a)
                  \/ Pending' = Seens(rest)
                  \/ \E t \in Timers :
                       /\ ~TheAlarms!In(Setting, t)
                       /\ \/ Pending' = TheAlarms!Again(TheAlarms!Without(Seens(rest), t), a)
                          \/ /\ ~TheAlarms!In(Seens(rest), t)
                             /\ \E x \in Arguments :
                                  Pending' = TheAlarms!Again(
                                    Seens(rest) \cup {TheAlarms!Alarm(t, x.delay, x.period)}, a)
<1>9. ASSUME queue' = Requeue(rest, e, TRUE)
      PROVE  Out
  <2> DEFINE r == Requeue(rest, e, TRUE)
  <2>1. Seens(r) = TheAlarms!Again(Seens(rest), a)
    BY <1>1, <1>2, <1>5, RequeueIsAgain
  <2>2. queue' = r
    BY <1>9
  <2> HIDE DEF r
  <2> QED
    BY <1>7, <2>1, <2>2
<1>10. ASSUME NEW t \in Timers \ {setting.timer} PROVE ~TheAlarms!In(Setting, t)
  BY DEF TheAlarms!In, Setting, Seen
<1>11. ASSUME NEW t \in Timers \ {setting.timer},
              queue' = Requeue(RemoveTimer(rest, t), e, t # e.timer)
       PROVE  Out
  <2> DEFINE r == RemoveTimer(rest, t)
             kept == t # e.timer
  <2>1. Good(r, clock) /\ Seens(r) = {b \in Seens(rest) : b.timer # t}
    BY <1>2, RemoveTimerOK
  <2>2. Seens(r) = TheAlarms!Without(Seens(rest), t)
    BY <2>1 DEF TheAlarms!Without
  <2>3. kept \in BOOLEAN /\ queue' = Requeue(r, e, kept) /\ (kept <=> t # e.timer)
    BY <1>11
  <2> HIDE DEF r, kept
  <2>4. Pending' = IF kept THEN TheAlarms!Again(Seens(r), a) ELSE Seens(r)
    BY <1>1, <1>2, <1>5, <1>7, <2>1, <2>3, RequeueIsAgain
  <2>5. CASE kept
    BY <1>10, <2>2, <2>4, <2>5
  <2>6. CASE ~kept
    <3>1. Seens(r) = Seens(rest)
      BY <1>2, <2>1, <2>3, <2>6
    <3> QED
      BY <2>4, <2>6, <3>1
  <2> QED
    BY <2>5, <2>6
<1>12. ASSUME NEW t \in Timers \ {setting.timer}, ~InQueue(rest, t), NEW x \in Arguments,
              queue' = Requeue(InsertTimer(rest, Entry(t, clock, 0, x.delay, x.period)), e, TRUE)
       PROVE  Out
  <2> DEFINE r == InsertTimer(rest, Entry(t, clock, 0, x.delay, x.period))
  <2>1. /\ Good(r, clock)
        /\ Seens(r) = Seens(rest) \cup {[timer |-> t, left |-> x.delay, period |-> x.period]}
    BY <1>2, <1>12, InsertFirst
  <2>2. queue' = Requeue(r, e, TRUE)
    BY <1>12
  <2> HIDE DEF r
  <2>3. Pending' = TheAlarms!Again(Seens(r), a)
    BY <1>1, <1>2, <1>5, <1>7, <2>1, <2>2, RequeueIsAgain
  <2>4. Seens(r) = Seens(rest) \cup {TheAlarms!Alarm(t, x.delay, x.period)}
    BY <2>1 DEF TheAlarms!Alarm
  <2>5. ~TheAlarms!In(Seens(rest), t)
    BY <1>12, SeenIn
  <2> QED
    BY <1>10, <2>3, <2>4, <2>5
<1> HIDE DEF Out
<1>13. Out
  BY <1>3, <1>9, <1>11, <1>12
<1> USE DEF Out
<1>14. TheAlarms!Ring(a)
  BY <1>4, <1>6, <1>8, <1>13 DEF TheAlarms!Ring
<1> QED
  BY <1>4, <1>14 DEF TheAlarms!Next

LEMMA SetBeginAsks ==
  ASSUME TimerInv, NEW t \in Timers, NEW x \in Arguments, SetBegin(t, x)
  PROVE  TheAlarms!Next
<1>1. /\ ~tick.on /\ tick' = tick /\ queue' = queue /\ setting.timer = NoTimer
      /\ ~InQueue(queue, t) /\ setting' = Entry(t, clock, 0, x.delay, x.period)
  BY DEF SetBegin
<1>2. /\ setting'.timer = t /\ t # NoTimer /\ x.delay - 0 = x.delay
      /\ Seen(setting') = TheAlarms!Alarm(t, x.delay - 0, x.period)
  BY <1>1, ModulusType, ArgumentsType DEF Entry, Seen, TheAlarms!Alarm
<1>3. Setting = {} /\ Setting' = {TheAlarms!Alarm(t, x.delay, x.period)}
  BY <1>1, <1>2 DEF Setting, Seen
<1>4. UNCHANGED <<Pending, Handler>> /\ ~Handler.on /\ ~TheAlarms!In(Pending, t)
  BY <1>1, SeenIn DEF Pending, Seens, Handler
<1>5. TheAlarms!Ask(t, x)
  BY <1>3, <1>4 DEF TheAlarms!Ask
<1> QED
  BY <1>5 DEF TheAlarms!Next

LEMMA SetEndSets ==
  ASSUME TimerInv, SetEnd
  PROVE  TheAlarms!Next
<1>1. /\ ~tick.on /\ tick' = tick /\ setting.timer # NoTimer /\ setting'.timer = NoTimer
      /\ queue' = InsertTimer(queue, setting)
  BY DEF SetEnd
<1>2. setting \in Entries /\ Fits(setting, clock) /\ ~InQueue(queue, setting.timer)
  BY <1>1 DEF TimerInv, SettingFits, Idle
<1>3. Seens(InsertTimer(queue, setting)) = Seens(queue) \cup {Seen(setting)}
  BY <1>2, InsertTimerOK DEF TimerInv
<1>4. Setting = {Seen(setting)} /\ Setting' = {} /\ Pending' = Pending \cup Setting
  BY <1>1, <1>3 DEF Setting, Pending, Seens
<1>5. ~Handler.on /\ UNCHANGED Handler
  BY <1>1 DEF Handler
<1>6. TheAlarms!Set
  BY <1>4, <1>5 DEF TheAlarms!Set
<1> QED
  BY <1>6 DEF TheAlarms!Next

LEMMA CancelCancels ==
  ASSUME TimerInv, NEW t \in Timers, Cancel(t)
  PROVE  TheAlarms!Next
<1>1. /\ ~tick.on /\ tick' = tick /\ setting' = setting /\ InQueue(queue, t)
      /\ queue' = RemoveTimer(queue, t)
  BY DEF Cancel
<1>2. Seens(RemoveTimer(queue, t)) = {a \in Seens(queue) : a.timer # t}
  BY RemoveTimerOK DEF TimerInv
<1>3. Pending' = TheAlarms!Without(Pending, t) /\ TheAlarms!In(Pending, t)
  BY <1>1, <1>2, SeenIn DEF Pending, Seens, TheAlarms!Without
<1>4. TheAlarms!Cancel(t)
  BY <1>1, <1>3 DEF TheAlarms!Cancel, Handler, Setting
<1> QED
  BY <1>4 DEF TheAlarms!Next

LEMMA TickEndEnds ==
  ASSUME TimerInv, TickEnd
  PROVE  TheAlarms!Next
<1>1. tick.on /\ ~HeadIsDue /\ queue' = queue /\ setting' = setting
  BY DEF TickEnd
<1>2. ASSUME NEW b \in Pending PROVE b.left + tick.lag > 0
  <2>1. PICK i \in DOMAIN queue : b.left = queue[i].left
    BY DEF Pending, Seens, Seen
  <2>2. /\ queue \in Seq(Entries) /\ queue # <<>> /\ DOMAIN queue = 1..Len(queue)
        /\ Len(queue) \in Nat /\ Good(queue, clock)
    BY DEF TimerInv, Good
  <2>3. /\ ~(Head(queue).left + tick.lag <= 0) /\ Head(queue) = queue[1] /\ 1 \in DOMAIN queue
    BY <1>1, <2>2, DueOK, TailOK
  <2>4. queue[1] \in Entries /\ queue[i] \in Entries
    BY <2>2, <2>3, ElementOfSeq
  <2>5. queue[1].left \in Int /\ queue[i].left \in Int /\ tick.lag \in Int
    BY <2>4 DEF Entries, TimerInv, TickShows
  <2>6. queue[1].left <= queue[i].left
    BY <2>2, <2>3, <2>5 DEF Good, Sorted
  <2> QED
    BY <2>1, <2>3, <2>5, <2>6
<1>3. /\ Handler.on /\ UNCHANGED <<Pending, Setting>> /\ Handler' = [on |-> FALSE, late |-> 0]
      /\ Handler.late = tick.lag
  BY <1>1 DEF TickEnd, Handler, Pending, Seens, Setting
<1>4. TheAlarms!End
  BY <1>2, <1>3 DEF TheAlarms!End
<1> QED
  BY <1>4 DEF TheAlarms!Next

LEMMA AdvancePasses ==
  ASSUME TimerInv, Advance
  PROVE  TheAlarms!Next
<1>1. ASSUME NEW e \in Entries
      PROVE  Seen([e EXCEPT !.left = @ - 1]) = [Seen(e) EXCEPT !.left = @ - 1]
  BY DEF Entries, Seen
<1>2. queue \in Seq(Entries) /\ \A i \in DOMAIN queue : queue[i] \in Entries
  BY ElementOfSeq DEF TimerInv, Good
<1>3. Pending' = TheAlarms!Later(Pending)
  <2>1. /\ DOMAIN queue' = DOMAIN queue
        /\ \A i \in DOMAIN queue : Seen(queue'[i]) = [Seen(queue[i]) EXCEPT !.left = @ - 1]
    BY <1>1, <1>2 DEF Advance
  <2>2. Pending' = {Seen(queue'[i]) : i \in DOMAIN queue}
    BY <2>1 DEF Pending, Seens
  <2>3. TheAlarms!Later(Pending) = {[Seen(queue[i]) EXCEPT !.left = @ - 1] : i \in DOMAIN queue}
    BY DEF TheAlarms!Later, Pending, Seens
  <2> QED
    BY <2>1, <2>2, <2>3
<1>4. Setting' = TheAlarms!Later(Setting)
  <2>1. CASE setting.timer = NoTimer
    BY <2>1 DEF Advance, Setting, TheAlarms!Later
  <2>2. CASE setting.timer # NoTimer
    <3>1. setting \in Entries /\ setting' = [setting EXCEPT !.left = @ - 1]
      BY <2>2 DEF TimerInv, SettingFits, Idle, Advance
    <3>2. setting'.timer = setting.timer
      BY <3>1 DEF Entries
    <3>3. Setting' = {Seen(setting')} /\ Setting = {Seen(setting)}
      BY <2>2, <3>2 DEF Setting
    <3>4. Seen(setting') = [Seen(setting) EXCEPT !.left = @ - 1]
      BY <1>1, <3>1
    <3> QED
      BY <3>3, <3>4 DEF TheAlarms!Later
  <2> QED
    BY <2>1, <2>2
<1>5. Handler' = [Handler EXCEPT !.late = IF Handler.on THEN @ + 1 ELSE @]
  <2>1. tick \in [on : BOOLEAN, now : Moments, lag : 0..MaxLate]
    BY DEF TimerInv, TickShows
  <2> QED
    BY <2>1 DEF Advance, Handler
<1>6. TheAlarms!Pass
  BY <1>3, <1>4, <1>5 DEF TheAlarms!Pass
<1> QED
  BY <1>6 DEF TheAlarms!Next

\* What timers do on a clock that wraps around is what alarms do in true time:
\* each rings when it is due, the most overdue first, whatever its delay and
\* period within half the range of the clock.
THEOREM TimersAreAlarms == TimerSpec => ImplementsAlarms
<1>1. TimerInit => TheAlarms!Init
  BY DEF TimerInit, TheAlarms!Init, Pending, Seens, Setting, Handler
<1>2. TimerInv /\ [TimerNext]_timervars => [TheAlarms!Next]_(TheAlarms!alarmvars)
  <2> SUFFICES ASSUME TimerInv, [TimerNext]_timervars
               PROVE  TheAlarms!Next \/ UNCHANGED TheAlarms!alarmvars
    OBVIOUS
  <2>1. CASE TickBegin
    <3>1. TheAlarms!Begin
      BY <2>1 DEF TickBegin, TheAlarms!Begin, Handler, Pending, Seens, Setting
    <3> QED
      BY <3>1 DEF TheAlarms!Next
  <2>2. CASE UNCHANGED timervars
    BY <2>2 DEF timervars, TheAlarms!alarmvars, Pending, Seens, Setting, Handler
  <2> QED
    BY <2>1, <2>2, SetBeginAsks, SetEndSets, CancelCancels, FireRings, TickEndEnds, AdvancePasses
       DEF TimerNext
<1> QED
  BY <1>1, <1>2, TimerInvariant, PTL DEF TimerSpec, ImplementsAlarms, TheAlarms!Spec
=============================================================================
