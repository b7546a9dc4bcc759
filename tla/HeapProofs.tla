------------------------------ MODULE HeapProofs ------------------------------
(***************************************************************************)
(* The heap, for any length, sizes and alignments: chunks tile it, and     *)
(* what callers are given lies inside its chunk.                           *)
(*                                                                         *)
(* The free list is compared with the words it covers: a step of the list  *)
(* (cutting a chunk, removing, inserting, merging) is described by what it *)
(* does to them, and that chunks stay apart follows.  Last, that the list  *)
(* cannot be seen from outside: the heap implements Arena.                 *)
(***************************************************************************)
EXTENDS Heap, SequenceTheorems, WellFoundedInduction, TLAPS

Inside(c) == Base <= c.at /\ End(c) <= Base + Length

\* A free list in order, with gaps, of chunks that can hold their list node.
Sound(s) ==
  /\ s \in Seq(Chunk)
  /\ \A i, j \in 1..Len(s) : i < j => End(s[i]) < s[j].at
  /\ \A i \in 1..Len(s) : s[i].len >= FreeStruct /\ Inside(s[i])

Covers(s, x) == \E i \in 1..Len(s) : Holds(s[i], x)

\* ChunksTile, for a list s and a set U of chunks, within the heap.
Tiles(s, U) ==
  /\ Sound(s)
  /\ \A a \in U : a.at \in Nat /\ a.len \in Nat /\ a.len >= FreeStruct /\ Inside(a)
  /\ \A a, b \in U : a # b => Apart(a, b)
  /\ \A a \in U : \A i \in 1..Len(s) : Apart(a, s[i])
  /\ \A x \in Memory : (\E a \in U : Holds(a, x)) \/ Covers(s, x)

\* The inductive invariant.
HeapInv == Tiles(free, used) /\ PayloadsFit

-----------------------------------------------------------------------------
(* Arithmetic of chunks.                                                   *)

\* Two chunks that are not apart have a word in common; those that are, none.
LEMMA CommonWord ==
  ASSUME NEW c, NEW d, c.at \in Nat, c.len \in Nat, d.at \in Nat, d.len \in Nat,
         c.len > 0, d.len > 0
  PROVE  Apart(c, d) <=> \A x \in Nat : ~(Holds(c, x) /\ Holds(d, x))
<1>1. ASSUME Apart(c, d), NEW x \in Nat, Holds(c, x), Holds(d, x) PROVE FALSE
  BY <1>1 DEF Apart, Holds, End
<1>2. ASSUME ~Apart(c, d) PROVE \E x \in Nat : Holds(c, x) /\ Holds(d, x)
  <2>1. CASE c.at <= d.at
    BY <1>2, <2>1 DEF Apart, Holds, End
  <2>2. CASE d.at <= c.at
    BY <1>2, <2>2 DEF Apart, Holds, End
  <2> QED
    BY <2>1, <2>2
<1> QED
  BY <1>1, <1>2

\* The elements of a sound list are chunks.
LEMMA SoundElements ==
  ASSUME NEW s, Sound(s)
  PROVE  /\ Len(s) \in Nat
         /\ DOMAIN s = 1..Len(s)
         /\ \A i \in 1..Len(s) : /\ s[i] \in Chunk /\ s[i].at \in Nat /\ s[i].len \in Nat
                                 /\ s[i].len > 0
<1>1. s \in Seq(Chunk) /\ \A i \in 1..Len(s) : s[i].len >= 3
  BY DEF Sound, FreeStruct
<1>2. \A i \in 1..Len(s) : s[i] \in Chunk
  BY <1>1, ElementOfSeq
<1> QED
  BY <1>1, <1>2, LenProperties DEF Chunk

\* Rounding up goes to the next multiple.
LEMMA RoundUpProperties ==
  ASSUME NEW x \in Nat, NEW a \in Nat, a > 0
  PROVE  /\ RoundUp(x, a) \in Nat
         /\ x <= RoundUp(x, a) /\ RoundUp(x, a) < x + a
         /\ RoundUp(x, a) % a = 0
<1> DEFINE y == x + a - 1
           q == y \div a
<1>1. y \in Nat /\ q \in Nat /\ y = a * q + (y % a) /\ y % a \in 0..(a - 1)
  OBVIOUS
<1>2. RoundUp(x, a) = q * a
  BY DEF RoundUp
<1>3. q * a \in Nat /\ a * q = q * a
  BY <1>1
<1>4. (q * a) % a = 0
  BY <1>1
<1> HIDE DEF q
<1> QED
  BY <1>1, <1>2, <1>3, <1>4

-----------------------------------------------------------------------------
(* What a change of the free list must do.                                 *)

\* A chunk that was allocated is now covered by the list, and nothing else.
LEMMA AfterFree ==
  ASSUME NEW s, NEW U, Tiles(s, U), NEW a \in U, NEW t, Sound(t),
         \A x \in Nat : Covers(t, x) <=> Covers(s, x) \/ Holds(a, x),
         HeapAssumption
  PROVE  Tiles(t, U \ {a})
<1>1. ASSUME NEW b \in U \ {a}, NEW j \in 1..Len(t) PROVE Apart(b, t[j])
  <2>1. /\ b.at \in Nat /\ b.len \in Nat /\ b.len > 0 /\ b \in U /\ b # a
        /\ a.at \in Nat /\ a.len \in Nat /\ a.len > 0
        /\ t[j].at \in Nat /\ t[j].len \in Nat /\ t[j].len > 0
    BY SoundElements DEF Tiles, FreeStruct
  <2>2. ASSUME NEW x \in Nat, Holds(b, x), Holds(t[j], x) PROVE FALSE
    <3>1. Covers(t, x)
      BY <2>2 DEF Covers
    <3>2. ~Holds(a, x)
      BY <2>1, <2>2, CommonWord DEF Tiles
    <3>3. PICK i \in 1..Len(s) : Holds(s[i], x)
      BY <3>1, <3>2 DEF Covers
    <3>4. Apart(b, s[i])
      BY <2>1 DEF Tiles
    <3>5. s[i].at \in Nat /\ s[i].len \in Nat /\ s[i].len > 0
      BY SoundElements DEF Tiles
    <3> QED
      BY <2>1, <2>2, <3>3, <3>4, <3>5, CommonWord
  <2> QED
    BY <2>1, <2>2, CommonWord
<1>2. ASSUME NEW x \in Memory
      PROVE (\E b \in U \ {a} : Holds(b, x)) \/ Covers(t, x)
  <2>1. x \in Nat
    BY DEF Memory, HeapAssumption
  <2> QED
    BY <2>1 DEF Tiles
<1> QED
  BY <1>1, <1>2 DEF Tiles

\* A chunk that was covered by the list is now allocated, and nothing else.
LEMMA AfterAlloc ==
  ASSUME NEW s, NEW U, Tiles(s, U), NEW c, NEW t, Sound(t),
         c.at \in Nat, c.len \in Nat, c.len >= FreeStruct, Inside(c),
         \A j \in 1..Len(t) : Apart(c, t[j]),
         \A x \in Nat : Covers(s, x) <=> Covers(t, x) \/ Holds(c, x),
         HeapAssumption
  PROVE  Tiles(t, U \cup {c}) /\ c \notin U
<1>0. c.len > 0
  BY DEF FreeStruct
<1>1. ASSUME NEW b \in U PROVE Apart(b, c) /\ b # c /\ \A j \in 1..Len(t) : Apart(b, t[j])
  <2>1. b.at \in Nat /\ b.len \in Nat /\ b.len > 0
    BY DEF Tiles, FreeStruct
  <2>2. ASSUME NEW x \in Nat, Holds(b, x), Covers(s, x) PROVE FALSE
    <3>1. PICK i \in 1..Len(s) : Holds(s[i], x)
      BY <2>2 DEF Covers
    <3>2. Apart(b, s[i])
      BY DEF Tiles
    <3>3. s[i].at \in Nat /\ s[i].len \in Nat /\ s[i].len > 0
      BY SoundElements DEF Tiles
    <3> QED
      BY <2>1, <2>2, <3>1, <3>2, <3>3, CommonWord
  <2>3. Apart(b, c)
    BY <1>0, <2>1, <2>2, CommonWord
  <2>4. b # c
    BY <2>3, <1>0 DEF Apart, End
  <2>5. ASSUME NEW j \in 1..Len(t) PROVE Apart(b, t[j])
    <3>1. t[j].at \in Nat /\ t[j].len \in Nat /\ t[j].len > 0
      BY SoundElements
    <3>2. \A x \in Nat : Holds(t[j], x) => Covers(s, x)
      BY DEF Covers
    <3> QED
      BY <2>1, <2>2, <3>1, <3>2, CommonWord
  <2> QED
    BY <2>3, <2>4, <2>5
<1>2. \A b \in U : Apart(c, b)
  BY <1>1 DEF Apart
<1>3. ASSUME NEW x \in Memory
      PROVE (\E b \in U \cup {c} : Holds(b, x)) \/ Covers(t, x)
  <2>1. x \in Nat
    BY DEF Memory, HeapAssumption
  <2> QED
    BY <2>1 DEF Tiles
<1>4. \A a, b \in U \cup {c} : a # b => Apart(a, b)
  BY <1>1, <1>2 DEF Tiles
<1>5. \A a \in U \cup {c} : a.at \in Nat /\ a.len \in Nat /\ a.len >= FreeStruct /\ Inside(a)
  BY DEF Tiles
<1> QED
  BY <1>1, <1>3, <1>4, <1>5 DEF Tiles
-----------------------------------------------------------------------------
(* Operations on lists.                                                    *)

LEMMA RemoveAtProperties ==
  ASSUME NEW S, NEW s \in Seq(S), NEW i \in 1..Len(s)
  PROVE  /\ RemoveAt(s, i) \in Seq(S)
         /\ Len(RemoveAt(s, i)) = Len(s) - 1
         /\ \A j \in 1..(Len(s) - 1) : RemoveAt(s, i)[j] = IF j < i THEN s[j] ELSE s[j + 1]
<1>1. /\ Len(s) \in Nat /\ i \in Int
      /\ \A j \in 1..(i - 1) : s[j] \in S
      /\ \A j \in (i + 1)..Len(s) : s[j] \in S
  BY LenProperties, ElementOfSeq
<1> DEFINE a == SubSeq(s, 1, i - 1)
           b == SubSeq(s, i + 1, Len(s))
<1>2. /\ a \in Seq(S) /\ Len(a) = i - 1
      /\ \A j \in 1..(i - 1) : a[j] = s[j]
  BY <1>1, SubSeqProperties
<1>3. /\ b \in Seq(S) /\ Len(b) = Len(s) - i
      /\ \A j \in 1..(Len(s) - i) : b[j] = s[i + j]
  BY <1>1, SubSeqProperties
<1> HIDE DEF a, b
<1>4. /\ a \o b \in Seq(S) /\ Len(a \o b) = Len(a) + Len(b)
      /\ \A j \in 1..(Len(a) + Len(b)) :
           (a \o b)[j] = IF j <= Len(a) THEN a[j] ELSE b[j - Len(a)]
  BY <1>2, <1>3, ConcatProperties
<1>5. RemoveAt(s, i) = a \o b
  BY DEF RemoveAt, a, b
<1>6. ASSUME NEW j \in 1..(Len(s) - 1)
      PROVE  (a \o b)[j] = IF j < i THEN s[j] ELSE s[j + 1]
  <2>1. CASE j < i
    BY <1>1, <1>2, <1>3, <1>4, <2>1
  <2>2. CASE ~(j < i)
    <3>1. (a \o b)[j] = b[j - (i - 1)] /\ j - (i - 1) \in 1..(Len(s) - i)
      BY <1>1, <1>2, <1>3, <1>4, <2>2
    <3> QED
      BY <1>1, <1>3, <2>2, <3>1
  <2> QED
    BY <2>1, <2>2
<1>7. Len(a \o b) = Len(s) - 1
  BY <1>1, <1>2, <1>3, <1>4
<1> QED
  BY <1>4, <1>5, <1>6, <1>7

LEMMA InsertAtProperties ==
  ASSUME NEW S, NEW s \in Seq(S), NEW k \in 1..(Len(s) + 1), NEW e \in S
  PROVE  /\ InsertAt(s, k, e) \in Seq(S)
         /\ Len(InsertAt(s, k, e)) = Len(s) + 1
         /\ \A j \in 1..(Len(s) + 1) :
              InsertAt(s, k, e)[j] = IF j < k THEN s[j] ELSE IF j = k THEN e ELSE s[j - 1]
<1>1. /\ Len(s) \in Nat /\ k \in Int
      /\ \A j \in 1..(k - 1) : s[j] \in S
      /\ \A j \in k..Len(s) : s[j] \in S
  BY LenProperties, ElementOfSeq
<1> DEFINE a == SubSeq(s, 1, k - 1)
           b == SubSeq(s, k, Len(s))
           c == a \o <<e>>
<1>2. /\ a \in Seq(S) /\ Len(a) = k - 1
      /\ \A j \in 1..(k - 1) : a[j] = s[j]
  BY <1>1, SubSeqProperties
<1>3. /\ b \in Seq(S) /\ Len(b) = Len(s) - k + 1
      /\ \A j \in 1..(Len(s) - k + 1) : b[j] = s[k + j - 1]
  BY <1>1, SubSeqProperties
<1>4. /\ <<e>> \in Seq(S) /\ Len(<<e>>) = 1 /\ <<e>>[1] = e
  OBVIOUS
<1> HIDE DEF a, b
<1>5. /\ c \in Seq(S) /\ Len(c) = Len(a) + Len(<<e>>)
      /\ \A j \in 1..(Len(a) + Len(<<e>>)) :
           c[j] = IF j <= Len(a) THEN a[j] ELSE <<e>>[j - Len(a)]
  BY <1>2, <1>4, ConcatProperties
<1> HIDE DEF c
<1>6. /\ Len(c) = k
      /\ \A j \in 1..k : c[j] = IF j < k THEN s[j] ELSE e
  BY <1>1, <1>2, <1>4, <1>5
<1>7. /\ c \o b \in Seq(S) /\ Len(c \o b) = Len(c) + Len(b)
      /\ \A j \in 1..(Len(c) + Len(b)) :
           (c \o b)[j] = IF j <= Len(c) THEN c[j] ELSE b[j - Len(c)]
  <2>1. c \in Seq(S) /\ b \in Seq(S)
    BY <1>3, <1>5
  <2> QED
    BY <2>1, ConcatProperties
<1>8. InsertAt(s, k, e) = c \o b
  BY DEF InsertAt, a, b, c
<1>9. ASSUME NEW j \in 1..(Len(s) + 1)
      PROVE  (c \o b)[j] = IF j < k THEN s[j] ELSE IF j = k THEN e ELSE s[j - 1]
  <2>1. CASE j <= k
    BY <1>1, <1>3, <1>6, <1>7, <2>1
  <2>2. CASE ~(j <= k)
    <3>1. (c \o b)[j] = b[j - k] /\ j - k \in 1..(Len(s) - k + 1)
      BY <1>1, <1>3, <1>6, <1>7, <2>2
    <3> QED
      BY <1>1, <1>3, <2>2, <3>1
  <2> QED
    BY <2>1, <2>2
<1> QED
  BY <1>1, <1>3, <1>6, <1>7, <1>8, <1>9

-----------------------------------------------------------------------------
(* heap_alloc.                                                             *)

\* The lengths that heap_alloc works with.
LEMMA NeededProperties ==
  ASSUME HeapAssumption, NEW size \in Sizes, NEW align \in Alignments
  PROVE  /\ size \in Nat /\ align \in Nat
         /\ Effective(align) \in Nat
         /\ Needed(size, align) \in Nat
         /\ Needed(size, align) >= FreeStruct
         /\ Needed(size, align) >= size + Header + Effective(align)
BY DEF HeapAssumption, Effective, Needed, Header, FreeStruct

\* What is left of a chunk when its front is taken.
LEMMA Remainder ==
  ASSUME NEW at \in Nat, NEW len \in Nat, NEW need \in Nat, len > need + 3
  PROVE  at + need \in Nat /\ len - need \in Nat /\ len - need >= 3
OBVIOUS

\* Chunk i of the list, or the front of it, is taken out.
LEMMA CutTiles ==
  ASSUME HeapAssumption, Tiles(free, used), NEW i \in 1..Len(free),
         NEW need \in Nat, need >= FreeStruct, free[i].len >= need,
         NEW c, c.at = free[i].at, c.len = Taken(i, need)
  PROVE  Tiles(Rest(i, need), used \cup {c}) /\ c \notin used
<1> DEFINE t == Rest(i, need)
<1>1. /\ free \in Seq(Chunk) /\ Len(free) \in Nat
      /\ \A j \in 1..Len(free) : /\ free[j] \in Chunk
                                 /\ free[j].at \in Nat /\ free[j].len \in Nat
                                 /\ free[j].len >= 3 /\ Inside(free[j])
      /\ \A j, k \in 1..Len(free) : j < k => End(free[j]) < free[k].at
  BY SoundElements DEF Tiles, Sound, FreeStruct
<1>e. \A j \in 1..Len(free) : End(free[j]) = free[j].at + free[j].len /\ End(free[j]) \in Nat
  <2>1. ASSUME NEW j \in 1..Len(free)
        PROVE  End(free[j]) = free[j].at + free[j].len /\ End(free[j]) \in Nat
    <3>1. free[j].at \in Nat /\ free[j].len \in Nat
      BY <1>1
    <3>2. End(free[j]) = free[j].at + free[j].len
      BY DEF End
    <3> QED
      BY <3>1, <3>2
  <2> QED
    BY <2>1
<1>i. /\ free[i].at \in Nat /\ free[i].len \in Nat
      /\ End(free[i]) = free[i].at + free[i].len /\ End(free[i]) \in Nat
  BY <1>1, <1>e
<1>2. CASE Splits(i, need)
  <2> DEFINE r == [at |-> free[i].at + need, len |-> free[i].len - need]
  <2>1. r \in Chunk /\ r.at = free[i].at + need /\ r.len = free[i].len - need
        /\ r.len >= 3 /\ End(r) = End(free[i]) /\ c.len = need
    <3>1. free[i].len > need + 3 /\ c.len = need
      BY <1>2 DEF Splits, Taken, FreeStruct
    <3>2. r.at = free[i].at + need /\ r.len = free[i].len - need
      OBVIOUS
    <3>3. r.at \in Nat /\ r.len \in Nat /\ r.len >= 3
      <4> HIDE DEF r
      <4>1. free[i].at + need \in Nat /\ free[i].len - need \in Nat /\ free[i].len - need >= 3
        BY ONLY <1>i, <3>1, need \in Nat, Remainder
      <4> QED
        BY <3>2, <4>1
    <3>4. r \in Chunk
      BY <3>2, <3>3 DEF Chunk
    <3>5. End(r) = r.at + r.len
      BY DEF End
    <3> HIDE DEF r
    <3>6. End(r) = End(free[i])
      <4>1. End(r) = (free[i].at + need) + (free[i].len - need)
        BY <3>2, <3>5
      <4> QED
        BY ONLY <1>i, need \in Nat, <4>1
    <3> QED
      BY <3>1, <3>2, <3>3, <3>4, <3>6
  <2>2. t = [free EXCEPT ![i] = r]
    BY <1>2 DEF Rest
  <2> HIDE DEF r, t
  <2>3. /\ t \in Seq(Chunk) /\ Len(t) = Len(free)
        /\ \A j \in 1..Len(free) : t[j] = IF j = i THEN r ELSE free[j]
    BY <1>1, <2>1, <2>2, ExceptSeq
  <2>4. Inside(r) /\ Inside(c)
    <3>1. Base <= free[i].at /\ End(free[i]) <= Base + Length
      BY <1>1 DEF Inside
    <3>2. c.at = free[i].at /\ c.len = need /\ End(c) = c.at + c.len
      BY <2>1 DEF End
    <3>3. free[i].len > need
      BY <1>i, <1>2 DEF Splits, FreeStruct
    <3>4. Base \in Nat /\ Length \in Nat
      BY HeapAssumption DEF HeapAssumption
    <3>5. Base <= r.at /\ End(r) <= Base + Length
      BY <1>i, <2>1, <3>1, <3>4
    <3>6. Base <= c.at /\ End(c) <= Base + Length
      BY <1>i, <3>1, <3>2, <3>3, <3>4
    <3> QED
      BY <3>5, <3>6 DEF Inside
  <2>5. Sound(t)
    <3>1. ASSUME NEW j \in 1..Len(t), NEW k \in 1..Len(t), j < k PROVE End(t[j]) < t[k].at
      <4>1. j \in 1..Len(free) /\ k \in 1..Len(free) /\ End(free[j]) < free[k].at
        BY <1>1, <2>3, <3>1
      <4>2. End(t[j]) = End(free[j])
        BY <2>1, <2>3, <4>1
      <4>3. t[k].at \in Nat /\ t[k].at >= free[k].at
        BY <1>1, <2>1, <2>3, <4>1
      <4>4. free[k].at \in Nat /\ End(free[j]) \in Nat
        BY <1>1, <1>e, <4>1
      <4> QED
        BY <4>1, <4>2, <4>3, <4>4
    <3> QED
      BY <1>1, <2>1, <2>3, <2>4, <3>1 DEF Sound, FreeStruct
  <2>6. ASSUME NEW j \in 1..Len(t) PROVE Apart(c, t[j])
    <3>1. /\ j < i => End(free[j]) < free[i].at
          /\ i < j => End(free[i]) < free[j].at
      BY <1>1, <2>3
    <3>2. j \in 1..Len(free) /\ End(t[j]) = End(free[j])
      BY <2>1, <2>3
    <3>3. /\ End(c) = free[i].at + need /\ End(c) <= End(free[i])
          /\ t[j].at = IF j = i THEN End(c) ELSE free[j].at
      <4>1. End(c) = free[i].at + need
        BY <2>1 DEF End
      <4>2. t[j].at = IF j = i THEN End(c) ELSE free[j].at
        BY <2>1, <2>3, <3>2, <4>1
      <4>3. /\ free[i].at \in Nat /\ free[i].len \in Nat
            /\ End(free[i]) = free[i].at + free[i].len
        BY <1>1, <1>e
      <4> QED
        BY <4>1, <4>2, <4>3
    <3>4. free[i].at \in Nat /\ free[j].at \in Nat /\ End(free[i]) \in Nat /\ End(free[j]) \in Nat
      BY <1>1, <1>e, <3>2
    <3>5. j < i \/ j = i \/ i < j
      BY <3>2
    <3>6. CASE j < i
      <4>1. End(t[j]) <= c.at
        BY <3>1, <3>2, <3>4, <3>6
      <4> QED
        BY <4>1 DEF Apart
    <3>7. CASE ~(j < i)
      <4>1. End(c) <= t[j].at
        <5>1. CASE j = i
          <6>1. t[j].at = End(c) /\ End(c) = free[i].at + need
            BY <3>3, <5>1
          <6> QED
            BY <3>4, <6>1
        <5>2. CASE i < j
          <6>1. t[j].at = free[j].at /\ End(free[i]) < free[j].at
            BY <3>1, <3>3, <5>2
          <6>2. End(c) <= End(free[i]) /\ End(c) \in Nat
            BY <1>i, <3>3
          <6> QED
            BY <3>4, <6>1, <6>2
        <5> QED
          BY <3>5, <3>7, <5>1, <5>2
      <4> QED
        BY <4>1 DEF Apart
    <3> QED
      BY <3>6, <3>7
  <2>7. \A x \in Nat : Holds(free[i], x) <=> Holds(c, x) \/ Holds(r, x)
    <3>1. /\ free[i].at \in Nat /\ End(free[i]) \in Nat
          /\ c.at = free[i].at /\ End(c) = free[i].at + need /\ End(c) <= End(free[i])
          /\ r.at = End(c) /\ End(r) = End(free[i])
      <4>1. c.at = free[i].at /\ End(c) = free[i].at + need
        BY <2>1 DEF End
      <4>2. End(c) <= End(free[i])
        BY <1>i, <4>1
      <4> QED
        BY <1>i, <2>1, <4>1, <4>2
    <3> QED
      BY <3>1 DEF Holds
  <2>8. \A x \in Nat : Covers(free, x) <=> Covers(t, x) \/ Holds(c, x)
    BY <1>1, <2>3, <2>7 DEF Covers
  <2>9. c.at \in Nat /\ c.len \in Nat /\ c.len >= FreeStruct
    BY <1>1, <2>1
  <2> QED
    BY <2>4, <2>5, <2>6, <2>8, <2>9, AfterAlloc DEF t
<1>3. CASE ~Splits(i, need)
  <2>1. t = RemoveAt(free, i) /\ c.len = free[i].len
    BY <1>3 DEF Rest, Taken
  <2> HIDE DEF t
  <2>2. /\ t \in Seq(Chunk) /\ Len(t) = Len(free) - 1
        /\ \A j \in 1..(Len(free) - 1) : t[j] = IF j < i THEN free[j] ELSE free[j + 1]
    <3>1. free \in Seq(Chunk) /\ i \in 1..Len(free)
      BY <1>1
    <3>2. /\ RemoveAt(free, i) \in Seq(Chunk)
          /\ Len(RemoveAt(free, i)) = Len(free) - 1
          /\ \A j \in 1..(Len(free) - 1) :
               RemoveAt(free, i)[j] = IF j < i THEN free[j] ELSE free[j + 1]
      BY <3>1, RemoveAtProperties
    <3> QED
      BY <2>1, <3>2
  <2>3. Sound(t)
    <3> DEFINE f(j) == IF j < i THEN j ELSE j + 1
    <3>1. ASSUME NEW j \in 1..Len(t), NEW k \in 1..Len(t), j < k PROVE End(t[j]) < t[k].at
      <4>1. f(j) \in 1..Len(free) /\ f(k) \in 1..Len(free) /\ f(j) < f(k)
        BY <1>1, <2>2, <3>1
      <4>2. t[j] = free[f(j)] /\ t[k] = free[f(k)]
        BY <1>1, <2>2
      <4> HIDE DEF f
      <4> QED
        BY <1>1, <4>1, <4>2
    <3>2. ASSUME NEW j \in 1..Len(t) PROVE t[j].len >= 3 /\ Inside(t[j])
      <4>1. f(j) \in 1..Len(free) /\ t[j] = free[f(j)]
        BY <1>1, <2>2
      <4> HIDE DEF f
      <4> QED
        BY <1>1, <4>1
    <3> QED
      BY <2>2, <3>1, <3>2 DEF Sound, FreeStruct
  <2>4. \A j \in 1..Len(t) : Apart(c, t[j])
    <3>1. End(c) = End(free[i])
      BY <2>1 DEF End
    <3>2. ASSUME NEW j \in 1..Len(t), j < i PROVE Apart(c, t[j])
      <4>1. j \in 1..Len(free) /\ t[j] = free[j] /\ End(free[j]) < free[i].at
        BY <1>1, <2>2, <3>2
      <4>2. End(free[j]) \in Nat
        BY <1>e, <4>1
      <4> QED
        BY <1>i, <4>1, <4>2 DEF Apart
    <3>3. ASSUME NEW j \in 1..Len(t), ~(j < i) PROVE Apart(c, t[j])
      <4>1. j + 1 \in 1..Len(free) /\ t[j] = free[j + 1] /\ End(free[i]) < free[j + 1].at
        BY <1>1, <2>2, <3>3
      <4>2. End(c) < t[j].at /\ End(c) \in Nat
        BY <1>i, <3>1, <4>1
      <4>3. t[j].at \in Nat
        BY <1>1, <4>1
      <4> QED
        BY <4>2, <4>3 DEF Apart
    <3> QED
      BY <3>2, <3>3
  <2>5. \A x : Holds(c, x) <=> Holds(free[i], x)
    BY <2>1 DEF Holds, End
  <2>6. \A x \in Nat : Covers(free, x) <=> Covers(t, x) \/ Holds(c, x)
    <3>1. ASSUME NEW x, NEW j \in 1..Len(free), Holds(free[j], x), j < i PROVE Covers(t, x)
      <4>1. j \in 1..Len(t) /\ t[j] = free[j]
        BY <1>1, <2>2, <3>1
      <4> QED
        BY <3>1, <4>1 DEF Covers
    <3>2. ASSUME NEW x, NEW j \in 1..Len(free), Holds(free[j], x), j > i PROVE Covers(t, x)
      <4>1. j - 1 \in 1..Len(t) /\ t[j - 1] = free[j]
        BY <1>1, <2>2, <3>2
      <4> QED
        BY <3>2, <4>1 DEF Covers
    <3>3. ASSUME NEW x, Covers(t, x) PROVE Covers(free, x)
      <4>1. PICK j \in 1..Len(t) : Holds(t[j], x)
        BY <3>3 DEF Covers
      <4>2. /\ j \in 1..Len(free) /\ j + 1 \in 1..Len(free)
            /\ t[j] = free[j] \/ t[j] = free[j + 1]
        BY <1>1, <2>2, <4>1
      <4> QED
        BY <4>1, <4>2 DEF Covers
    <3>4. ASSUME NEW x, Holds(c, x) PROVE Covers(free, x)
      BY <2>5, <3>4 DEF Covers
    <3>5. ASSUME NEW x, Covers(free, x) PROVE Covers(t, x) \/ Holds(c, x)
      <4>1. PICK j \in 1..Len(free) : Holds(free[j], x)
        BY <3>5 DEF Covers
      <4>2. j < i \/ j > i \/ j = i
        BY <1>1
      <4> QED
        BY <2>5, <3>1, <3>2, <4>1, <4>2
    <3> QED
      BY <3>3, <3>4, <3>5
  <2>7. c.at \in Nat /\ c.len \in Nat /\ c.len >= FreeStruct /\ Inside(c)
    BY <1>1, <2>1 DEF FreeStruct, Inside, End
  <2> QED
    BY <2>3, <2>4, <2>6, <2>7, AfterAlloc DEF t
<1> QED
  BY <1>2, <1>3

\* The pointer lies behind the header, the request in front of the end.
LEMMA PointerFits ==
  ASSUME HeapAssumption, NEW size \in Sizes, NEW align \in Alignments, NEW at \in Nat,
         NEW len \in Nat, len >= Needed(size, align)
  PROVE  /\ Pointer(at, align) \in Nat
         /\ at + Header <= Pointer(at, align)
         /\ Pointer(at, align) + size <= at + len
         /\ align > 0 => Pointer(at, align) % align = 0
<1>1. /\ size \in Nat /\ align \in Nat /\ Effective(align) \in Nat
      /\ len >= size + 3 + Effective(align)
  BY NeededProperties DEF Header
<1>2. CASE align = 0
  BY <1>1, <1>2 DEF Pointer, Header, Effective
<1>3. CASE align # 0
  <2> DEFINE e == Effective(align)
             r == RoundUp(at + Header, e)
  <2>1. Pointer(at, align) = r /\ at + Header = at + 3 /\ e \in Nat /\ e > 0
    BY <1>1, <1>3 DEF Pointer, Effective, Header
  <2>2. e = align \/ (e = 4 /\ align \in {1, 2})
    BY <1>1, <1>3 DEF HeapAssumption, Effective
  <2> HIDE DEF e
  <2>3. r \in Nat /\ at + 3 <= r /\ r < at + 3 + e /\ r % e = 0
    BY <2>1, RoundUpProperties
  <2> HIDE DEF r
  <2>4. r % align = 0
    BY <2>2, <2>3
  <2>5. len >= size + 3 + e
    BY <1>1 DEF e
  <2> QED
    BY <1>1, <2>1, <2>3, <2>4, <2>5
<1> QED
  BY <1>2, <1>3

\* What an allocation adds, and what it does to the list.
LEMMA AllocTiles ==
  ASSUME HeapAssumption, HeapInv, NEW size \in Sizes, NEW align \in Alignments,
         NEW i \in 1..Len(free), HeapAlloc(i, size, align)
  PROVE  LET c == Allocated(i, size, align)
         IN  /\ Tiles(free', used') /\ used' = used \cup {c} /\ c \notin used
             /\ c \in Allocation /\ c.size = size
             /\ c.at + Header <= c.ptr
             /\ c.ptr + c.size <= End(c)
             /\ c.align > 0 => c.ptr % c.align = 0
<1> DEFINE need == Needed(size, align)
           c == Allocated(i, size, align)
<1>1. /\ need \in Nat /\ need >= FreeStruct
  BY NeededProperties
<1>2. /\ free[i].len >= need /\ free' = Rest(i, need) /\ used' = used \cup {c}
  BY DEF HeapAlloc, FirstFit
<1>3. /\ c.at = free[i].at /\ c.len = Taken(i, need)
      /\ c.ptr = Pointer(free[i].at, align) /\ c.size = size /\ c.align = align
  BY DEF Allocated
<1>4. free[i].at \in Nat /\ free[i].len \in Nat
  BY SoundElements DEF HeapInv, Tiles
<1> HIDE DEF need, c
<1>5. Tiles(free', used') /\ c \notin used
  BY <1>1, <1>2, <1>3, CutTiles DEF HeapInv
<1>6. c.at \in Nat /\ c.len \in Nat /\ c.len >= need
  BY <1>1, <1>2, <1>3, <1>4 DEF Taken
<1>7. /\ c.ptr \in Nat /\ c.at + Header <= c.ptr /\ c.ptr + c.size <= c.at + c.len
      /\ c.align > 0 => c.ptr % c.align = 0
  <2>1. c.at \in Nat /\ c.len \in Nat /\ c.len >= Needed(size, align)
    BY <1>6 DEF need
  <2>2. /\ Pointer(c.at, align) \in Nat
        /\ c.at + Header <= Pointer(c.at, align)
        /\ Pointer(c.at, align) + size <= c.at + c.len
        /\ align > 0 => Pointer(c.at, align) % align = 0
    BY <2>1, PointerFits
  <2> QED
    BY <1>3, <2>2
<1>8. c \in Allocation
  <2>1. c = [at |-> c.at, len |-> c.len, ptr |-> c.ptr, size |-> c.size, align |-> c.align]
    BY DEF c, Allocated
  <2>2. c.size \in Sizes /\ c.align \in Alignments
    BY <1>3
  <2> QED
    BY <1>6, <1>7, <2>1, <2>2 DEF Allocation
<1> QED
  BY <1>2, <1>3, <1>5, <1>7, <1>8 DEF End, c
-----------------------------------------------------------------------------
(* heap_free.                                                              *)

\* A list in order whose chunks may touch.
Loose(s) ==
  /\ s \in Seq(Chunk)
  /\ \A i, j \in 1..Len(s) : i < j => End(s[i]) <= s[j].at
  /\ \A i \in 1..Len(s) : s[i].len >= FreeStruct /\ Inside(s[i])

LEMMA LooseElements ==
  ASSUME NEW s, Loose(s)
  PROVE  /\ Len(s) \in Nat
         /\ \A i \in 1..Len(s) : /\ s[i] \in Chunk /\ s[i].at \in Nat /\ s[i].len \in Nat
                                 /\ s[i].len >= 3
                                 /\ End(s[i]) = s[i].at + s[i].len /\ End(s[i]) \in Nat
<1>1. s \in Seq(Chunk) /\ \A i \in 1..Len(s) : s[i].len >= 3
  BY DEF Loose, FreeStruct
<1>2. \A i \in 1..Len(s) : s[i] \in Chunk
  BY <1>1, ElementOfSeq
<1> QED
  BY <1>1, <1>2, LenProperties DEF Chunk, End

\* Where no two chunks touch there are gaps.
LEMMA NoTouchIsSound ==
  ASSUME NEW s, Loose(s), \A i : ~Touch(s, i)
  PROVE  Sound(s)
<1>1. ASSUME NEW i \in 1..Len(s), NEW j \in 1..Len(s), i < j PROVE End(s[i]) < s[j].at
  <2>1. /\ Len(s) \in Nat /\ i \in 1..(Len(s) - 1) /\ i + 1 \in 1..Len(s)
    BY <1>1, LooseElements
  <2>2. /\ End(s[i]) \in Nat /\ s[i + 1].at \in Nat /\ s[i + 1].len \in Nat
        /\ End(s[i + 1]) = s[i + 1].at + s[i + 1].len /\ s[j].at \in Nat
    BY <2>1, LooseElements
  <2>3. End(s[i]) <= s[i + 1].at /\ End(s[i]) # s[i + 1].at
    <3>1. i < i + 1
      OBVIOUS
    <3>2. End(s[i]) <= s[i + 1].at
      BY <2>1, <3>1 DEF Loose
    <3>3. End(s[i]) # s[i + 1].at
      BY <2>1 DEF Touch
    <3> QED
      BY <3>2, <3>3
  <2>4. CASE j = i + 1
    BY <2>2, <2>3, <2>4
  <2>5. CASE i + 1 < j
    <3>1. End(s[i + 1]) <= s[j].at
      BY <2>1, <2>5 DEF Loose
    <3> QED
      BY <2>2, <2>3, <3>1
  <2> QED
    BY <1>1, <2>1, <2>4, <2>5
<1> QED
  BY <1>1 DEF Loose, Sound

\* Merging a chunk with the next leaves the words as they are; what touches
\* afterwards has touched before.
LEMMA MergeProperties ==
  ASSUME NEW s, Loose(s), NEW i, Touch(s, i)
  PROVE  /\ Loose(Merge(s, i))
         /\ \A j : Touch(Merge(s, i), j) => IF j < i THEN Touch(s, j) ELSE Touch(s, j + 1)
         /\ \A x \in Nat : Covers(Merge(s, i), x) <=> Covers(s, x)
<1> DEFINE n == Len(s)
           r == [at |-> s[i].at, len |-> s[i].len + s[i + 1].len]
           u == [s EXCEPT ![i] = r]
           t == Merge(s, i)
           f(j) == IF j <= i THEN j ELSE j + 1
<1>1. /\ s \in Seq(Chunk) /\ n \in Nat /\ i \in 1..(n - 1) /\ i \in 1..n /\ i + 1 \in 1..n
      /\ End(s[i]) = s[i + 1].at
  <2>1. n \in Nat /\ s \in Seq(Chunk) /\ i \in 1..(n - 1) /\ End(s[i]) = s[i + 1].at
    BY LooseElements DEF Loose, Touch
  <2> QED
    BY <2>1
<1>2. \A j \in 1..n : /\ s[j] \in Chunk /\ s[j].at \in Nat /\ s[j].len \in Nat /\ s[j].len >= 3
                      /\ End(s[j]) = s[j].at + s[j].len /\ End(s[j]) \in Nat /\ Inside(s[j])
  BY LooseElements DEF Loose
<1>3. /\ r \in Chunk /\ r.at = s[i].at /\ r.len >= 3 /\ End(r) = End(s[i + 1])
      /\ r.at \in Nat /\ r.len \in Nat
  <2>1. /\ s[i].at \in Nat /\ s[i].len \in Nat /\ s[i].len >= 3
        /\ s[i + 1].len \in Nat /\ End(s[i + 1]) = s[i + 1].at + s[i + 1].len
        /\ s[i].at + s[i].len = s[i + 1].at
    BY <1>1, <1>2
  <2> QED
    BY <2>1 DEF Chunk, End
<1>4. t = RemoveAt(u, i + 1)
  BY DEF Merge
<1> HIDE DEF r, t
<1>5. /\ u \in Seq(Chunk) /\ Len(u) = n
      /\ \A j \in 1..n : u[j] = IF j = i THEN r ELSE s[j]
  BY <1>1, <1>3, ExceptSeq
<1> HIDE DEF u
<1>6. /\ t \in Seq(Chunk) /\ Len(t) = n - 1
      /\ \A j \in 1..(n - 1) : t[j] = IF j < i + 1 THEN u[j] ELSE u[j + 1]
  <2>1. i + 1 \in 1..Len(u)
    BY <1>1, <1>5
  <2> QED
    BY <1>4, <1>5, <2>1, RemoveAtProperties
<1>7. ASSUME NEW j \in 1..(n - 1)
      PROVE  /\ j \in Nat /\ f(j) \in 1..n /\ f(j) # i + 1
             /\ t[j] = IF j = i THEN r ELSE s[f(j)]
             /\ t[j].at = s[f(j)].at
             /\ End(t[j]) = IF j = i THEN End(s[i + 1]) ELSE End(s[f(j)])
  <2>1. j \in Nat /\ f(j) \in 1..n /\ f(j) # i + 1 /\ (j = i <=> f(j) = i)
    BY <1>1
  <2>2. t[j] = IF j = i THEN r ELSE s[f(j)]
    <3>1. t[j] = IF j < i + 1 THEN u[j] ELSE u[j + 1]
      BY <1>6
    <3>2. f(j) = IF j < i + 1 THEN j ELSE j + 1
      BY <1>1
    <3>3. t[j] = u[f(j)]
      BY <3>1, <3>2
    <3>4. u[f(j)] = IF f(j) = i THEN r ELSE s[f(j)]
      BY <1>5, <2>1
    <3> QED
      BY <2>1, <3>3, <3>4
  <2> QED
    BY <1>3, <2>1, <2>2
<1>8. Loose(t)
  <2>1. ASSUME NEW j \in 1..(n - 1), NEW k \in 1..(n - 1), j < k PROVE End(t[j]) <= t[k].at
    <3>1. f(j) \in 1..n /\ f(k) \in 1..n /\ f(j) < f(k) /\ (j = i => i + 1 < f(k))
      BY <1>1, <2>1
    <3>2. t[k].at = s[f(k)].at /\ End(t[j]) = IF j = i THEN End(s[i + 1]) ELSE End(s[f(j)])
      BY <1>7
    <3> HIDE DEF f
    <3> QED
      BY <1>1, <3>1, <3>2 DEF Loose
  <2>2. ASSUME NEW j \in 1..(n - 1) PROVE t[j].len >= 3 /\ Inside(t[j])
    <3>1. CASE j = i
      <4>1. t[j] = r
        BY <1>7, <3>1
      <4>2. Inside(s[i]) /\ Inside(s[i + 1])
        BY <1>1, <1>2
      <4> QED
        BY <1>3, <4>1, <4>2 DEF Inside
    <3>2. CASE j # i
      <4>1. f(j) \in 1..n /\ t[j] = s[f(j)]
        BY <1>7, <3>2
      <4> HIDE DEF f
      <4> QED
        BY <1>2, <4>1
    <3> QED
      BY <3>1, <3>2
  <2> QED
    BY <1>6, <2>1, <2>2 DEF Loose, FreeStruct
<1>9. ASSUME NEW j, Touch(t, j) PROVE IF j < i THEN Touch(s, j) ELSE Touch(s, j + 1)
  <2>1. j \in 1..(n - 2) /\ j \in 1..(n - 1) /\ j + 1 \in 1..(n - 1) /\ End(t[j]) = t[j + 1].at
    BY <1>1, <1>6, <1>9 DEF Touch
  <2>2. t[j + 1].at = s[f(j + 1)].at /\ End(t[j]) = IF j = i THEN End(s[i + 1]) ELSE End(s[f(j)])
    BY <1>7, <2>1
  <2>3. CASE j < i
    <3>1. f(j) = j /\ f(j + 1) = j + 1 /\ j # i
      BY <1>1, <2>1, <2>3
    <3> QED
      BY <1>1, <2>1, <2>2, <2>3, <3>1 DEF Touch
  <2>4. CASE ~(j < i)
    <3>1. f(j + 1) = j + 1 + 1 /\ (j # i => f(j) = j + 1) /\ j + 1 \in 1..(n - 1)
      BY <1>1, <2>1, <2>4
    <3> HIDE DEF f
    <3> QED
      BY <1>1, <2>1, <2>2, <2>4, <3>1 DEF Touch
  <2> QED
    BY <2>3, <2>4
<1>10. ASSUME NEW x \in Nat PROVE Covers(t, x) <=> Covers(s, x)
  <2>1. Holds(r, x) <=> Holds(s[i], x) \/ Holds(s[i + 1], x)
    <3>1. /\ s[i].at \in Nat /\ s[i + 1].at \in Nat /\ End(s[i + 1]) \in Nat
          /\ End(s[i]) = s[i + 1].at /\ s[i].at <= s[i + 1].at /\ s[i + 1].at <= End(s[i + 1])
      <4>1. /\ s[i].at \in Nat /\ s[i].len \in Nat /\ End(s[i]) = s[i].at + s[i].len
            /\ s[i + 1].at \in Nat /\ s[i + 1].len \in Nat
            /\ End(s[i + 1]) = s[i + 1].at + s[i + 1].len
        BY <1>1, <1>2
      <4>2. s[i].at + s[i].len = s[i + 1].at
        BY <1>1, <4>1
      <4>3. s[i].at <= s[i + 1].at
        BY <4>1, <4>2
      <4>4. End(s[i + 1]) \in Nat /\ s[i + 1].at <= End(s[i + 1])
        BY <4>1
      <4> QED
        BY <1>1, <4>1, <4>3, <4>4
    <3> QED
      BY <1>3, <3>1 DEF Holds
  <2>2. ASSUME NEW j \in 1..(n - 1), Holds(t[j], x) PROVE Covers(s, x)
    <3>1. CASE j = i
      BY <1>1, <1>7, <2>1, <2>2, <3>1 DEF Covers
    <3>2. CASE j # i
      BY <1>7, <2>2, <3>2 DEF Covers
    <3> QED
      BY <3>1, <3>2
  <2>3. ASSUME NEW m \in 1..n, Holds(s[m], x) PROVE Covers(t, x)
    <3>1. CASE m = i \/ m = i + 1
      <4>1. t[i] = r /\ i \in 1..Len(t)
        BY <1>1, <1>6, <1>7
      <4>2. Holds(r, x)
        BY <2>1, <2>3, <3>1
      <4> QED
        BY <4>1, <4>2 DEF Covers
    <3>2. CASE m < i
      <4>1. m \in 1..(n - 1) /\ f(m) = m /\ m # i
        BY <1>1, <3>2
      <4>2. t[m] = s[m] /\ m \in 1..Len(t)
        BY <1>6, <1>7, <4>1
      <4> QED
        BY <2>3, <4>2 DEF Covers
    <3>3. CASE m > i + 1
      <4>1. m - 1 \in 1..(n - 1) /\ f(m - 1) = m /\ m - 1 # i
        BY <1>1, <3>3
      <4>2. t[m - 1] = s[m] /\ m - 1 \in 1..Len(t)
        BY <1>6, <1>7, <4>1
      <4> QED
        BY <2>3, <4>2 DEF Covers
    <3>4. m < i \/ m = i \/ m = i + 1 \/ m > i + 1
      BY <1>1
    <3> QED
      BY <3>1, <3>2, <3>3, <3>4
  <2>4. ASSUME Covers(t, x) PROVE Covers(s, x)
    BY <1>6, <2>2, <2>4 DEF Covers
  <2>5. ASSUME Covers(s, x) PROVE Covers(t, x)
    BY <2>3, <2>5 DEF Covers
  <2> QED
    BY <2>4, <2>5
<1> QED
  BY <1>8, <1>9, <1>10 DEF t

\* Merging at the only place where chunks touch, if there is one.
LEMMA MergedIsSound ==
  ASSUME NEW s, Loose(s), NEW i \in Int, \A j : Touch(s, j) => j = i
  PROVE  /\ Sound(Merge(s, i))
         /\ \A x \in Nat : Covers(Merge(s, i), x) <=> Covers(s, x)
<1>1. CASE Touch(s, i)
  <2>1. ASSUME NEW j, Touch(Merge(s, i), j) PROVE FALSE
    <3>1. IF j < i THEN Touch(s, j) ELSE Touch(s, j + 1)
      BY <1>1, <2>1, MergeProperties
    <3>2. j \in Int
      BY <1>1, <2>1, MergeProperties, LooseElements DEF Touch
    <3> QED
      BY <3>1, <3>2
  <2> QED
    BY <1>1, <2>1, MergeProperties, NoTouchIsSound
<1>2. CASE ~Touch(s, i)
  <2>1. Merge(s, i) = s /\ \A j : ~Touch(s, j)
    BY <1>2 DEF Merge
  <2> QED
    BY <2>1, NoTouchIsSound
<1> QED
  BY <1>1, <1>2

\* The slot is the one that keeps the addresses in order.
LEMMA SlotFits ==
  ASSUME Tiles(free, used), NEW a \in used, NEW k, Slot(k, a)
  PROVE  /\ k \in 1..(Len(free) + 1)
         /\ \A i \in 1..Len(free) : IF i < k THEN End(free[i]) <= a.at ELSE End(a) <= free[i].at
<1>1. /\ k \in 1..(Len(free) + 1) /\ Len(free) \in Nat
      /\ \A i \in 1..(k - 1) : free[i].at <= a.at
      /\ k <= Len(free) => a.at < free[k].at
  BY SoundElements DEF Slot, Tiles
<1>2. a.at \in Nat /\ a.len \in Nat /\ a.len > 0
  BY DEF Tiles, FreeStruct
<1>3. ASSUME NEW i \in 1..Len(free)
      PROVE  IF i < k THEN End(free[i]) <= a.at ELSE End(a) <= free[i].at
  <2>1. free[i].at \in Nat /\ free[i].len \in Nat /\ free[i].len > 0
    BY SoundElements DEF Tiles
  <2>2. End(a) <= free[i].at \/ End(free[i]) <= a.at
    BY DEF Tiles, Apart
  <2>3. End(a) = a.at + a.len /\ End(free[i]) = free[i].at + free[i].len
    BY DEF End
  <2>4. CASE i < k
    <3>1. free[i].at <= a.at
      BY <1>1, <2>4
    <3> QED
      BY <1>2, <2>1, <2>2, <2>3, <2>4, <3>1
  <2>5. CASE ~(i < k)
    <3>1. k \in 1..Len(free) /\ a.at < free[k].at
      BY <1>1, <2>5
    <3>2. free[k].at <= free[i].at
      <4>1. CASE i = k
        BY <2>1, <4>1
      <4>2. CASE i # k
        <5>1. End(free[k]) < free[i].at
          BY <1>1, <2>5, <3>1, <4>2 DEF Tiles, Sound
        <5>2. free[k].at \in Nat /\ free[k].len \in Nat
          BY <3>1, SoundElements DEF Tiles
        <5>3. End(free[k]) = free[k].at + free[k].len
          BY DEF End
        <5> QED
          BY <2>1, <5>1, <5>2, <5>3
      <4> QED
        BY <4>1, <4>2
    <3>3. free[k].at \in Nat
      BY <3>1, SoundElements DEF Tiles
    <3>4. a.at < free[i].at
      BY <1>2, <2>1, <3>1, <3>2, <3>3
    <3>5. ~(End(free[i]) <= a.at)
      BY <1>2, <2>1, <2>3, <3>4
    <3> QED
      BY <2>2, <2>5, <3>5
  <2> QED
    BY <2>4, <2>5
<1> QED
  BY <1>1, <1>3

\* With the chunk in its slot, only it can touch its neighbours.
LEMMA InsertIsLoose ==
  ASSUME HeapAssumption, Tiles(free, used), NEW a \in used, NEW k, Slot(k, a)
  PROVE  LET s == InsertAt(free, k, [at |-> a.at, len |-> a.len])
         IN  /\ Loose(s)
             /\ \A j : Touch(s, j) => j = k - 1 \/ j = k
             /\ \A x \in Nat : Covers(s, x) <=> Covers(free, x) \/ Holds(a, x)
<1> DEFINE n == Len(free)
           c == [at |-> a.at, len |-> a.len]
           s == InsertAt(free, k, c)
           g(j) == IF j < k THEN j ELSE j - 1
<1>1. /\ k \in 1..(n + 1) /\ n \in Nat /\ free \in Seq(Chunk)
      /\ \A i \in 1..n : IF i < k THEN End(free[i]) <= a.at ELSE End(a) <= free[i].at
  BY SlotFits, SoundElements DEF Tiles, Sound
<1>2. /\ c \in Chunk /\ c.at = a.at /\ c.len = a.len /\ End(c) = End(a) /\ c.len >= 3
      /\ Inside(c)
  BY DEF Tiles, Chunk, End, Inside, FreeStruct
<1>3. \A i \in 1..n : free[i].len >= 3 /\ Inside(free[i])
  BY DEF Tiles, Sound, FreeStruct
<1>4. \A i, j \in 1..n : i < j => End(free[i]) < free[j].at
  BY DEF Tiles, Sound
<1> HIDE DEF c
<1>5. /\ s \in Seq(Chunk) /\ Len(s) = n + 1
      /\ \A j \in 1..(n + 1) : s[j] = IF j < k THEN free[j] ELSE IF j = k THEN c ELSE free[j - 1]
  <2>1. free \in Seq(Chunk) /\ k \in 1..(Len(free) + 1) /\ c \in Chunk
    BY <1>1, <1>2
  <2> HIDE DEF n, s, g
  <2>2. /\ InsertAt(free, k, c) \in Seq(Chunk)
        /\ Len(InsertAt(free, k, c)) = Len(free) + 1
        /\ \A j \in 1..(Len(free) + 1) :
             InsertAt(free, k, c)[j] = IF j < k THEN free[j]
                                       ELSE IF j = k THEN c ELSE free[j - 1]
    BY <2>1, InsertAtProperties
  <2>3. s = InsertAt(free, k, c) /\ n = Len(free)
    BY DEF s, n
  <2> QED
    BY <2>2, <2>3
<1> HIDE DEF s
<1>6. ASSUME NEW j \in 1..(n + 1), j # k
      PROVE  g(j) \in 1..n /\ s[j] = free[g(j)] /\ (j < k <=> g(j) < k)
  <2>1. CASE j < k
    BY <1>1, <1>5, <1>6, <2>1
  <2>2. CASE ~(j < k)
    <3>1. g(j) = j - 1 /\ j - 1 \in 1..n /\ s[j] = free[j - 1]
      BY <1>1, <1>5, <1>6, <2>2
    <3> QED
      BY <1>1, <1>6, <2>2, <3>1
  <2> QED
    BY <2>1, <2>2
<1>7. s[k] = c
  BY <1>1, <1>5
<1>8. \A i \in 1..n : End(free[i]) \in Nat /\ free[i].at \in Nat
  BY SoundElements DEF Tiles, End
<1>9. ASSUME NEW i \in 1..(n + 1), NEW j \in 1..(n + 1), i < j
      PROVE  /\ End(s[i]) <= s[j].at
             /\ i # k /\ j # k => End(s[i]) < s[j].at
  <2>1. CASE i # k /\ j # k
    <3>1. g(i) \in 1..n /\ g(j) \in 1..n /\ g(i) < g(j) /\ s[i] = free[g(i)] /\ s[j] = free[g(j)]
      <4>1. g(i) < g(j)
        BY <1>1, <1>9, <2>1
      <4> QED
        BY <1>6, <2>1, <4>1
    <3> HIDE DEF g
    <3>2. End(s[i]) < s[j].at /\ End(s[i]) \in Nat /\ s[j].at \in Nat
      BY <1>4, <1>8, <3>1
    <3> QED
      BY <3>2
  <2>2. CASE i = k
    <3>1. j # k /\ ~(j < k)
      BY <1>1, <1>9, <2>2
    <3>2. g(j) \in 1..n /\ s[j] = free[g(j)] /\ ~(g(j) < k)
      BY <1>6, <3>1
    <3> HIDE DEF g
    <3>3. End(a) <= s[j].at
      BY <1>1, <3>2
    <3> QED
      BY <1>2, <1>7, <2>2, <3>3
  <2>3. CASE j = k
    <3>1. i # k /\ i < k
      BY <1>1, <1>9, <2>3
    <3>2. g(i) \in 1..n /\ s[i] = free[g(i)] /\ g(i) < k
      BY <1>6, <3>1
    <3> HIDE DEF g
    <3>3. End(s[i]) <= a.at
      BY <1>1, <3>2
    <3> QED
      BY <1>2, <1>7, <2>3, <3>3
  <2> QED
    BY <2>1, <2>2, <2>3
<1>10. Loose(s)
  <2>1. ASSUME NEW j \in 1..(n + 1) PROVE s[j].len >= 3 /\ Inside(s[j])
    <3>1. CASE j = k
      BY <1>2, <1>7, <3>1
    <3>2. CASE j # k
      <4>1. g(j) \in 1..n /\ s[j] = free[g(j)]
        BY <1>6, <3>2
      <4> HIDE DEF g
      <4> QED
        BY <1>3, <4>1
    <3> QED
      BY <3>1, <3>2
  <2> QED
    BY <1>5, <1>9, <2>1 DEF Loose, FreeStruct
<1>11. ASSUME NEW j, Touch(s, j) PROVE j = k - 1 \/ j = k
  <2>1. j \in 1..n /\ End(s[j]) = s[j + 1].at
    BY <1>1, <1>5, <1>11 DEF Touch
  <2>2. SUFFICES ASSUME j # k - 1, j # k PROVE FALSE
    OBVIOUS
  <2>3. j \in 1..(n + 1) /\ j + 1 \in 1..(n + 1) /\ j < j + 1 /\ j + 1 # k
    BY <1>1, <2>1, <2>2
  <2>4. End(s[j]) < s[j + 1].at
    BY <1>9, <2>2, <2>3
  <2>5. End(s[j]) \in Nat
    BY <1>5, <1>10, <2>3, LooseElements
  <2> QED
    BY <2>1, <2>4, <2>5
<1>12. ASSUME NEW x \in Nat PROVE Covers(s, x) <=> Covers(free, x) \/ Holds(a, x)
  <2>1. Holds(c, x) <=> Holds(a, x)
    BY <1>2 DEF Holds
  <2>2. ASSUME NEW j \in 1..(n + 1), Holds(s[j], x) PROVE Covers(free, x) \/ Holds(a, x)
    <3>1. CASE j = k
      BY <1>7, <2>1, <2>2, <3>1
    <3>2. CASE j # k
      BY <1>6, <2>2, <3>2 DEF Covers
    <3> QED
      BY <3>1, <3>2
  <2>3. ASSUME NEW i \in 1..n, Holds(free[i], x) PROVE Covers(s, x)
    <3>1. CASE i < k
      <4>1. i \in 1..Len(s) /\ s[i] = free[i]
        BY <1>1, <1>5, <3>1
      <4> QED
        BY <2>3, <4>1 DEF Covers
    <3>2. CASE ~(i < k)
      <4>1. i + 1 \in 1..(n + 1) /\ i + 1 # k /\ ~(i + 1 < k) /\ (i + 1) - 1 = i
        BY <1>1, <3>2
      <4>2. s[i + 1] = free[i] /\ i + 1 \in 1..Len(s)
        BY <1>5, <4>1
      <4> QED
        BY <2>3, <4>2 DEF Covers
    <3> QED
      BY <3>1, <3>2
  <2>4. ASSUME Holds(a, x) PROVE Covers(s, x)
    <3>1. k \in 1..Len(s) /\ Holds(s[k], x)
      BY <1>1, <1>5, <1>7, <2>1, <2>4
    <3> QED
      BY <3>1 DEF Covers
  <2>5. ASSUME Covers(s, x) PROVE Covers(free, x) \/ Holds(a, x)
    BY <1>5, <2>2, <2>5 DEF Covers
  <2>6. ASSUME Covers(free, x) PROVE Covers(s, x)
    BY <2>3, <2>6 DEF Covers
  <2> QED
    BY <2>4, <2>5, <2>6
<1> QED
  BY <1>10, <1>11, <1>12 DEF s, c

\* The list after heap_insert_free_chunk, and the heap after heap_free.
LEMMA FreeTiles ==
  ASSUME HeapAssumption, Tiles(free, used), NEW a \in used, HeapFree(a)
  PROVE  Tiles(free', used') /\ used' = used \ {a}
<1>1. PICK k \in 1..(Len(free) + 1) :
        Slot(k, a) /\ free' = Inserted(k, [at |-> a.at, len |-> a.len])
  BY DEF HeapFree
<1> DEFINE s == InsertAt(free, k, [at |-> a.at, len |-> a.len])
           t == Merge(s, k - 1)
<1>2. free' = IF Touch(s, k - 1) THEN Merge(t, k - 1) ELSE Merge(s, k)
  BY <1>1 DEF Inserted
<1>3. /\ Loose(s)
      /\ \A j : Touch(s, j) => j = k - 1 \/ j = k
      /\ \A x \in Nat : Covers(s, x) <=> Covers(free, x) \/ Holds(a, x)
  BY <1>1, InsertIsLoose
<1>4. k \in Int
  BY <1>1, SoundElements DEF Tiles
<1> HIDE DEF s, t
<1>5. /\ Sound(free')
      /\ \A x \in Nat : Covers(free', x) <=> Covers(s, x)
  <2>1. CASE Touch(s, k - 1)
    <3>1. /\ Loose(t)
          /\ \A j : Touch(t, j) => IF j < k - 1 THEN Touch(s, j) ELSE Touch(s, j + 1)
          /\ \A x \in Nat : Covers(t, x) <=> Covers(s, x)
      BY <1>3, <2>1, MergeProperties DEF t
    <3>2. ASSUME NEW j, Touch(t, j) PROVE j = k - 1
      <4>1. j \in Int
        BY <3>1, <3>2, LooseElements DEF Touch
      <4> QED
        BY <1>3, <1>4, <3>1, <3>2, <4>1
    <3>3. k - 1 \in Int
      BY <1>4
    <3>4. /\ Sound(Merge(t, k - 1))
          /\ \A x \in Nat : Covers(Merge(t, k - 1), x) <=> Covers(t, x)
      BY <3>1, <3>2, <3>3, MergedIsSound
    <3> QED
      BY <1>2, <2>1, <3>1, <3>4
  <2>2. CASE ~Touch(s, k - 1)
    <3>1. \A j : Touch(s, j) => j = k
      BY <1>3, <2>2
    <3>2. /\ Sound(Merge(s, k))
          /\ \A x \in Nat : Covers(Merge(s, k), x) <=> Covers(s, x)
      BY <1>3, <1>4, <3>1, MergedIsSound
    <3> QED
      BY <1>2, <2>2, <3>2
  <2> QED
    BY <2>1, <2>2
<1>6. \A x \in Nat : Covers(free', x) <=> Covers(free, x) \/ Holds(a, x)
  BY <1>3, <1>5
<1>7. used' = used \ {a}
  BY DEF HeapFree
<1> QED
  BY <1>5, <1>6, <1>7, AfterFree
-----------------------------------------------------------------------------
(* The actions.                                                            *)

LEMMA HeapInitOK ==
  ASSUME HeapAssumption, HeapInit
  PROVE  HeapInv
<1> DEFINE c == [at |-> Base, len |-> Length]
<1>1. /\ Base \in Nat /\ Length \in Nat /\ Length >= 3
      /\ c \in Chunk /\ c.at = Base /\ c.len = Length /\ End(c) = Base + Length
  BY DEF HeapInit, HeapAssumption, FreeStruct, Chunk, End
<1> HIDE DEF c
<1>2. /\ free = <<c>> /\ used = {} /\ moving = {}
  BY DEF HeapInit, c
<1>3. /\ free \in Seq(Chunk) /\ Len(free) = 1 /\ free[1] = c
  BY <1>1, <1>2
<1>4. \A i \in 1..Len(free) : i = 1 /\ free[i] = c
  BY <1>3
<1>5. Sound(free)
  BY <1>1, <1>3, <1>4 DEF Sound, FreeStruct, Inside
<1>6. ASSUME NEW x \in Memory PROVE Covers(free, x)
  <2>1. Holds(c, x)
    BY <1>1 DEF Memory, Holds
  <2> QED
    BY <1>3, <2>1 DEF Covers
<1> QED
  BY <1>2, <1>5, <1>6 DEF HeapInv, Tiles, PayloadsFit

LEMMA AllocOK ==
  ASSUME HeapAssumption, HeapInv, Alloc
  PROVE  HeapInv'
<1>1. PICK size \in Sizes, align \in Alignments, i \in 1..Len(free) : HeapAlloc(i, size, align)
  BY DEF Alloc
<1> DEFINE c == Allocated(i, size, align)
<1>2. /\ Tiles(free', used') /\ used' = used \cup {c} /\ c \in Allocation
      /\ c.at + Header <= c.ptr /\ c.ptr + c.size <= End(c)
      /\ c.align > 0 => c.ptr % c.align = 0
  BY <1>1, AllocTiles
<1> HIDE DEF c
<1>3. moving' = moving
  BY DEF Alloc
<1>4. PayloadsFit'
  BY <1>2, <1>3 DEF HeapInv, PayloadsFit
<1> QED
  BY <1>2, <1>4 DEF HeapInv, Tiles, Sound, Covers

LEMMA FreeOK ==
  ASSUME HeapAssumption, HeapInv, Free
  PROVE  HeapInv'
<1>1. PICK a \in used : ~Moving(a) /\ HeapFree(a)
  BY DEF Free
<1>2. Tiles(free', used') /\ used' = used \ {a} /\ moving' = moving
  BY <1>1, FreeTiles DEF HeapInv, Free
<1>3. \A m \in moving : a # m.from /\ a # m.to
  BY <1>1 DEF Moving
<1>4. PayloadsFit'
  BY <1>2, <1>3 DEF HeapInv, PayloadsFit
<1> QED
  BY <1>2, <1>4 DEF HeapInv, Tiles, Sound, Covers

LEMMA ReallocBeginOK ==
  ASSUME HeapAssumption, HeapInv, ReallocBegin
  PROVE  HeapInv'
<1>1. PICK a \in used, size \in Sizes \ {0}, i \in 1..Len(free) :
        /\ ~Moving(a)
        /\ HeapAlloc(i, size, 0)
        /\ moving' = moving \cup {[from |-> a, to |-> Allocated(i, size, 0)]}
  BY DEF ReallocBegin
<1> DEFINE c == Allocated(i, size, 0)
           r == [from |-> a, to |-> c]
<1>0. 0 \in Alignments
  BY DEF HeapAssumption
<1>2. /\ Tiles(free', used') /\ used' = used \cup {c} /\ c \notin used /\ c \in Allocation
      /\ c.at + Header <= c.ptr /\ c.ptr + c.size <= End(c) /\ c.size = size
      /\ c.align > 0 => c.ptr % c.align = 0
  BY <1>0, <1>1, AllocTiles
<1> HIDE DEF c
<1>3. r.from = a /\ r.to = c /\ moving' = moving \cup {r}
  BY <1>1 DEF c
<1> HIDE DEF r
<1>4. \A m \in moving : a # m.from /\ a # m.to
  BY <1>1 DEF Moving
<1>5. \A m \in moving : {m.from, m.to} \subseteq used /\ m.to.size # 0
  BY DEF HeapInv, PayloadsFit
<1>6. \A m \in moving : {m.from, m.to} \cap {r.from, r.to} = {}
  BY <1>2, <1>3, <1>4, <1>5
<1>7. /\ \A m \in moving' : {m.from, m.to} \subseteq used' /\ m.to.size # 0
      /\ \A m, n \in moving' : m # n => {m.from, m.to} \cap {n.from, n.to} = {}
  <2>1. \A m, n \in moving : m # n => {m.from, m.to} \cap {n.from, n.to} = {}
    BY DEF HeapInv, PayloadsFit
  <2>2. {r.from, r.to} \subseteq used' /\ r.to.size # 0
    BY <1>1, <1>2, <1>3
  <2>3. ASSUME NEW m \in moving', NEW n \in moving', m # n
        PROVE  {m.from, m.to} \cap {n.from, n.to} = {}
    <3>1. CASE m \in moving /\ n \in moving
      BY <2>1, <2>3, <3>1
    <3>2. CASE m = r \/ n = r
      BY <1>3, <1>6, <2>3, <3>2
    <3> QED
      BY <1>3, <3>1, <3>2
  <2>4. \A m \in moving' : {m.from, m.to} \subseteq used' /\ m.to.size # 0
    BY <1>2, <1>3, <1>5, <2>2
  <2> QED
    BY <2>3, <2>4
<1>8. PayloadsFit'
  <2>1. used' \subseteq Allocation
    BY <1>2 DEF HeapInv, PayloadsFit
  <2>2. \A b \in used' : /\ b.at + Header <= b.ptr /\ b.ptr + b.size <= End(b)
                         /\ b.align > 0 => b.ptr % b.align = 0
    BY <1>2 DEF HeapInv, PayloadsFit
  <2> QED
    BY <1>7, <2>1, <2>2 DEF PayloadsFit
<1> QED
  BY <1>2, <1>8 DEF HeapInv, Tiles, Sound, Covers

LEMMA ReallocEndOK ==
  ASSUME HeapAssumption, HeapInv, ReallocEnd
  PROVE  HeapInv'
<1>1. PICK m \in moving : HeapFree(m.from) /\ moving' = moving \ {m}
  BY DEF ReallocEnd
<1>2. m.from \in used
  BY DEF HeapInv, PayloadsFit
<1>3. Tiles(free', used') /\ used' = used \ {m.from}
  BY <1>1, <1>2, FreeTiles DEF HeapInv
<1>4. \A n \in moving' : n \in moving /\ m.from # n.from /\ m.from # n.to
  BY <1>1 DEF HeapInv, PayloadsFit
<1>5. PayloadsFit'
  BY <1>1, <1>3, <1>4 DEF HeapInv, PayloadsFit
<1> QED
  BY <1>3, <1>5 DEF HeapInv, Tiles, Sound, Covers

LEMMA TilesIsChunksTile == HeapInv => ChunksTile
<1> SUFFICES ASSUME HeapInv PROVE ChunksTile
  OBVIOUS
<1>1. DOMAIN free = 1..Len(free) /\ free \in Seq(Chunk)
  BY SoundElements DEF HeapInv, Tiles, Sound
<1> QED
  BY <1>1 DEF HeapInv, Tiles, Sound, Covers, ChunksTile

-----------------------------------------------------------------------------
(* The theorems.                                                           *)

\* For any heap, sizes and alignments, HeapInv holds throughout, whatever the
\* order of the calls of heap_alloc, heap_free and heap_realloc.
THEOREM HeapInvariant == HeapSpec => []HeapInv
<1> USE HeapAssumption
<1>1. HeapInit => HeapInv
  BY HeapInitOK
<1>2. HeapInv /\ [HeapNext]_heapvars => HeapInv'
  <2> SUFFICES ASSUME HeapInv, [HeapNext]_heapvars PROVE HeapInv'
    OBVIOUS
  <2>1. CASE Alloc
    BY <2>1, AllocOK
  <2>2. CASE Free
    BY <2>2, FreeOK
  <2>3. CASE ReallocBegin
    BY <2>3, ReallocBeginOK
  <2>4. CASE ReallocEnd
    BY <2>4, ReallocEndOK
  <2>5. CASE UNCHANGED heapvars
    BY <2>5 DEF heapvars, HeapInv, Tiles, Sound, Covers, PayloadsFit
  <2> QED
    BY <2>1, <2>2, <2>3, <2>4, <2>5 DEF HeapNext
<1> QED
  BY <1>1, <1>2, PTL DEF HeapSpec

\* The chunks tile the heap: sorted, merged, disjoint, and nothing leaks.
THEOREM HeapIsTiled == HeapSpec => []ChunksTile
<1>1. HeapSpec => []HeapInv
  BY HeapInvariant
<1> QED
  BY <1>1, TilesIsChunksTile, PTL

\* What callers are given lies in its chunk, aligned, and a realloc has both of
\* its allocations to itself.
THEOREM PayloadsAreInside == HeapSpec => []PayloadsFit
<1>1. HeapSpec => []HeapInv
  BY HeapInvariant
<1>2. HeapInv => PayloadsFit
  BY DEF HeapInv
<1> QED
  BY <1>1, <1>2, PTL

\* When everything has been freed the heap is one chunk again, whatever the
\* order in which it was freed.
THEOREM HeapComesTogether == HeapSpec => []EmptiedHeapIsWhole
<1> USE HeapAssumption
<1>1. HeapSpec => []HeapInv
  BY HeapInvariant
<1>2. ASSUME HeapInv, used = {} PROVE free = <<[at |-> Base, len |-> Length]>>
  <2>1. /\ Base \in Nat /\ Length \in Nat /\ Length >= 3
        /\ \A x \in Memory : Covers(free, x)
    BY <1>2 DEF HeapAssumption, FreeStruct, HeapInv, Tiles
  <2>2. /\ Len(free) \in Nat /\ free \in Seq(Chunk)
        /\ \A j \in 1..Len(free) :
             /\ free[j] \in Chunk /\ free[j].at \in Nat /\ free[j].len \in Nat /\ free[j].len > 0
             /\ Base <= free[j].at /\ End(free[j]) <= Base + Length
    BY <1>2, SoundElements DEF HeapInv, Tiles, Sound, Inside
  <2>3. \A j, k \in 1..Len(free) : j < k => End(free[j]) < free[k].at
    BY <1>2 DEF HeapInv, Tiles, Sound
  <2>4. \A j \in 1..Len(free) : End(free[j]) = free[j].at + free[j].len
    BY DEF End
  <2>5. PICK i \in 1..Len(free) : Holds(free[i], Base)
    BY <2>1 DEF Memory, Covers
  <2>6. free[i].at = Base
    BY <2>1, <2>2, <2>5 DEF Holds
  <2>7. ASSUME NEW j \in 1..Len(free), j < i PROVE FALSE
    <3>1. /\ End(free[j]) < free[i].at /\ End(free[j]) = free[j].at + free[j].len
          /\ free[j].at \in Nat /\ free[j].len \in Nat /\ Base <= free[j].at
      BY <2>2, <2>3, <2>4, <2>7
    <3> QED
      BY <2>1, <2>6, <3>1
  <2>8. i = 1
    <3>1. 1 \in 1..Len(free)
      BY <2>2, <2>5
    <3> QED
      BY <2>2, <2>5, <2>7, <3>1
  <2>9. End(free[1]) = Base + Length
    <3> SUFFICES ASSUME End(free[1]) # Base + Length PROVE FALSE
      OBVIOUS
    <3> DEFINE x == End(free[1])
    <3>1. /\ 1 \in 1..Len(free) /\ x = Base + free[1].len /\ free[1].len \in Nat
          /\ x <= Base + Length
      BY <2>2, <2>4, <2>5, <2>6, <2>8
    <3>2. x \in Memory /\ x \in Nat
      BY <2>1, <3>1 DEF Memory
    <3>3. PICK j \in 1..Len(free) : Holds(free[j], x)
      BY <2>1, <3>2 DEF Covers
    <3>4. CASE j = 1
      BY <3>2, <3>3, <3>4 DEF Holds
    <3>5. CASE j # 1
      <4>1. 1 < j
        BY <2>2, <3>5
      <4>2. x < free[j].at
        BY <2>3, <3>1, <4>1
      <4>3. free[j].at \in Nat /\ free[j].at <= x
        BY <2>2, <3>3 DEF Holds
      <4> QED
        BY <3>2, <4>2, <4>3
    <3> QED
      BY <3>4, <3>5
  <2>10. Len(free) = 1
    <3> SUFFICES ASSUME Len(free) # 1 PROVE FALSE
      OBVIOUS
    <3> DEFINE n == Len(free)
    <3>a. n \in Nat /\ 1 \in 1..n /\ n # 1
      BY <2>2, <2>5, <2>8
    <3> HIDE DEF n
    <3>b. 1 \in 1..n /\ 2 \in 1..n
      BY <3>a
    <3>1. 1 \in 1..Len(free) /\ 2 \in 1..Len(free)
      BY <3>b DEF n
    <3>2. End(free[1]) < free[2].at
      BY <2>3, <3>1
    <3>3. /\ free[2].at \in Nat /\ free[2].len \in Nat
          /\ End(free[2]) = free[2].at + free[2].len /\ End(free[2]) <= Base + Length
      BY <2>2, <2>4, <3>1
    <3> QED
      BY <2>1, <2>9, <3>2, <3>3
  <2>11. free[1] = [at |-> Base, len |-> Length]
    <3>1. /\ 1 \in 1..Len(free) /\ free[1] \in Chunk /\ free[1].at = Base /\ free[1].len \in Nat
          /\ free[1].at + free[1].len = Base + Length
      BY <2>2, <2>4, <2>6, <2>8, <2>9, <2>10
    <3>2. free[1].len = Length
      BY <2>1, <3>1
    <3> QED
      BY <3>1, <3>2 DEF Chunk
  <2> QED
    BY <2>2, <2>10, <2>11
<1>3. HeapInv => EmptiedHeapIsWhole
  BY <1>2 DEF EmptiedHeapIsWhole
<1> QED
  BY <1>1, <1>3, PTL

-----------------------------------------------------------------------------
(* The heap is an arena.                                                    *)

\* The chunks of the free list, as numbers.
LEMMA FreeChunks ==
  ASSUME HeapInv
  PROVE  /\ Len(free) \in Nat
         /\ \A i \in 1..Len(free) :
              /\ free[i].at \in Nat /\ free[i].len \in Nat /\ free[i].len > 0
              /\ End(free[i]) \in Nat /\ End(free[i]) = free[i].at + free[i].len
              /\ Base <= free[i].at /\ End(free[i]) <= Base + Length
         /\ \A i, j \in 1..Len(free) : i < j => End(free[i]) < free[j].at
<1>1. Sound(free)
  BY DEF HeapInv, Tiles
<1> QED
  BY <1>1, SoundElements DEF Sound, Inside, End

\* A word that is in two chunks of the free list is in one.
LEMMA OneChunk ==
  ASSUME HeapAssumption, HeapInv, NEW x \in Nat, NEW i \in 1..Len(free), NEW j \in 1..Len(free),
         Holds(free[i], x), Holds(free[j], x)
  PROVE  i = j
<1> DEFINE ilo == free[i].at
           ihi == End(free[i])
           jlo == free[j].at
           jhi == End(free[j])
<1>1. ilo \in Nat /\ ihi \in Nat /\ jlo \in Nat /\ jhi \in Nat
  BY FreeChunks
<1>2. (i < j => ihi < jlo) /\ (j < i => jhi < ilo)
  BY FreeChunks
<1>3. ilo <= x /\ x < ihi /\ jlo <= x /\ x < jhi
  BY DEF Holds
<1> HIDE DEF ilo, ihi, jlo, jhi
<1>4. ~(i < j) /\ ~(j < i)
  BY <1>1, <1>2, <1>3
<1> QED
  BY <1>4

LEMMA RoomIs ==
  ASSUME NEW x, NEW n
  PROVE  TheArena!Room(x, n) <=>
           /\ Base <= x /\ x + n <= Base + Length
           /\ \A a \in used : End(a) <= x \/ x + n <= a.at
<1>1. \A a \in used : /\ Block(a) \in Blocks /\ Block(a).at = a.at
                      /\ Block(a).at + Block(a).len = End(a)
  BY DEF Blocks, Block, End
<1>2. \A b \in Blocks : \E a \in used : b = Block(a)
  BY DEF Blocks
<1> QED
  BY <1>1, <1>2 DEF TheArena!Room

\* Memory that is not in use, as long as it is in one piece, is in one chunk.
LEMMA RoomIsChunk ==
  ASSUME HeapAssumption, HeapInv, NEW x \in Nat, NEW n \in Nat, n > 0
  PROVE  TheArena!Room(x, n) <=>
           \E i \in 1..Len(free) : free[i].at <= x /\ x + n <= End(free[i])
<1>1. /\ Base \in Nat /\ Length \in Nat
      /\ \A a \in used : a.at \in Nat /\ a.len \in Nat /\ End(a) = a.at + a.len /\ End(a) \in Nat
      /\ \A y \in Memory : (\E a \in used : Holds(a, y)) \/ (\E i \in 1..Len(free) : Holds(free[i], y))
  BY DEF HeapAssumption, HeapInv, Tiles, Covers, End
<1>2. ASSUME NEW i \in 1..Len(free), free[i].at <= x, x + n <= End(free[i])
      PROVE  TheArena!Room(x, n)
  <2>1. /\ free[i].at \in Nat /\ End(free[i]) \in Nat
        /\ Base <= free[i].at /\ End(free[i]) <= Base + Length
    BY FreeChunks
  <2>2. Base <= x /\ x + n <= Base + Length
    BY <1>1, <1>2, <2>1
  <2>3. ASSUME NEW a \in used PROVE End(a) <= x \/ x + n <= a.at
    <3>1. End(a) <= free[i].at \/ End(free[i]) <= a.at
      BY DEF HeapInv, Tiles, Apart
    <3>2. a.at \in Nat /\ End(a) \in Nat /\ End(free[i]) \in Nat
      BY <1>1, <2>1
    <3> DEFINE lo == free[i].at
               hi == End(free[i])
               alo == a.at
               ahi == End(a)
    <3>3. /\ lo \in Nat /\ hi \in Nat /\ alo \in Nat /\ ahi \in Nat
          /\ lo <= x /\ x + n <= hi /\ (ahi <= lo \/ hi <= alo)
      BY <1>2, <2>1, <3>1, <3>2
    <3> HIDE DEF lo, hi, alo, ahi
    <3>4. ahi <= x \/ x + n <= alo
      BY <3>3
    <3> QED
      BY <3>4 DEF alo, ahi
  <2> QED
    BY <2>2, <2>3, RoomIs
<1>3. ASSUME TheArena!Room(x, n)
      PROVE  \E i \in 1..Len(free) : free[i].at <= x /\ x + n <= End(free[i])
  <2>1. /\ Base <= x /\ x + n <= Base + Length
        /\ \A a \in used : End(a) <= x \/ x + n <= a.at
    BY <1>3, RoomIs
  <2>2. ASSUME NEW y \in Nat, x <= y, y < x + n
        PROVE  \E i \in 1..Len(free) : Holds(free[i], y)
    <3>1. y \in Memory
      BY <1>1, <2>1, <2>2 DEF Memory
    <3>2. ASSUME NEW a \in used, Holds(a, y) PROVE FALSE
      <4>1. /\ End(a) <= x \/ x + n <= a.at
            /\ a.at <= y /\ y < End(a)
            /\ a.at \in Nat /\ End(a) \in Nat
        BY <1>1, <2>1, <3>2 DEF Holds
      <4> QED
        BY <2>2, <4>1
    <3> QED
      BY <1>1, <3>1, <3>2
  <2>3. PICK i \in 1..Len(free) : Holds(free[i], x)
    BY <2>2
  <2>4. /\ free[i].at \in Nat /\ free[i].len \in Nat /\ End(free[i]) = free[i].at + free[i].len
        /\ free[i].at <= x /\ x < End(free[i])
    BY <2>3, FreeChunks DEF Holds
  <2>5. CASE x + n <= End(free[i])
    BY <2>4, <2>5
  <2>6. CASE End(free[i]) < x + n
    <3> DEFINE y == End(free[i])
    <3>1. y \in Nat /\ x <= y /\ y < x + n
      BY <2>4, <2>6
    <3> HIDE DEF y
    <3>2. PICK j \in 1..Len(free) : Holds(free[j], y)
      BY <2>2, <3>1
    <3> DEFINE lo == free[j].at
               hi == End(free[j])
               ilo == free[i].at
    <3>3. /\ lo \in Nat /\ hi \in Nat /\ ilo \in Nat /\ lo <= y /\ y < hi /\ ilo <= x
          /\ i < j => y < lo
          /\ j < i => hi < ilo
          /\ i = j => hi = y
      BY <2>4, <3>2, FreeChunks DEF Holds, y
    <3> HIDE DEF lo, hi, ilo
    <3>4. ~(i < j) /\ ~(j < i) /\ i # j
      BY <3>1, <3>3
    <3> QED
      BY <3>4
  <2> QED
    BY <2>4, <2>5, <2>6
<1> QED
  BY <1>2, <1>3

\* heap_alloc takes the lowest place where there is room.
LEMMA AllocTakes ==
  ASSUME HeapAssumption, HeapInv, NEW size \in Sizes, NEW align \in Alignments,
         NEW i \in 1..Len(free), HeapAlloc(i, size, align)
  PROVE  TheArena!Next
<1> DEFINE n == Needed(size, align)
           x == free[i].at
           w == free[i].len
           e == End(free[i])
           m == Taken(i, n)
           c == Allocated(i, size, align)
<1>1. /\ n \in Nat /\ n >= 3 /\ x \in Nat /\ w \in Nat /\ e = x + w /\ Base <= x /\ e <= Base + Length
      /\ Base \in Nat /\ Length \in Nat
  BY NeededProperties, FreeChunks DEF HeapAssumption, FreeStruct
<1>2. w >= n /\ \A j \in 1..(i - 1) : free[j].len < n
  BY DEF HeapAlloc, FirstFit
<1>3. Blocks' = Blocks \cup {[at |-> x, len |-> m]}
  <2>1. used' = used \cup {c} /\ Block(c) = [at |-> x, len |-> m]
    BY DEF HeapAlloc, Allocated, Block
  <2> QED
    BY <2>1 DEF Blocks, Block
<1>4. IF w > n + 3 THEN m = n ELSE m = w
  BY DEF Taken, Splits, FreeStruct
<1>5. Holds(free[i], x)
  <2>1. x <= x /\ x < e
    BY <1>1, <1>2
  <2> QED
    BY <2>1 DEF Holds
\* The chunks before and behind it.
<1>6. ASSUME NEW j \in 1..Len(free)
      PROVE  /\ free[j].at \in Nat /\ free[j].len \in Nat /\ End(free[j]) \in Nat
             /\ End(free[j]) = free[j].at + free[j].len
             /\ j = i => free[j].at = x
             /\ i < j => e < free[j].at
  BY FreeChunks
<1> HIDE DEF n, x, w, e, m, c
\* Where there is room from x on, there is room in chunk i.
<1>7. ASSUME NEW l \in Nat, l > 0 PROVE TheArena!Room(x, l) <=> l <= w
  <2>1. TheArena!Room(x, l) <=>
          \E j \in 1..Len(free) : free[j].at <= x /\ x + l <= End(free[j])
    BY <1>1, <1>7, RoomIsChunk
  <2>2. ASSUME NEW j \in 1..Len(free), free[j].at <= x, x + l <= End(free[j]) PROVE j = i
    <3> DEFINE hi == End(free[j])
    <3>1. hi \in Nat /\ x + l <= hi
      BY <1>6, <2>2
    <3> HIDE DEF hi
    <3>2. x < hi
      BY <1>1, <1>7, <3>1
    <3>3. Holds(free[j], x)
      BY <2>2, <3>2 DEF Holds, hi
    <3> QED
      BY <1>1, <1>5, <3>3, OneChunk
  <2>3. x + l <= e <=> l <= w
    BY <1>1
  <2>4. free[i].at <= x
    BY <1>1 DEF x
  <2> QED
    BY <2>1, <2>2, <2>3, <2>4 DEF e
<1>8. ASSUME NEW y \in Base..(x - 1) PROVE ~TheArena!Room(y, n)
  <2> SUFFICES ASSUME TheArena!Room(y, n) PROVE FALSE
    OBVIOUS
  <2>1. y \in Nat /\ y < x
    BY <1>1
  <2>2. n \in Nat /\ n > 0
    BY <1>1
  <2>3. PICK j \in 1..Len(free) : free[j].at <= y /\ y + n <= End(free[j])
    BY <2>1, <2>2, RoomIsChunk
  <2> DEFINE lo == free[j].at
             hi == End(free[j])
             long == free[j].len
  <2>4. /\ lo \in Nat /\ long \in Nat /\ hi = lo + long /\ lo <= y /\ y + n <= hi
        /\ j = i => lo = x
        /\ i < j => e < lo
    BY <1>6, <2>3
  <2>5. j < i => long < n
    BY <1>2
  <2> HIDE DEF lo, hi, long
  <2>6. long >= n
    BY <2>1, <2>2, <2>4
  <2>7. ~(j < i)
    BY <2>2, <2>4, <2>5, <2>6
  <2>8. j # i
    BY <1>1, <2>1, <2>4
  <2>9. ~(i < j)
    BY <1>1, <2>1, <2>4
  <2> QED
    BY <2>7, <2>8, <2>9
<1>9. /\ m \in Nat /\ m > 0 /\ m <= w /\ m \in n..(n + 3)
      /\ n + 3 + 1 \in Nat /\ n + 3 + 1 > 0 /\ m + 1 \in Nat /\ m + 1 > 0
  BY <1>1, <1>2, <1>4
<1>10. TheArena!Take(n)
  <2>1. x \in Base..(Base + Length) /\ m \in n..(n + FreeStruct)
    BY <1>1, <1>2, <1>9 DEF FreeStruct
  <2>2. TheArena!Room(x, m)
    BY <1>7, <1>9
  <2>3. /\ TheArena!Room(x, n + FreeStruct + 1) <=> n + 3 + 1 <= w
        /\ TheArena!Room(x, m + 1) <=> m + 1 <= w
    <3>1. n + FreeStruct + 1 = n + 3 + 1
      BY DEF FreeStruct
    <3> QED
      BY <1>7, <1>9, <3>1
  <2>4. (n + 3 + 1 <= w => m = n) /\ (m + 1 <= w => n + 3 + 1 <= w)
    BY <1>1, <1>4
  <2>5. TheArena!Room(x, n)
    BY <1>1, <1>2, <1>7
  <2> QED
    BY <1>3, <1>8, <2>1, <2>2, <2>3, <2>4, <2>5 DEF TheArena!Take
<1>11. n \in FreeStruct..Length
  BY <1>1, <1>2 DEF FreeStruct
<1> QED
  BY <1>10, <1>11 DEF TheArena!Next

\* heap_free gives all of it back.
LEMMA FreeGives ==
  ASSUME HeapAssumption, HeapInv, NEW a \in used, HeapFree(a)
  PROVE  TheArena!Next
<1>1. used' = used \ {a}
  BY DEF HeapFree
<1>2. ASSUME NEW b \in used, b # a PROVE Block(b) # Block(a)
  <2>1. /\ a.at \in Nat /\ a.len \in Nat /\ a.len >= 3 /\ b.at \in Nat /\ b.len \in Nat /\ b.len >= 3
        /\ a.at + a.len <= b.at \/ b.at + b.len <= a.at
    BY <1>2 DEF HeapInv, Tiles, FreeStruct, Apart, End
  <2>2. Block(a).at = a.at /\ Block(b).at = b.at
    BY DEF Block
  <2> QED
    BY <2>1, <2>2
<1>3. Blocks' = Blocks \ {Block(a)}
  <2>1. Blocks' = {Block(b) : b \in used \ {a}}
    BY <1>1 DEF Blocks, Block
  <2>2. Blocks = {Block(b) : b \in used}
    BY DEF Blocks
  <2> QED
    BY <1>2, <2>1, <2>2
<1>4. Block(a) \in Blocks
  BY DEF Blocks
<1> QED
  BY <1>3, <1>4 DEF TheArena!Give, TheArena!Next

\* Whatever is allocated, freed and reallocated, and in whatever order: the heap
\* gives out the lowest place where there is room, as if it kept no list.
THEOREM HeapIsArena == HeapSpec => ImplementsArena
<1> USE HeapAssumption
<1>1. HeapInit => TheArena!Init
  BY DEF HeapInit, TheArena!Init, Blocks
<1>2. HeapInv /\ [HeapNext]_heapvars => [TheArena!Next]_Blocks
  <2> SUFFICES ASSUME HeapInv, [HeapNext]_heapvars PROVE TheArena!Next \/ UNCHANGED Blocks
    OBVIOUS
  <2>1. CASE Alloc
    BY <2>1, AllocTakes DEF Alloc
  <2>2. CASE Free
    BY <2>2, FreeGives DEF Free
  <2>3. CASE ReallocBegin
    <3>1. 0 \in Alignments
      BY DEF HeapAssumption
    <3> QED
      BY <2>3, <3>1, AllocTakes DEF ReallocBegin
  <2>4. CASE ReallocEnd
    BY <2>4, FreeGives DEF ReallocEnd, HeapInv, PayloadsFit
  <2>5. CASE UNCHANGED heapvars
    BY <2>5 DEF heapvars, Blocks, Block
  <2> QED
    BY <2>1, <2>2, <2>3, <2>4, <2>5 DEF HeapNext
<1> QED
  BY <1>1, <1>2, HeapInvariant, PTL DEF HeapSpec, ImplementsArena, TheArena!Spec

LEMMA SmallestExists ==
  ASSUME NEW S, S \subseteq Nat, S # {}
  PROVE  \E m \in S : \A n \in S : m <= n
<1> DEFINE R == {p \in Nat \X Nat : p[1] < p[2]}
<1>1. IsWellFoundedOn(R, Nat)
  BY NatLessThanWellFounded DEF OpToRel
<1>2. PICK m \in S : \A n \in S : ~(<<n, m>> \in R)
  <2> HIDE DEF R
  <2> QED
    BY <1>1, WFMin
<1>3. ASSUME NEW n \in S PROVE m <= n
  <2>1. <<n, m>> \in Nat \X Nat /\ <<n, m>>[1] = n /\ <<n, m>>[2] = m
    BY <1>2
  <2>2. ~(n < m)
    BY <1>2, <2>1
  <2> QED
    BY <2>2, <1>2
<1> QED
  BY <1>2, <1>3

\* heap_alloc finds a chunk whenever there is room for the request: that the
\* free list is sorted and merged, no request is refused for how memory was cut.
THEOREM RoomAlwaysServed == HeapSpec => []RoomIsServed
<1> USE HeapAssumption
<1>1. ASSUME HeapInv, NEW size \in Sizes, NEW align \in Alignments, NEW x \in Memory,
             TheArena!Room(x, Needed(size, align))
      PROVE  \E i \in 1..Len(free) : FirstFit(i, Needed(size, align))
  <2> DEFINE n == Needed(size, align)
             long == {i \in 1..Len(free) : free[i].len >= n}
  <2>1. n \in Nat /\ n >= 3 /\ x \in Nat
    BY NeededProperties DEF HeapAssumption, FreeStruct, Memory
  <2>2. PICK j \in 1..Len(free) : free[j].at <= x /\ x + n <= End(free[j])
    BY <1>1, <2>1, RoomIsChunk
  <2> HIDE DEF n
  <2>3. j \in long
    <3>1. free[j].at \in Nat /\ free[j].len \in Nat /\ End(free[j]) = free[j].at + free[j].len
      BY <1>1, FreeChunks
    <3>2. free[j].len >= n
      BY <2>1, <2>2, <3>1
    <3> QED
      BY <3>2
  <2>4. PICK i \in long : \A h \in long : i <= h
    <3>1. long \subseteq Nat /\ long # {}
      BY <2>3
    <3> HIDE DEF long
    <3> QED
      BY <3>1, SmallestExists
  <2>5. ASSUME NEW h \in 1..(i - 1) PROVE free[h].len < n
    <3>1. h \in 1..Len(free) /\ h < i /\ free[h].len \in Nat
      BY <1>1, <2>4, FreeChunks
    <3> QED
      BY <2>1, <2>4, <3>1
  <2> QED
    BY <2>4, <2>5 DEF FirstFit, n
<1>2. HeapInv => RoomIsServed
  BY <1>1 DEF RoomIsServed
<1> QED
  BY <1>2, HeapInvariant, PTL
=============================================================================
