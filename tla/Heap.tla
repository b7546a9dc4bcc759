--------------------------------- MODULE Heap ---------------------------------
(***************************************************************************)
(* The heap (lib/heap/heap.c): one zone, its free chunks in a list sorted  *)
(* by address, first fit, neighbours merged when a chunk is freed.  Every  *)
(* list operation is one critical section.                                 *)
(*                                                                         *)
(* Addresses and lengths are counted in words of four bytes, as the code   *)
(* rounds them.  Requests near 2^32, of which there are none, would wrap;  *)
(* here lengths are natural numbers.                                       *)
(***************************************************************************)
EXTENDS Integers, Sequences, SequencesExt

CONSTANTS
  Base, Length,   \* HEAP_START and HEAP_LEN
  Sizes,          \* what is asked for
  Alignments      \* 0 is none

Header == 3       \* sizeof(struct alloc_struct_begin)
FreeStruct == 3   \* sizeof(struct free_heap_chunk)

ASSUME HeapAssumption ==
  /\ Base \in Nat /\ Length \in Nat /\ Length >= FreeStruct
  /\ Sizes \subseteq Nat
  /\ Alignments \subseteq Nat /\ 0 \in Alignments
  /\ \A a \in Alignments : a < 4 => a \in {0, 1, 2}   \* powers of two

VARIABLES
  free,    \* the free list: chunks, with their address and length
  used,    \* the allocations: the chunk, the pointer given, what was asked for
  moving   \* heap_realloc calls between their heap_alloc and their heap_free

heapvars == <<free, used, moving>>

End(c) == c.at + c.len

HeapInit ==
  /\ free = <<[at |-> Base, len |-> Length]>>
  /\ used = {}
  /\ moving = {}

-----------------------------------------------------------------------------
(* heap_alloc.                                                             *)

RoundUp(x, a) == ((x + a - 1) \div a) * a

\* An alignment is at least 16 bytes.
Effective(align) == IF align = 0 THEN 0 ELSE IF align < 4 THEN 4 ELSE align

\* The length looked for: with the header, at least that of a free chunk, and
\* in the worst case of the alignment.
Needed(size, align) ==
  (IF size + Header < FreeStruct THEN FreeStruct ELSE size + Header) + Effective(align)

\* The first chunk that is long enough.
FirstFit(i, need) ==
  /\ i \in 1..Len(free)
  /\ free[i].len >= need
  /\ \A j \in 1..(i - 1) : free[j].len < need

\* What is left of the chunk goes back to the list, if it is more than a free chunk.
Splits(i, need) == free[i].len > need + FreeStruct

Taken(i, need) == IF Splits(i, need) THEN need ELSE free[i].len

\* Mutant of Rest: the length of what is left is that of the whole chunk.
RestUncut(i, need) ==
  IF Splits(i, need) THEN [free EXCEPT ![i].at = @ + need] ELSE RemoveAt(free, i)

\* The list without what has been taken from its chunk i.
Rest(i, need) ==
  IF Splits(i, need)
  THEN [free EXCEPT ![i] = [at |-> @.at + need, len |-> @.len - need]]
  ELSE RemoveAt(free, i)

\* Mutant of Pointer: rounded up before the header is put in front.
PointerThenHeader(at, align) ==
  (IF align = 0 THEN at ELSE RoundUp(at, Effective(align))) + Header

Pointer(at, align) ==
  IF align = 0 THEN at + Header ELSE RoundUp(at + Header, Effective(align))

Allocated(i, size, align) ==
  [at |-> free[i].at, len |-> Taken(i, Needed(size, align)),
   ptr |-> Pointer(free[i].at, align), size |-> size, align |-> align]

HeapAlloc(i, size, align) ==
  /\ FirstFit(i, Needed(size, align))
  /\ free' = Rest(i, Needed(size, align))
  /\ used' = used \cup {Allocated(i, size, align)}

-----------------------------------------------------------------------------
(* heap_free.                                                              *)

\* Chunk i and the next one become one if they touch.
Touch(s, i) == i \in 1..(Len(s) - 1) /\ End(s[i]) = s[i + 1].at
Merge(s, i) ==
  IF Touch(s, i)
  THEN RemoveAt([s EXCEPT ![i] = [at |-> @.at, len |-> @.len + s[i + 1].len]], i + 1)
  ELSE s

\* The chunk goes in front of the first one behind it.
Slot(k, c) ==
  /\ k \in 1..(Len(free) + 1)
  /\ \A i \in 1..(k - 1) : free[i].at <= c.at
  /\ k <= Len(free) => c.at < free[k].at

\* Mutant of Inserted: merged with the next chunk or with the previous one.
InsertedMergedOnce(k, c) ==
  LET s == InsertAt(free, k, c)
  IN  IF Touch(s, k - 1) THEN Merge(s, k - 1) ELSE Merge(s, k)

\* heap_insert_free_chunk: merged with the previous chunk, then with the next.
Inserted(k, c) ==
  LET s == InsertAt(free, k, c)
  IN  IF Touch(s, k - 1) THEN Merge(Merge(s, k - 1), k - 1) ELSE Merge(s, k)

HeapFree(a) ==
  /\ \E k \in 1..(Len(free) + 1) :
       /\ Slot(k, a)
       /\ free' = Inserted(k, [at |-> a.at, len |-> a.len])
  /\ used' = used \ {a}

-----------------------------------------------------------------------------
(* The callers, any number of threads.                                     *)

\* An allocation that a realloc is at work on is left alone by its owner.
Moving(a) == \E m \in moving : a \in {m.from, m.to}

\* malloc, memalign; without a chunk that fits, NULL is returned.
Alloc ==
  /\ \E size \in Sizes, align \in Alignments :
       \E i \in 1..Len(free) : HeapAlloc(i, size, align)
  /\ UNCHANGED moving

Free ==
  /\ \E a \in used : ~Moving(a) /\ HeapFree(a)
  /\ UNCHANGED moving

\* heap_realloc of an allocation, to a size other than zero: a new one without
\* alignment, the copy, and the old one is freed; or NULL, and nothing happens.
ReallocBegin ==
  \E a \in used, size \in Sizes \ {0} :
    /\ ~Moving(a)
    /\ \E i \in 1..Len(free) :
         /\ HeapAlloc(i, size, 0)
         /\ moving' = moving \cup {[from |-> a, to |-> Allocated(i, size, 0)]}

ReallocEnd ==
  \E m \in moving :
    /\ HeapFree(m.from)
    /\ moving' = moving \ {m}

HeapNext == Alloc \/ Free \/ ReallocBegin \/ ReallocEnd

HeapSpec == HeapInit /\ [][HeapNext]_heapvars

-----------------------------------------------------------------------------
(* Properties.                                                             *)

Chunk == [at : Nat, len : Nat]
Allocation == [at : Nat, len : Nat, ptr : Nat, size : Sizes, align : Alignments]
Memory == Base..(Base + Length - 1)

Holds(c, x) == c.at <= x /\ x < End(c)
Apart(c, d) == End(c) <= d.at \/ End(d) <= c.at

\* The free chunks are in the order of their addresses, and no two touch: a
\* request that fits in free memory that is in one piece is served.  Free
\* chunks and allocations share no word, and every word of the heap belongs to
\* one of them, whatever remainder a split has left with an allocation, and
\* whatever was merged: nothing leaks.  A chunk can always hold its list node.
ChunksTile ==
  /\ free \in Seq(Chunk)
  /\ \A i, j \in DOMAIN free : i < j => End(free[i]) < free[j].at
  /\ \A i \in DOMAIN free : free[i].len >= FreeStruct
  /\ \A a \in used : a.len >= FreeStruct
  /\ \A a, b \in used : a # b => Apart(a, b)
  /\ \A a \in used, i \in DOMAIN free : Apart(a, free[i])
  /\ \A x \in Memory :
       (\E a \in used : Holds(a, x)) \/ (\E i \in DOMAIN free : Holds(free[i], x))

\* What the caller was given is aligned, is as long as asked for, and lies with
\* its header inside the chunk that heap_free will give back.
PayloadsFit ==
  /\ used \subseteq Allocation
  /\ \A a \in used :
       /\ a.at + Header <= a.ptr
       /\ a.ptr + a.size <= End(a)
       /\ a.align > 0 => a.ptr % a.align = 0
  /\ \A m \in moving : {m.from, m.to} \subseteq used /\ m.to.size # 0
  /\ \A m, n \in moving : m # n => {m.from, m.to} \cap {n.from, n.to} = {}

\* When everything has been freed the heap is one chunk again.
EmptiedHeapIsWhole == used = {} => free = <<[at |-> Base, len |-> Length]>>

\* The allocations as blocks of memory.
Block(a) == [at |-> a.at, len |-> a.len]
Blocks == {Block(a) : a \in used}

TheArena == INSTANCE Arena WITH Least <- FreeStruct, blocks <- Blocks

\* First fit in the free list, with splitting and merging, is first fit in the
\* memory that is not in use.
ImplementsArena == TheArena!Spec

\* heap_alloc does not return NULL as long as there is room anywhere.
RoomIsServed ==
  \A size \in Sizes, align \in Alignments :
    (\E x \in Memory : TheArena!Room(x, Needed(size, align)))
      => \E i \in 1..Len(free) : FirstFit(i, Needed(size, align))
=============================================================================
