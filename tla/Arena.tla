-------------------------------- MODULE Arena --------------------------------
(***************************************************************************)
(* What the heap promises: whoever asks for memory is given the lowest     *)
(* place where there is room, and all of it can be given out again once it *)
(* has been given back.  There is no list of what is free: that it is kept *)
(* in pieces, cut and put together again, cannot be seen from outside.     *)
(***************************************************************************)
EXTENDS Integers

CONSTANTS
  Base, Length,   \* the words of memory
  Least           \* no request is shorter, and no remainder of a piece

VARIABLE blocks   \* what is in use: pieces, with their address and length

\* No block has a word of the n that begin at x.
Room(x, n) ==
  /\ Base <= x /\ x + n <= Base + Length
  /\ \A b \in blocks : b.at + b.len <= x \/ x + n <= b.at

Init == blocks = {}

\* n words are given out, at the lowest place; a remainder no longer than Least
\* goes with them.
Take(n) ==
  \E x \in Base..(Base + Length) :
    /\ Room(x, n)
    /\ \A y \in Base..(x - 1) : ~Room(y, n)
    /\ \E m \in n..(n + Least) :
         /\ blocks' = blocks \cup {[at |-> x, len |-> m]}
         /\ Room(x, m)
         /\ Room(x, n + Least + 1) => m = n
         /\ Room(x, m + 1) => Room(x, n + Least + 1)

Give(b) == blocks' = blocks \ {b}

Next ==
  \/ \E b \in blocks : Give(b)
  \/ \E n \in Least..Length : Take(n)

Spec == Init /\ [][Next]_blocks
=============================================================================
