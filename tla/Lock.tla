-------------------------------- MODULE Lock --------------------------------
(***************************************************************************)
(* What mutexes promise their callers: each has at most one owner, and its *)
(* waiters are served in the order in which they asked.  Mutex implements  *)
(* it when nobody uses a timeout and no mutex is destroyed; TimedLock says *)
(* what is left of it when they do.                                        *)
(***************************************************************************)
EXTENDS Naturals, Sequences

CONSTANTS Locks, Clients, Nobody

VARIABLES
  owner,    \* the client each lock is granted to
  waiting   \* the clients that wait for each lock, oldest first

lvars == <<owner, waiting>>

Init == owner = [l \in Locks |-> Nobody] /\ waiting = [l \in Locks |-> <<>>]

\* A client that neither owns the lock nor waits for it asks for it.
Request(l, c) ==
  /\ owner[l] # c
  /\ \A i \in DOMAIN waiting[l] : waiting[l][i] # c
  /\ IF owner[l] = Nobody
     THEN owner' = [owner EXCEPT ![l] = c] /\ UNCHANGED waiting
     ELSE waiting' = [waiting EXCEPT ![l] = Append(@, c)] /\ UNCHANGED owner

\* The owner gives the lock to the client that has waited longest.
GiveBack(l, c) ==
  /\ owner[l] = c
  /\ IF waiting[l] = <<>>
     THEN owner' = [owner EXCEPT ![l] = Nobody] /\ UNCHANGED waiting
     ELSE /\ owner' = [owner EXCEPT ![l] = Head(waiting[l])]
          /\ waiting' = [waiting EXCEPT ![l] = Tail(@)]

Next == \E l \in Locks, c \in Clients : Request(l, c) \/ GiveBack(l, c)

\* Every owner gives the lock back, so every client that waits is served.
Spec == /\ Init /\ [][Next]_lvars
        /\ \A l \in Locks, c \in Clients : WF_lvars(GiveBack(l, c))
=============================================================================
