------------------------------ MODULE TimedLock ------------------------------
(***************************************************************************)
(* What mutexes promise when waits may time out and mutexes be destroyed.  *)
(* There is still one owner, waiters are still served in the order in      *)
(* which they asked, and a wait fails for one waiter at a time.  But a     *)
(* client whose wait has failed counts against the lock until it has run   *)
(* again: while one is leaving, a client that asks has to queue even if    *)
(* the lock has no owner, and then nobody is there to hand it over.        *)
(***************************************************************************)
EXTENDS SequencesExt

CONSTANTS Locks, Clients, Nobody

VARIABLES
  owner,    \* the client each lock is granted to
  waiting,  \* the clients that wait for each lock, oldest first
  leaving,  \* those whose wait has failed and that do not know it yet
  open      \* the lock has not been destroyed

lvars == <<owner, waiting, leaving, open>>

Init ==
  /\ owner = [l \in Locks |-> Nobody]
  /\ waiting = [l \in Locks |-> <<>>]
  /\ leaving = [l \in Locks |-> {}]
  /\ open = [l \in Locks |-> TRUE]

Unused(l) == owner[l] = Nobody /\ waiting[l] = <<>> /\ leaving[l] = {}

\* A client that has nothing to do with the lock asks for it.
Request(l, c) ==
  /\ open[l]
  /\ owner[l] # c /\ c \notin leaving[l]
  /\ \A i \in DOMAIN waiting[l] : waiting[l][i] # c
  /\ IF Unused(l)
     THEN owner' = [owner EXCEPT ![l] = c] /\ UNCHANGED waiting
     ELSE waiting' = [waiting EXCEPT ![l] = Append(@, c)] /\ UNCHANGED owner
  /\ UNCHANGED <<leaving, open>>

\* The owner gives the lock to the client that has waited longest.
GiveBack(l) ==
  /\ open[l]
  /\ owner[l] # Nobody
  /\ IF waiting[l] = <<>>
     THEN owner' = [owner EXCEPT ![l] = Nobody] /\ UNCHANGED waiting
     ELSE /\ owner' = [owner EXCEPT ![l] = Head(waiting[l])]
          /\ waiting' = [waiting EXCEPT ![l] = Tail(@)]
  /\ UNCHANGED <<leaving, open>>

\* The wait of the i-th waiter fails, and later that client is told so.
GiveUp(l, i) ==
  /\ waiting' = [waiting EXCEPT ![l] = RemoveAt(@, i)]
  /\ leaving' = [leaving EXCEPT ![l] = @ \cup {waiting[l][i]}]
  /\ UNCHANGED <<owner, open>>

Leave(l, c) ==
  /\ c \in leaving[l]
  /\ leaving' = [leaving EXCEPT ![l] = @ \ {c}]
  /\ UNCHANGED <<owner, waiting, open>>

\* The lock is destroyed, used or not.
Close(l) ==
  /\ open[l]
  /\ open' = [open EXCEPT ![l] = FALSE]
  /\ UNCHANGED <<owner, waiting, leaving>>

Next ==
  \E l \in Locks :
    \/ \E c \in Clients : Request(l, c) \/ Leave(l, c)
    \/ GiveBack(l)
    \/ \E i \in DOMAIN waiting[l] : GiveUp(l, i)
    \/ Close(l)

Spec == Init /\ [][Next]_lvars
=============================================================================
