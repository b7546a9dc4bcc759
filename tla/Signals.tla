------------------------------- MODULE Signals -------------------------------
(***************************************************************************)
(* What events promise.  A signal on a manual event lets everybody pass    *)
(* who waits at that moment, and whoever comes until it is taken back; one *)
(* on an automatic event lets exactly one pass, the client that has waited *)
(* longest or else the next that comes.  The waits of a destroyed event    *)
(* all fail.  Each of these is a single step here: Event shows that the    *)
(* loop that wakes the waiters one by one cannot be told from it.          *)
(***************************************************************************)
EXTENDS SequencesExt

CONSTANTS
  Signs,     \* the events
  Clients,
  OneShot    \* the automatic events

VARIABLES
  open,      \* the event has not been destroyed
  set,       \* it is signalled
  waiting,   \* the clients that wait, oldest first
  passing,   \* those let pass that have not run since
  failing    \* those whose wait has failed and that have not run since

svars == <<open, set, waiting, passing, failing>>

Init ==
  /\ open = [e \in Signs |-> TRUE]
  /\ set = [e \in Signs |-> FALSE]
  /\ waiting = [e \in Signs |-> <<>>]
  /\ passing = [e \in Signs |-> {}]
  /\ failing = [e \in Signs |-> {}]

\* A client finds the event signalled and passes.
Pass(e) ==
  /\ open[e] /\ set[e]
  /\ set' = [set EXCEPT ![e] = e \notin OneShot]
  /\ UNCHANGED <<open, waiting, passing, failing>>

\* A client that finds it unsignalled waits.
Wait(e, c) ==
  /\ open[e] /\ ~set[e]
  /\ c \notin ToSet(waiting[e]) \cup passing[e] \cup failing[e]
  /\ waiting' = [waiting EXCEPT ![e] = Append(@, c)]
  /\ UNCHANGED <<open, set, passing, failing>>

\* Everybody who waits may pass.
SignalAll(e) ==
  /\ open[e] /\ ~set[e] /\ e \notin OneShot
  /\ set' = [set EXCEPT ![e] = TRUE]
  /\ waiting' = [waiting EXCEPT ![e] = <<>>]
  /\ passing' = [passing EXCEPT ![e] = @ \cup ToSet(waiting[e])]
  /\ UNCHANGED <<open, failing>>

\* One client may pass: the one that has waited longest, or the next to come.
SignalOne(e) ==
  /\ open[e] /\ ~set[e] /\ e \in OneShot
  /\ IF waiting[e] = <<>>
     THEN set' = [set EXCEPT ![e] = TRUE] /\ UNCHANGED <<waiting, passing>>
     ELSE /\ waiting' = [waiting EXCEPT ![e] = Tail(@)]
          /\ passing' = [passing EXCEPT ![e] = @ \cup {Head(waiting[e])}]
          /\ UNCHANGED set
  /\ UNCHANGED <<open, failing>>

TakeBack(e) ==
  /\ open[e] /\ set[e]
  /\ set' = [set EXCEPT ![e] = FALSE]
  /\ UNCHANGED <<open, waiting, passing, failing>>

\* The wait of the i-th client fails.
GiveUp(e, i) ==
  /\ waiting' = [waiting EXCEPT ![e] = RemoveAt(@, i)]
  /\ failing' = [failing EXCEPT ![e] = @ \cup {waiting[e][i]}]
  /\ UNCHANGED <<open, set, passing>>

\* A client returns from its wait.
Return(e, c) ==
  /\ \/ c \in passing[e] /\ passing' = [passing EXCEPT ![e] = @ \ {c}] /\ UNCHANGED failing
     \/ c \in failing[e] /\ failing' = [failing EXCEPT ![e] = @ \ {c}] /\ UNCHANGED passing
  /\ UNCHANGED <<open, set, waiting>>

\* The event is destroyed: everybody who waits fails.
Close(e) ==
  /\ open[e]
  /\ open' = [open EXCEPT ![e] = FALSE]
  /\ set' = [set EXCEPT ![e] = FALSE]
  /\ waiting' = [waiting EXCEPT ![e] = <<>>]
  /\ failing' = [failing EXCEPT ![e] = @ \cup ToSet(waiting[e])]
  /\ UNCHANGED passing

Next ==
  \E e \in Signs :
    \/ Pass(e) \/ SignalAll(e) \/ SignalOne(e) \/ TakeBack(e) \/ Close(e)
    \/ \E c \in Clients : Wait(e, c) \/ Return(e, c)
    \/ \E i \in DOMAIN waiting[e] : GiveUp(e, i)

Spec == Init /\ [][Next]_svars
=============================================================================
