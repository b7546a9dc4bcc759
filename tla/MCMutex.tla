------------------------------- MODULE MCMutex -------------------------------
(* A small instance of the mutexes: one mutex, threads of two priorities.   *)
EXTENDS Mutex

CONSTANTS idle, a, b, c

MCThreads == {idle, a, b, c}
MCPriorities == {0, 1, 2}
MCStartPriority == [t \in MCThreads |-> IF t = idle THEN 0 ELSE IF t = c THEN 2 ELSE 1]
MCBoot == {a, c}

\* All of one priority.
MCEqualPriority == [t \in MCThreads |-> IF t = idle THEN 0 ELSE 1]
MCEqualBoot == {a}
=============================================================================
