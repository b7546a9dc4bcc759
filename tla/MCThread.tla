------------------------------ MODULE MCThread ------------------------------
(* A small instance of the scheduler: the idle thread and two others of    *)
(* one priority, which share one wait queue.                               *)
EXTENDS Thread

CONSTANTS idle, a, b

MCThreads == {idle, a, b}
MCPriorities == {0, 1}
MCStartPriority == [t \in MCThreads |-> IF t = idle THEN 0 ELSE 1]
MCBoot == {a}
=============================================================================
