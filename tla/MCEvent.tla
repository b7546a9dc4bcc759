------------------------------- MODULE MCEvent -------------------------------
(* A small instance of the events: one auto-unsignal and one manual event,  *)
(* threads of two priorities.                                               *)
EXTENDS Event

CONSTANTS idle, a, b

MCThreads == {idle, a, b}
MCPriorities == {0, 1, 2}
MCStartPriority == [t \in MCThreads |-> IF t = idle THEN 0 ELSE IF t = b THEN 2 ELSE 1]
MCBoot == {a, b}
=============================================================================
