-------------------------------- MODULE MCDpc --------------------------------
(* A small instance of the deferred calls: the dpc thread above two threads *)
(* that come and go.                                                        *)
EXTENDS Dpc

CONSTANTS idle, dpc, a, b

MCThreads == {idle, dpc, a, b}
MCPriorities == {0, 1, 2}
MCStartPriority == [t \in MCThreads |-> IF t = idle THEN 0 ELSE IF t = dpc THEN 2 ELSE 1]
MCBoot == {dpc, a}
=============================================================================
