---------------------------- MODULE MCKernelWaits ----------------------------
(* The task the radio interrupt aborts, which delays itself, and one that    *)
(* suspends itself; both wait for the queue.                                 *)
EXTENDS KernelWaits

CONSTANTS remote, output

MCPriority == [t \in Tasks |-> IF t = remote THEN 3 ELSE 2]
=============================================================================
