------------------------------ MODULE MCDbgPrint ------------------------------
(* The three tasks that print, a buffer for two bytes, a character and a      *)
(* string that takes two rounds.                                                 *)
EXTENDS DbgPrint

CONSTANTS DMX, Prg

MCPriority == [t \in {Remote, DMX, Prg} |->
                  IF t = Remote THEN 3 ELSE IF t = DMX THEN 2 ELSE 1]
MCPriorityTwo == [t \in {Remote, Prg} |-> IF t = Remote THEN 3 ELSE 1]
MCLengths == {1, 3}
=============================================================================
