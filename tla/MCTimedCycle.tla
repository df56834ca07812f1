----------------------------- MODULE MCTimedCycle -----------------------------
(* One rendered lamp of two sent ones: the timing does not depend on them.   *)
EXTENDS TimedCycle

Quiet == [commands |-> FALSE, slack |-> 1]
Busy == [commands |-> TRUE, slack |-> 4]
Stalled == [commands |-> TRUE, slack |-> 5]
Prompt == [commands |-> TRUE, slack |-> 0]

MCRegimes == {Quiet, Busy, Stalled}
MCPrompt == {Prompt}
=============================================================================
