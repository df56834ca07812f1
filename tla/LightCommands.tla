----------------------------- MODULE LightCommands -----------------------------
(***************************************************************************)
(* What the remote control promises: accepted commands take effect on the  *)
(* light, each exactly once and in the order in which they were accepted.  *)
(* That they take effect at all is promised only until there is trouble.   *)
(***************************************************************************)
EXTENDS Naturals, Sequences

CONSTANTS
    Commands,       \* what a remote can ask for
    FirstLight,
    Effect(_, _),   \* Effect(light, command)
    Capacity        \* accepted commands that may be pending

VARIABLES light, pending, troubled

lightVars == <<light, pending, troubled>>

LightInit ==
    /\ light = FirstLight
    /\ pending = << >>
    /\ troubled = FALSE

Accept(c) ==
    /\ Len(pending) < Capacity
    /\ pending' = Append(pending, c)
    /\ UNCHANGED <<light, troubled>>

TakeEffect ==
    /\ pending # << >>
    /\ light' = Effect(light, Head(pending))
    /\ pending' = Tail(pending)
    /\ UNCHANGED troubled

TroubleBegins ==
    /\ ~troubled
    /\ troubled' = TRUE
    /\ UNCHANGED <<light, pending>>

LightNext == (\E c \in Commands : Accept(c)) \/ TakeEffect \/ TroubleBegins

LightSafety == LightInit /\ [][LightNext]_lightVars

LightSpec == LightSafety /\ WF_lightVars(~troubled /\ TakeEffect)
=============================================================================
