----------------------------- MODULE FrameHandoff -----------------------------
(***************************************************************************)
(* What the render/output cycle promises, without tasks, event bits and    *)
(* interrupts: rendering and showing alternate, every rendered frame is    *)
(* shown before the next one is rendered, until the cycle stops for good.  *)
(***************************************************************************)
EXTENDS Naturals

CONSTANT NumFrames

VARIABLES
    rendered,       \* number of the last completely rendered frame
    shown,          \* number of the frame in the front buffer
    running

handoffVars == <<rendered, shown, running>>

Following(f) == IF f = NumFrames - 1 THEN 0 ELSE f + 1

HandoffInit ==
    /\ rendered = 0
    /\ shown = 0
    /\ running = TRUE

Render ==
    /\ rendered = shown
    /\ rendered' = Following(rendered)
    /\ UNCHANGED <<shown, running>>

Show ==
    /\ running
    /\ rendered # shown
    /\ shown' = rendered
    /\ UNCHANGED <<rendered, running>>

Stop ==
    /\ running
    /\ running' = FALSE
    /\ UNCHANGED <<rendered, shown>>

HandoffNext == Render \/ Show \/ Stop

HandoffSafety == HandoffInit /\ [][HandoffNext]_handoffVars

HandoffSpec ==
    /\ HandoffSafety
    /\ WF_handoffVars(running /\ Render)
    /\ WF_handoffVars(Show)
=============================================================================
