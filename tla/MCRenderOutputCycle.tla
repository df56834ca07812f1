------------------------- MODULE MCRenderOutputCycle -------------------------
(* Two rendered lamps of three sent ones, and enough frame numbers to tell a *)
(* frame from its predecessor and its successor.                             *)
EXTENDS RenderOutputCycle
=============================================================================
