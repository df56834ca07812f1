-------------------------- MODULE MCProgramRenderer --------------------------
(* The renderer with the real programs, and with small ones of one channel.   *)
EXTENDS ProgramRenderer, ProgramPresets

MCChannels == {"r", "g", "b", "w"}
MCPresets == presetList

\* A program with all lamps alike, whose speed does not divide the three steps of
\* a transition, and one with offsets, whose speed does; the remote sets 0.
MCSmallPrograms ==
    <<DynamicProgram(<<[r |-> 2], [r |-> 0], [r |-> 3]>>, 2, TRUE, 0),
      DynamicProgram(<<[r |-> 0], [r |-> 3]>>, 1, FALSE, 2)>>
MCSmallColors == {[r |-> 3]}
=============================================================================
