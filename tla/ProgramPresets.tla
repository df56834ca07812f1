---------------------------- MODULE ProgramPresets ----------------------------
(***************************************************************************)
(* The light programs of core/programm_presets.h.                          *)
(***************************************************************************)
EXTENDS Integers, Sequences

\* A tRgbwColor, written as the four bytes of its _dword from the highest to the
\* lowest; the lowest one is r.
Dword(b3, b2, b1, b0) == [r |-> b0, g |-> b1, b |-> b2, w |-> b3]

rgbColors ==
    <<Dword(0, 0, 0, \hFF), Dword(0, 0, \hFF, 0), Dword(0, \hFF, 0, 0), Dword(\hFF, 0, 0, 0)>>
warmColors ==
    <<Dword(0, \hCC, \hCC, 0), Dword(0, \hFF, \h99, \h66), Dword(0, \hFF, \h99, 0),
      Dword(0, \hFF, \h50, \h50), Dword(0, \hCC, \h33, 0)>>
coldColors ==
    <<Dword(0, \hCC, \h66, \hFF), Dword(0, 0, \h99, \h99), Dword(0, \h33, \h66, \hFF),
      Dword(0, 0, 0, \h99), Dword(0, 0, \h99, \h99)>>

DynamicProgram(colors, speed, simultan, offsets) ==
    [colorList |-> colors, speed |-> speed, offsets |-> offsets,
     static |-> FALSE, simultan |-> simultan, off |-> FALSE]

presetList ==
    <<DynamicProgram(rgbColors, 64, TRUE, 0), DynamicProgram(rgbColors, 20, FALSE, 2),
      DynamicProgram(warmColors, 35, TRUE, 0), DynamicProgram(warmColors, 25, FALSE, 2),
      DynamicProgram(coldColors, 20, TRUE, 0)>>
=============================================================================
