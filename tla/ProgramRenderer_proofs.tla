------------------------ MODULE ProgramRenderer_proofs ------------------------
(***************************************************************************)
(* Proofs about the colours, for every number of lamps, channels and steps *)
(* of a transition, every range of a byte, and all programs.               *)
(***************************************************************************)
EXTENDS ProgramRenderer, TLAPS

-----------------------------------------------------------------------------
(* Arithmetic.                                                             *)

LEMMA Quotient ==
    ASSUME NEW a \in Int, NEW m \in Nat \ {0}
    PROVE  a \div m \in Int /\ m * (a \div m) <= a /\ a < m * (a \div m) + m
  OBVIOUS

LEMMA Cancel ==
    ASSUME NEW a \in Int, NEW b \in Int, NEW m \in Nat \ {0}, m * a < m * b + m
    PROVE  a <= b
  OBVIOUS

\* The sum of a transition, for brevity.
Sum(old, new, pos) == old * (PRG_MAX_TRANSITION_STEPS - pos) + new * pos

Mixed(old, new, pos) == Sum(old, new, pos) \div PRG_MAX_TRANSITION_STEPS

\* A value between the two, whichever is the larger one.
LEMMA MixedBetween ==
    ASSUME NEW old \in Bytes, NEW new \in Bytes, NEW pos \in 0..PRG_MAX_TRANSITION_STEPS
    PROVE  /\ Mixed(old, new, pos) \in Bytes
           /\ \/ old <= Mixed(old, new, pos) /\ Mixed(old, new, pos) <= new
              \/ new <= Mixed(old, new, pos) /\ Mixed(old, new, pos) <= old
<1> DEFINE M == PRG_MAX_TRANSITION_STEPS
           x == Sum(old, new, pos)
           q == x \div M
<1>1. /\ M \in Nat \ {0} /\ pos \in Nat /\ M - pos \in Nat
      /\ old \in Nat /\ new \in Nat /\ old <= MaxByte /\ new <= MaxByte /\ MaxByte \in Nat
  BY ParameterAssumption DEF Bytes
<1>2. x = old * (M - pos) + new * pos
  BY DEF Sum
<1> HIDE DEF M
<1>3. /\ x = M * old + (new - old) * pos
      /\ x = M * new + (old - new) * (M - pos)
      /\ x \in Int
  BY <1>1, <1>2
<1> HIDE DEF x
<1>4. q \in Int /\ M * q <= x /\ x < M * q + M
  BY <1>1, <1>3, Quotient
<1>5. Mixed(old, new, pos) = q
  BY DEF Mixed, M, x
<1> HIDE DEF q
<1>6. CASE old <= new
  <2>1. (new - old) * pos >= 0 /\ (old - new) * (M - pos) <= 0
    BY <1>1, <1>6
  <2> DEFINE a == M * old
             b == M * new
  <2>2. a \in Int /\ b \in Int /\ a <= x /\ x <= b
    BY <1>1, <1>3, <2>1
  <2>3. M * q < b + M /\ a < M * q + M
    BY <1>1, <1>3, <1>4, <2>2
  <2>4. q <= new /\ old <= q
    BY <1>1, <1>4, <2>3, Cancel
  <2>5. QED
    BY <1>1, <1>4, <1>5, <2>4 DEF Bytes
<1>7. CASE ~(old <= new)
  <2>1. (new - old) * pos <= 0 /\ (old - new) * (M - pos) >= 0
    BY <1>1, <1>7
  <2> DEFINE a == M * old
             b == M * new
  <2>2. a \in Int /\ b \in Int /\ b <= x /\ x <= a
    BY <1>1, <1>3, <2>1
  <2>3. M * q < a + M /\ b < M * q + M
    BY <1>1, <1>3, <1>4, <2>2
  <2>4. q <= old /\ new <= q
    BY <1>1, <1>4, <2>3, Cancel
  <2>5. QED
    BY <1>1, <1>4, <1>5, <2>4 DEF Bytes
<1>8. QED
  BY <1>6, <1>7

\* At the beginning of a transition, the old value.
LEMMA MixedBegins == ASSUME NEW old \in Bytes, NEW new \in Bytes PROVE Mixed(old, new, 0) = old
<1> DEFINE M == PRG_MAX_TRANSITION_STEPS
           q == Mixed(old, new, 0)
<1>1. M \in Nat \ {0} /\ old \in Nat /\ new \in Nat /\ MaxByte \in Nat
  BY ParameterAssumption DEF Bytes
<1>2. Sum(old, new, 0) = M * old
  BY <1>1 DEF Sum
<1>3. q = (M * old) \div M
  BY <1>2 DEF Mixed
<1> HIDE DEF M, q
<1>4. M * old \in Int
  BY <1>1
<1>5. q \in Int /\ M * q <= M * old /\ M * old < M * q + M
  BY <1>1, <1>3, <1>4, Quotient
<1>6. old <= q
  BY <1>1, <1>5, Cancel
<1>7. M * q < M * old + M
  <2>1. M * q \in Int
    BY <1>1, <1>5
  <2>2. QED
    BY <1>1, <1>4, <1>5, <2>1
<1>8. q <= old
  BY <1>1, <1>5, <1>7, Cancel
<1>9. QED
  BY <1>1, <1>5, <1>6, <1>8 DEF q

\* From one position to the next, no more than the speed allows.
StepOf(speed) ==
    (MaxByte * speed + PRG_MAX_TRANSITION_STEPS - 1) \div PRG_MAX_TRANSITION_STEPS

LEMMA StepType == ASSUME NEW speed \in Nat PROVE StepOf(speed) \in Nat
<1> DEFINE M == PRG_MAX_TRANSITION_STEPS
           y == MaxByte * speed + M - 1
<1>1. M \in Nat \ {0} /\ MaxByte * speed \in Nat
  BY ParameterAssumption
<1>2. y \in Nat
  BY <1>1
<1> HIDE DEF M, y
<1>3. y \div M \in Nat
  BY <1>1, <1>2
<1>4. QED
  BY <1>3 DEF StepOf, M, y

LEMMA MixedSmooth ==
    ASSUME NEW old \in Bytes, NEW new \in Bytes, NEW speed \in Nat,
           NEW pos \in 0..PRG_MAX_TRANSITION_STEPS, pos >= speed
    PROVE  Distance(Mixed(old, new, pos), Mixed(old, new, pos - speed)) <= StepOf(speed)
<1> DEFINE M == PRG_MAX_TRANSITION_STEPS
           x == Sum(old, new, pos)
           y == Sum(old, new, pos - speed)
           q == Mixed(old, new, pos)
           r == Mixed(old, new, pos - speed)
           d == StepOf(speed)
           z == MaxByte * speed
<1>1. /\ M \in Nat \ {0} /\ pos \in Nat /\ old \in Nat /\ new \in Nat
      /\ old <= MaxByte /\ new <= MaxByte /\ MaxByte \in Nat
  BY ParameterAssumption DEF Bytes
<1>2. x = old * (M - pos) + new * pos /\ y = old * (M - (pos - speed)) + new * (pos - speed)
  BY DEF Sum
<1>3. q = x \div M /\ r = y \div M /\ d = (z + M - 1) \div M
  BY DEF Mixed, StepOf
<1> HIDE DEF M, x, y, q, r, d
<1>4. x \in Int /\ y \in Int /\ x - y = (new - old) * speed
  BY <1>1, <1>2
<1>5. z \in Nat /\ (new - old) * speed <= z /\ (old - new) * speed <= z
      /\ (old - new) * speed = 0 - (new - old) * speed
  BY <1>1
<1>6. x - y <= z /\ y - x <= z
  BY <1>4, <1>5
<1> HIDE DEF z
<1>7. /\ q \in Int /\ M * q <= x /\ x < M * q + M
      /\ r \in Int /\ M * r <= y /\ y < M * r + M
  BY <1>1, <1>3, <1>4, Quotient
<1>8. d \in Int /\ z + M - 1 < M * d + M
  <2>1. z + M - 1 \in Int
    BY <1>1, <1>5
  <2>2. QED
    BY <1>1, <1>3, <2>1, Quotient
<1>9. M * (r + d) = M * r + M * d /\ M * (q + d) = M * q + M * d
      /\ M * r \in Int /\ M * d \in Int /\ M * q \in Int
  BY <1>1, <1>7, <1>8
<1>10. z <= M * d
  BY <1>1, <1>5, <1>8, <1>9
<1>11. M * q < M * (r + d) + M /\ M * r < M * (q + d) + M
  BY <1>1, <1>4, <1>5, <1>6, <1>7, <1>9, <1>10
<1>12. q <= r + d /\ r <= q + d
  BY <1>1, <1>7, <1>8, <1>11, Cancel
<1>13. QED
  BY <1>7, <1>8, <1>12 DEF Distance, q, r, d

-----------------------------------------------------------------------------
(* Colours.                                                                *)

LEMMA InterpolateIs ==
    ASSUME NEW old \in Colors, NEW new \in Colors, NEW pos \in 0..PRG_MAX_TRANSITION_STEPS
    PROVE  /\ Interpolate(old, new, pos) \in Colors
           /\ \A c \in Channels : Interpolate(old, new, pos)[c] = Mixed(old[c], new[c], pos)
<1>1. ASSUME NEW c \in Channels
      PROVE  /\ Mixed(old[c], new[c], pos) % (MaxByte + 1) = Mixed(old[c], new[c], pos)
             /\ Mixed(old[c], new[c], pos) \in Bytes
  <2>1. Mixed(old[c], new[c], pos) \in Bytes
    BY MixedBetween DEF Colors
  <2>2. QED
    BY <2>1, ParameterAssumption DEF Bytes
<1>2. Interpolate(old, new, pos) = [c \in Channels |-> Mixed(old[c], new[c], pos)]
  BY <1>1 DEF Interpolate, Mixed, Sum
<1>3. QED
  BY <1>1, <1>2 DEF Colors

LEMMA ColorsAtType ==
    ASSUME NEW program \in Programs, currentPrg = program, NEW index \in Nat
    PROVE  /\ ColorsAt(index) \subseteq Colors
           /\ index < Len(program.colorList) =>
                program.colorList[index + 1] \in Colors
                /\ ColorsAt(index) = {program.colorList[index + 1]}
<1>1. program.colorList \in Seq(Colors)
  BY DEF Programs
<1>2. QED
  BY <1>1 DEF ColorsAt

LEMMA BlackIsColor == Black \in Colors
  BY ParameterAssumption DEF Black, Colors, Bytes

-----------------------------------------------------------------------------
(* The type invariant.                                                     *)

\* A program that does not render all lamps alike has a transition for each.
ProgramInv ==
    /\ TypeOK
    /\ currentPrg.static \/ currentPrg.simultan \/ currentPrg.offsets = NUM_LAMPS

LEMMA ProgramInit == Init => ProgramInv
<1> SUFFICES ASSUME Init PROVE ProgramInv
  OBVIOUS
<1> DEFINE M == PRG_MAX_TRANSITION_STEPS
<1>1. /\ programList[1] \in Programs
      /\ programList[1].static \/ programList[1].simultan \/ programList[1].offsets = NUM_LAMPS
  BY ProgramAssumption
<1>2. ASSUME NEW l \in Lamps PROVE FirstPos(l) \in 0..(M - 1)
  <2>1. l \in Nat /\ M \in Nat \ {0} /\ programList[1].offsets \in Nat
    BY <1>1, ParameterAssumption DEF Lamps, Programs
  <2>2. CASE l < programList[1].offsets
    <3> DEFINE n == programList[1].offsets
               q == M \div n
    <3>1. n \in Nat \ {0} /\ l < n /\ l <= n - 1
      BY <2>1, <2>2
    <3> HIDE DEF n
    <3>2. q \in Nat /\ n * q <= M
      BY <2>1, <3>1, Quotient
    <3> HIDE DEF q
    <3>3. l * q \in Nat /\ l * q <= (n - 1) * q /\ (n - 1) * q = n * q - q /\ n * q \in Nat
      BY <2>1, <3>1, <3>2
    <3>4. l * q < M
      BY <2>1, <3>1, <3>2, <3>3
    <3>5. FirstPos(l) = l * q
      BY <2>2 DEF FirstPos, q, n
    <3>6. QED
      BY <2>1, <3>3, <3>4, <3>5
  <2>3. CASE ~(l < programList[1].offsets)
    BY <2>1, <2>3 DEF FirstPos
  <2>4. QED
    BY <2>2, <2>3
<1>3. QED
  BY <1>1, <1>2, BlackIsColor DEF Init, ProgramInv, TypeOK

LEMMA ProgramStep == ProgramInv /\ [Next]_vars => ProgramInv'
<1> SUFFICES ASSUME ProgramInv, [Next]_vars PROVE ProgramInv'
  OBVIOUS
<1> USE DEF ProgramInv
<1>1. TypeOK
  OBVIOUS
<1>2. ASSUME NEW program \in Programs, Apply(program),
             program.static \/ program.simultan \/ program.offsets = NUM_LAMPS
      PROVE  ProgramInv'
  BY <1>1, <1>2 DEF Apply, TypeOK, frameVars
<1>3. CASE Command
  <2>1. CASE SwitchOff
    BY <1>1, <1>2, <2>1 DEF SwitchOff, TypeOK, Programs
  <2>2. CASE SwitchOn
    BY <1>1, <1>2, <2>2 DEF SwitchOn, TypeOK, Programs
  <2>3. CASE SetSpeed
    BY <1>1, <1>2, <2>3, ParameterAssumption DEF SetSpeed, TypeOK, Programs
  <2>4. CASE SetStaticColor
    <3> DEFINE P(color) == [colorList |-> <<color>>, speed |-> 0, offsets |-> 0,
                            static |-> TRUE, simultan |-> FALSE, off |-> FALSE]
    <3>1. PICK color \in StaticColors : Apply(P(color))
      BY <2>4 DEF SetStaticColor
    <3>2. <<color>> \in Seq(Colors) \ {<< >>}
      BY ParameterAssumption
    <3>3. P(color) \in Programs /\ P(color).static
      BY <3>2, ParameterAssumption DEF Programs
    <3>4. QED
      BY <1>2, <3>1, <3>3
  <2>5. CASE SetProgram
    <3>1. PICK i \in 1..Len(programList) : Apply(programList[i])
      BY <2>5 DEF SetProgram
    <3>2. QED
      BY <1>2, <3>1, ProgramAssumption
  <2>6. QED
    BY <1>3, <2>1, <2>2, <2>3, <2>4, <2>5 DEF Command
<1>4. CASE NoCommand \/ WaitFails
  BY <1>1, <1>4 DEF NoCommand, WaitFails, TypeOK, prgVars, frameVars
<1>5. CASE Swap
  BY <1>1, <1>5 DEF Swap, TypeOK, prgVars
<1>6. CASE RenderOff
  BY <1>1, <1>6, BlackIsColor DEF RenderOff, Rendered, TypeOK
<1>7. CASE RenderStatic
  <2>1. currentPrg.colorList[1] \in Colors
    BY <1>1 DEF TypeOK, Programs
  <2>2. QED
    BY <1>1, <1>7, <2>1 DEF RenderStatic, Rendered, TypeOK
<1>8. ASSUME NEW lamps \in SUBSET Lamps, Proceed(lamps)
      PROVE  /\ transition' \in [Lamps -> [Pos : 0..(PRG_MAX_TRANSITION_STEPS - 1),
                                           nextColorIndex : Nat]]
             /\ tmpFrame' \in [Lamps -> Colors]
  <2>1. ASSUME NEW l \in Lamps
        PROVE  /\ Advanced(transition[l].Pos) \in 0..(PRG_MAX_TRANSITION_STEPS - 1)
               /\ NextIndex(l) \in Nat
               /\ OldColor(l) \in Colors
    <3>1. transition[l].Pos \in 0..(PRG_MAX_TRANSITION_STEPS - 1)
          /\ transition[l].nextColorIndex \in Nat /\ currentPrg.speed \in Nat
      BY <1>1 DEF TypeOK, Programs
    <3>2. QED
      BY <1>1, <3>1, ParameterAssumption DEF Advanced, NextIndex, OldColor, TypeOK
  <2>2. QED
    BY <1>1, <1>8, <2>1 DEF Proceed, TypeOK
<1>9. ASSUME NEW l \in Lamps PROVE OldColor(l) \in Colors /\ NextIndex(l) \in Nat
                                   /\ transition[l].Pos \in 0..PRG_MAX_TRANSITION_STEPS
  BY <1>1, ParameterAssumption DEF OldColor, NextIndex, TypeOK
<1>10. ASSUME NEW l \in Lamps, NEW new \in ColorsAt(NextIndex(l))
       PROVE  new \in Colors /\ Interpolate(OldColor(l), new, transition[l].Pos) \in Colors
  <2>1. new \in Colors
    BY <1>1, <1>9, <1>10, ColorsAtType DEF TypeOK
  <2>2. QED
    BY <1>9, <2>1, InterpolateIs
<1>11. 0 \in Lamps
  BY ParameterAssumption DEF Lamps
<1>12. CASE RenderSimultan
  <2>1. PICK new \in ColorsAt(NextIndex(0)) :
          back' = [l \in Lamps |-> Interpolate(OldColor(0), new, transition[0].Pos)]
    BY <1>12 DEF RenderSimultan
  <2>2. back' \in [Lamps -> Colors]
    BY <1>10, <1>11, <2>1
  <2>3. QED
    BY <1>1, <1>8, <1>11, <1>12, <2>2 DEF RenderSimultan, Rendered, TypeOK
<1>13. CASE RenderOffsets
  <2>1. Offsets \in SUBSET Lamps
    BY <1>1, ParameterAssumption DEF Offsets, Lamps, TypeOK, Programs
  <2>2. PICK new \in [Offsets -> UNION {ColorsAt(NextIndex(l)) : l \in Offsets}] :
          /\ \A l \in Offsets : new[l] \in ColorsAt(NextIndex(l))
          /\ back' = [l \in Lamps |->
                        IF l \in Offsets
                        THEN Interpolate(OldColor(l), new[l], transition[l].Pos)
                        ELSE back[l]]
    BY <1>13 DEF RenderOffsets
  <2>3. back' \in [Lamps -> Colors]
    BY <1>1, <1>10, <2>1, <2>2 DEF TypeOK
  <2>4. QED
    BY <1>1, <1>8, <1>13, <2>1, <2>3 DEF RenderOffsets, Rendered, TypeOK
<1>14. CASE UNCHANGED vars
  BY <1>1, <1>14 DEF vars, prgVars, frameVars, TypeOK
<1>15. QED
  BY <1>3, <1>4, <1>5, <1>6, <1>7, <1>12, <1>13, <1>14 DEF Next, Cycle, Render

\* Positions stay below the number of steps, and bytes are bytes, whatever
\* programs and speeds there are and whenever commands come.
THEOREM TypeCorrect == Spec => []TypeOK
<1>1. ProgramInv => TypeOK
  BY DEF ProgramInv
<1>2. QED
  BY <1>1, ProgramInit, ProgramStep, PTL DEF Spec

-----------------------------------------------------------------------------
(* What a rendering of a dynamic program does to one lamp.                 *)

LEMMA DynamicLamp ==
    ASSUME ProgramInv, RenderSimultan \/ RenderOffsets, NEW l \in Lamps
    PROVE  /\ SourceOf(l) \in Lamps
           /\ OldColor(SourceOf(l)) \in Colors
           /\ NextIndex(SourceOf(l)) \in Nat
           /\ transition[SourceOf(l)].Pos \in 0..(PRG_MAX_TRANSITION_STEPS - 1)
           /\ transition'[SourceOf(l)] = [Pos |-> Advanced(transition[SourceOf(l)].Pos),
                                          nextColorIndex |-> NextIndex(SourceOf(l))]
           /\ tmpFrame'[SourceOf(l)] = OldColor(SourceOf(l))
           /\ back'[l] = back'[SourceOf(l)]
           /\ \E new \in ColorsAt(NextIndex(SourceOf(l))) :
                back'[l] = Interpolate(OldColor(SourceOf(l)), new, transition[SourceOf(l)].Pos)
<1>1. TypeOK
  BY DEF ProgramInv
<1>2. 0 \in Lamps
  BY ParameterAssumption DEF Lamps
<1>3. CASE RenderSimultan
  <2>1. SourceOf(l) = 0 /\ Proceed({0})
    BY <1>3 DEF RenderSimultan, SourceOf
  <2>2. PICK new \in ColorsAt(NextIndex(0)) :
          back' = [m \in Lamps |-> Interpolate(OldColor(0), new, transition[0].Pos)]
    BY <1>3 DEF RenderSimultan
  <2>3. back'[l] = Interpolate(OldColor(0), new, transition[0].Pos) /\ back'[l] = back'[0]
    BY <1>2, <2>2
  <2>4. \E n \in ColorsAt(NextIndex(0)) :
          back'[l] = Interpolate(OldColor(0), n, transition[0].Pos)
    BY <2>3
  <2>5. /\ transition'[0] = [Pos |-> Advanced(transition[0].Pos), nextColorIndex |-> NextIndex(0)]
        /\ tmpFrame'[0] = OldColor(0)
    BY <1>2, <2>1 DEF Proceed
  <2>6. OldColor(0) \in Colors /\ NextIndex(0) \in Nat
        /\ transition[0].Pos \in 0..(PRG_MAX_TRANSITION_STEPS - 1)
    BY <1>1, <1>2 DEF TypeOK, OldColor, NextIndex
  <2>7. QED
    BY <1>2, <2>1, <2>3, <2>4, <2>5, <2>6
<1>4. CASE RenderOffsets
  <2>1. SourceOf(l) = l /\ Proceed(Offsets)
    BY <1>4 DEF RenderOffsets, SourceOf
  <2>2. Offsets = Lamps
    BY <1>4 DEF RenderOffsets, Dynamic, ProgramInv, Offsets, Lamps
  <2>3. \E new \in ColorsAt(NextIndex(l)) :
          back'[l] = Interpolate(OldColor(l), new, transition[l].Pos)
    BY <1>4, <2>2 DEF RenderOffsets
  <2>4. QED
    BY <1>1, <2>1, <2>2, <2>3 DEF Proceed, TypeOK, OldColor, NextIndex
<1>5. QED
  BY <1>3, <1>4

\* The source of a lamp depends on the program alone.
LEMMA SameProgram ==
    ASSUME currentPrg' = currentPrg
    PROVE  (Dynamic' <=> Dynamic) /\ \A l : SourceOf(l)' = SourceOf(l)
  BY DEF Dynamic, SourceOf

LEMMA BetweenStep ==
    ProgramInv /\ BetweenColors /\ [Next]_vars => BetweenColors'
<1> SUFFICES ASSUME ProgramInv, BetweenColors, [Next]_vars, step' = "rendered", Dynamic',
                    NEW l \in Lamps,
                    transition'[SourceOf(l)'].nextColorIndex < Len(currentPrg'.colorList),
                    NEW c \in Channels
             PROVE  LET new == currentPrg'.colorList[transition'[SourceOf(l)'].nextColorIndex + 1]
                        old == tmpFrame'[SourceOf(l)']
                    IN  \/ old[c] <= back'[l][c] /\ back'[l][c] <= new[c]
                        \/ new[c] <= back'[l][c] /\ back'[l][c] <= old[c]
  BY DEF BetweenColors
<1>1. CASE RenderSimultan \/ RenderOffsets
  <2> DEFINE s == SourceOf(l)
             old == OldColor(s)
             index == NextIndex(s)
             pos == transition[s].Pos
             new == currentPrg.colorList[index + 1]
  <2>1. currentPrg' = currentPrg /\ currentPrg \in Programs
    BY <1>1 DEF RenderSimultan, RenderOffsets, Rendered, ProgramInv, TypeOK
  <2>2. SourceOf(l)' = s
    BY <2>1, SameProgram
  <2>3. /\ old \in Colors /\ index \in Nat /\ pos \in 0..(PRG_MAX_TRANSITION_STEPS - 1)
        /\ transition'[s].nextColorIndex = index /\ tmpFrame'[s] = old
        /\ \E n \in ColorsAt(index) : back'[l] = Interpolate(old, n, pos)
    <3>1. /\ old \in Colors /\ index \in Nat /\ pos \in 0..(PRG_MAX_TRANSITION_STEPS - 1)
          /\ transition'[s] = [Pos |-> Advanced(pos), nextColorIndex |-> index]
          /\ tmpFrame'[s] = old
      BY <1>1, DynamicLamp
    <3>2. \E n \in ColorsAt(index) : back'[l] = Interpolate(old, n, pos)
      BY <1>1, DynamicLamp
    <3>3. QED
      BY <3>1, <3>2
  <2>4. index < Len(currentPrg.colorList)
    BY <2>1, <2>2, <2>3
  <2>5. new \in Colors /\ ColorsAt(index) = {new}
    BY <2>1, <2>3, <2>4, ColorsAtType
  <2>6. back'[l] = Interpolate(old, new, pos)
    BY <2>3, <2>5
  <2>7. tmpFrame'[SourceOf(l)'] = old
        /\ currentPrg'.colorList[transition'[SourceOf(l)'].nextColorIndex + 1] = new
    BY <2>1, <2>2, <2>3
  <2>8. old[c] \in Bytes /\ new[c] \in Bytes /\ pos \in 0..PRG_MAX_TRANSITION_STEPS
    BY <2>3, <2>5, ParameterAssumption DEF Colors
  <2> HIDE DEF s, old, index, pos, new
  <2>9. back'[l][c] = Mixed(old[c], new[c], pos)
    <3>1. \A d \in Channels : Interpolate(old, new, pos)[d] = Mixed(old[d], new[d], pos)
      BY <2>3, <2>5, <2>8, InterpolateIs
    <3>2. QED
      BY <2>6, <3>1
  <2>10. \/ old[c] <= back'[l][c] /\ back'[l][c] <= new[c]
         \/ new[c] <= back'[l][c] /\ back'[l][c] <= old[c]
    BY <2>8, <2>9, MixedBetween
  <2>11. QED
    BY <2>7, <2>10
<1>2. CASE RenderOff \/ RenderStatic
  BY <1>2, SameProgram DEF RenderOff, RenderStatic, Rendered, Dynamic
<1>3. CASE Command \/ NoCommand \/ WaitFails \/ Swap
  BY <1>3 DEF Command, SwitchOff, SwitchOn, SetSpeed, SetStaticColor, SetProgram, Apply,
              NoCommand, WaitFails, Swap
<1>4. CASE UNCHANGED vars
  <2>1. UNCHANGED <<currentPrg, step, transition, tmpFrame, back>>
    BY <1>4 DEF vars, prgVars, frameVars
  <2>2. (Dynamic' <=> Dynamic) /\ SourceOf(l)' = SourceOf(l)
    BY <2>1, SameProgram
  <2>3. QED
    BY <2>1, <2>2 DEF BetweenColors
<1>5. QED
  BY <1>1, <1>2, <1>3, <1>4 DEF Next, Cycle, Render

\* Every lamp of a finished frame was rendered for it and lies between the
\* colours of its transition.
THEOREM FramesBetweenColors == Spec => []BetweenColors
<1>1. Init => BetweenColors
  BY DEF Init, BetweenColors
<1>2. QED
  BY <1>1, ProgramInit, ProgramStep, BetweenStep, PTL DEF Spec

-----------------------------------------------------------------------------
(* Smoothness.                                                             *)

\* The frame rendered last.
Last(l) == IF step = "rendered" THEN back[l] ELSE front[l]

\* As long as no command came since the last frame, it is the one that the
\* program makes of the transitions one step before where they are now.
ContinuesAt(l) ==
    LET s == SourceOf(l)
        t == transition[s]
    IN  /\ currentPrg.off => Last(l) = Black
        /\ (~currentPrg.off /\ currentPrg.static) => Last(l) = currentPrg.colorList[1]
        /\ (Dynamic /\ t.Pos = 0 /\ s \in Lamps) => Last(l) = Last(s)
        /\ (Dynamic /\ t.Pos # 0 /\ t.nextColorIndex < Len(currentPrg.colorList)) =>
            /\ t.Pos >= currentPrg.speed
            /\ Last(l) = Interpolate(tmpFrame[s], currentPrg.colorList[t.nextColorIndex + 1],
                                     t.Pos - currentPrg.speed)

ContinuesInv == ~changed => \A l \in Lamps : ContinuesAt(l)

LEMMA ContinuesInit == Init => ContinuesInv
  BY DEF Init, ContinuesInv

LEMMA ContinuesStep ==
    ProgramInv /\ ContinuesInv /\ [Next]_vars => ContinuesInv'
<1> SUFFICES ASSUME ProgramInv, ContinuesInv, [Next]_vars, ~changed', NEW l \in Lamps
             PROVE  ContinuesAt(l)'
  BY DEF ContinuesInv
<1>1. TypeOK
  BY DEF ProgramInv
<1>2. ~Command
  BY DEF Command, SwitchOff, SwitchOn, SetSpeed, SetStaticColor, SetProgram, Apply
<1>3. ASSUME currentPrg' = currentPrg, changed' = changed, transition' = transition,
             tmpFrame' = tmpFrame, \A m \in Lamps : Last(m)' = Last(m)
      PROVE  ContinuesAt(l)'
  <2>1. ContinuesAt(l)
    BY <1>3 DEF ContinuesInv
  <2>2. Dynamic' = Dynamic /\ SourceOf(l)' = SourceOf(l) /\ Last(l)' = Last(l)
    BY <1>3 DEF Dynamic, SourceOf
  <2>3. SourceOf(l) \in Lamps => Last(SourceOf(l))' = Last(SourceOf(l))
    BY <1>3, <2>2 DEF Last
  <2>4. QED
    BY <1>3, <2>1, <2>2, <2>3 DEF ContinuesAt, Interpolate
<1>4. CASE NoCommand \/ WaitFails
  <2>1. \A m \in Lamps : Last(m)' = Last(m)
    BY <1>4 DEF NoCommand, WaitFails, frameVars, Last
  <2>2. QED
    BY <1>3, <1>4, <2>1 DEF NoCommand, WaitFails, prgVars, frameVars
<1>5. CASE Swap
  <2>1. \A m \in Lamps : Last(m)' = Last(m)
    BY <1>5 DEF Swap, Last
  <2>2. QED
    BY <1>3, <1>5, <2>1 DEF Swap, prgVars
<1>6. CASE RenderOff
  BY <1>6 DEF RenderOff, Rendered, ContinuesAt, Last, Dynamic, Black
<1>7. CASE RenderStatic
  BY <1>7 DEF RenderStatic, Rendered, ContinuesAt, Last, Dynamic
<1>8. CASE RenderSimultan \/ RenderOffsets
  <2> DEFINE s == SourceOf(l)
             old == OldColor(s)
             index == NextIndex(s)
             pos == transition[s].Pos
             new == currentPrg.colorList[index + 1]
  <2>1. /\ currentPrg' = currentPrg /\ currentPrg \in Programs /\ step' = "rendered" /\ Dynamic
        /\ currentPrg.speed \in Nat
    BY <1>1, <1>8 DEF RenderSimultan, RenderOffsets, Rendered, TypeOK, Programs
  <2>2. SourceOf(l)' = s /\ Dynamic'
    BY <2>1, SameProgram
  <2>3. /\ s \in Lamps /\ old \in Colors /\ index \in Nat
        /\ pos \in 0..(PRG_MAX_TRANSITION_STEPS - 1)
        /\ transition'[s] = [Pos |-> Advanced(pos), nextColorIndex |-> index]
        /\ tmpFrame'[s] = old
        /\ back'[l] = back'[s]
    BY <1>8, DynamicLamp
  <2>4. \E n \in ColorsAt(index) : back'[l] = Interpolate(old, n, pos)
    BY <1>8, DynamicLamp
  <2>5. index < Len(currentPrg.colorList) => back'[l] = Interpolate(old, new, pos)
    BY <2>1, <2>3, <2>4, ColorsAtType
  <2>6. Advanced(pos) # 0 =>
          Advanced(pos) >= currentPrg.speed /\ Advanced(pos) - currentPrg.speed = pos
    BY <2>1, <2>3, ParameterAssumption DEF Advanced
  <2>7. /\ Last(l)' = back'[l] /\ Last(SourceOf(l))' = back'[s]
        /\ transition'[SourceOf(l)'] = [Pos |-> Advanced(pos), nextColorIndex |-> index]
        /\ tmpFrame'[SourceOf(l)'] = old
    BY <2>1, <2>2, <2>3 DEF Last
  <2>8. /\ ~currentPrg.off /\ ~currentPrg.static
    BY <2>1 DEF Dynamic
  <2> HIDE DEF s, old, index, pos
  <2>9. QED
    BY <2>1, <2>2, <2>3, <2>5, <2>6, <2>7, <2>8 DEF ContinuesAt, Interpolate
<1>9. CASE UNCHANGED vars
  <2>1. \A m \in Lamps : Last(m)' = Last(m)
    BY <1>9 DEF vars, frameVars, Last
  <2>2. QED
    BY <1>3, <1>9, <2>1 DEF vars, prgVars, frameVars
<1>10. QED
  BY <1>2, <1>4, <1>5, <1>6, <1>7, <1>8, <1>9 DEF Next, Cycle, Render

LEMMA NoJump ==
    ASSUME ProgramInv, ContinuesInv, [Next]_vars,
           step = "wait", step' = "rendered", ~changed,
           NEW l \in Lamps, InList(l), NEW c \in Channels
    PROVE  Distance(back'[l][c], front[l][c]) <= LargestStep
<1>1. TypeOK /\ ContinuesAt(l) /\ currentPrg \in Programs /\ currentPrg.speed \in Nat
  BY DEF ProgramInv, ContinuesInv, TypeOK, Programs
<1>2. LargestStep = StepOf(currentPrg.speed) /\ LargestStep \in Nat
  BY <1>1, StepType DEF LargestStep, StepOf
<1>3. ASSUME NEW a \in Bytes PROVE Distance(a, a) <= LargestStep
  BY <1>2, ParameterAssumption DEF Distance, Bytes
<1>4. Render
  BY DEF Next, Command, SwitchOff, SwitchOn, SetSpeed, SetStaticColor, SetProgram, Apply,
         Cycle, NoCommand, WaitFails, Swap, vars
<1>5. Last(l) = front[l] /\ front[l] \in Colors /\ front[l][c] \in Bytes
  BY <1>1 DEF Last, TypeOK, Colors
<1>6. CASE RenderOff
  <2>1. back'[l] = Black /\ front[l] = Black
    BY <1>1, <1>5, <1>6 DEF RenderOff, ContinuesAt
  <2>2. QED
    BY <1>3, <1>5, <2>1
<1>7. CASE RenderStatic
  <2>1. back'[l] = currentPrg.colorList[1] /\ front[l] = currentPrg.colorList[1]
    BY <1>1, <1>5, <1>7 DEF RenderStatic, ContinuesAt
  <2>2. QED
    BY <1>3, <1>5, <2>1
<1>8. CASE RenderSimultan \/ RenderOffsets
  <2> DEFINE s == SourceOf(l)
             old == OldColor(s)
             index == NextIndex(s)
             pos == transition[s].Pos
             new == currentPrg.colorList[index + 1]
             speed == currentPrg.speed
  <2>1. Dynamic
    BY <1>8 DEF RenderSimultan, RenderOffsets
  <2>2. /\ s \in Lamps /\ old \in Colors /\ index \in Nat
        /\ pos \in 0..(PRG_MAX_TRANSITION_STEPS - 1)
        /\ pos \in 0..PRG_MAX_TRANSITION_STEPS /\ 0 \in 0..PRG_MAX_TRANSITION_STEPS
    <3>1. s \in Lamps /\ old \in Colors /\ index \in Nat
          /\ pos \in 0..(PRG_MAX_TRANSITION_STEPS - 1)
      BY <1>8, DynamicLamp
    <3>2. QED
      BY <3>1, ParameterAssumption
  <2>3. \E n \in ColorsAt(index) : back'[l] = Interpolate(old, n, pos)
    BY <1>8, DynamicLamp
  <2>4. new \in Colors /\ ColorsAt(index) = {new}
    BY <1>1, <2>2, ColorsAtType DEF InList
  <2>5. back'[l] = Interpolate(old, new, pos)
    BY <2>3, <2>4
  <2>6. old[c] \in Bytes /\ new[c] \in Bytes
    BY <2>2, <2>4 DEF Colors
  <2>7. back'[l][c] = Mixed(old[c], new[c], pos)
    <3> HIDE DEF s, old, index, pos, new
    <3>1. \A d \in Channels : Interpolate(old, new, pos)[d] = Mixed(old[d], new[d], pos)
      BY <2>2, <2>4, InterpolateIs
    <3>2. QED
      BY <2>5, <3>1
  <2>8. CASE pos = 0
    <3>1. Last(l) = Last(s) /\ Last(s) = front[s]
      BY <1>1, <2>1, <2>2, <2>8 DEF ContinuesAt, Last
    <3>2. old = front[l]
      BY <1>5, <2>8, <3>1 DEF OldColor, Begins
    <3>3. back'[l][c] = front[l][c]
      BY <2>6, <2>7, <2>8, <3>2, MixedBegins
    <3>4. QED
      BY <1>3, <1>5, <3>3
  <2>9. CASE pos # 0
    <3>1. old = tmpFrame[s] /\ index = transition[s].nextColorIndex
      BY <2>9 DEF OldColor, NextIndex, Begins
    <3>2. index < Len(currentPrg.colorList)
      BY DEF InList
    <3>3. pos >= speed /\ front[l] = Interpolate(old, new, pos - speed)
      BY <1>1, <1>5, <2>1, <2>9, <3>1, <3>2 DEF ContinuesAt
    <3> HIDE DEF s, old, index, pos, new, speed
    <3>4. speed \in Nat /\ pos - speed \in 0..PRG_MAX_TRANSITION_STEPS
      BY <1>1, <2>2, <3>3, ParameterAssumption DEF speed
    <3>5. front[l][c] = Mixed(old[c], new[c], pos - speed)
      <4>1. \A d \in Channels :
              Interpolate(old, new, pos - speed)[d] = Mixed(old[d], new[d], pos - speed)
        BY <2>2, <2>4, <3>4, InterpolateIs
      <4>2. QED
        BY <3>3, <4>1
    <3>6. Distance(back'[l][c], front[l][c]) <= StepOf(speed)
      BY <2>2, <2>6, <2>7, <3>3, <3>4, <3>5, MixedSmooth
    <3>7. QED
      BY <1>2, <3>6 DEF speed
  <2>10. QED
    BY <2>8, <2>9
<1>9. QED
  BY <1>4, <1>6, <1>7, <1>8 DEF Render

\* No lamp jumps without a command, for all programs, speeds and numbers of
\* steps: a byte changes from frame to frame by no more than the speed allows.
THEOREM LampsAreSmooth == Spec => Smooth
<1>1. ProgramInv /\ ContinuesInv /\ [Next]_vars =>
        [(step = "wait" /\ step' = "rendered" /\ ~changed) =>
            \A l \in Lamps : InList(l) =>
                \A c \in Channels : Distance(back'[l][c], front[l][c]) <= LargestStep]_vars
  BY NoJump
<1>2. QED
  BY <1>1, ProgramInit, ProgramStep, ContinuesInit, ContinuesStep, PTL DEF Spec, Smooth
=============================================================================
