--------------------------- MODULE ProgramRenderer ---------------------------
(***************************************************************************)
(* The colours: how Programs_Task (core/programs_task.c) applies commands  *)
(* to the light program and renders a frame of it, with the real           *)
(* arithmetic of its transitions.                                          *)
(*                                                                         *)
(* A colour is a function from channels to bytes.  The hand-off of the two *)
(* frame buffers, which RenderOutputCycle models, is one swap here, and    *)
(* what becomes of the command's memory is left to RemoteReceiver.         *)
(***************************************************************************)
EXTENDS Integers, Sequences

CONSTANTS
    NUM_LAMPS,
    Channels,           \* the bytes of a tRgbwColor
    MaxByte,            \* the largest value of one
    PRG_MAX_TRANSITION_STEPS,
    programList,        \* a sequence, the first one runs after the start
    Speeds,             \* the speeds the remote can set
    StaticColors        \* and the colours

Bytes  == 0..MaxByte
Colors == [Channels -> Bytes]
Lamps  == 0..(NUM_LAMPS - 1)
\* tProgram, with its properties as Booleans.
Programs == [colorList : Seq(Colors) \ {<< >>}, speed : Nat, offsets : 0..NUM_LAMPS,
             static : BOOLEAN, simultan : BOOLEAN, off : BOOLEAN]

ASSUME ParameterAssumption ==
    /\ NUM_LAMPS \in Nat \ {0}
    /\ MaxByte \in Nat
    /\ PRG_MAX_TRANSITION_STEPS \in Nat \ {0}
    /\ Speeds \subseteq Nat
    /\ StaticColors \subseteq Colors

ASSUME ProgramAssumption ==
    /\ programList \in Seq(Programs)
    /\ programList # << >>
    /\ \A i \in 1..Len(programList) :
        LET p == programList[i] IN p.static \/ p.simultan \/ p.offsets = NUM_LAMPS

VARIABLES
    currentPrg,
    transition,     \* renderTransition, for every lamp
    tmpFrame,       \* the colours the transitions began with
    front, back,    \* the frame that is shown and the one to be rendered
    step,           \* where the task is in its loop
    changed         \* (history) a command, or the start, came since the last frame

prgVars == <<currentPrg, changed>>
frameVars == <<transition, tmpFrame, back>>
vars == <<prgVars, frameVars, front, step>>

Black == [c \in Channels |-> 0]

\* The lamps of a program with offsets begin at different places.
FirstPos(l) ==
    IF l < programList[1].offsets
    THEN l * (PRG_MAX_TRANSITION_STEPS \div programList[1].offsets)
    ELSE 0

Init ==
    /\ currentPrg = programList[1]
    /\ transition = [l \in Lamps |-> [Pos |-> FirstPos(l), nextColorIndex |-> 0]]
    /\ tmpFrame = [l \in Lamps |-> Black]
    /\ front = [l \in Lamps |-> Black]
    /\ back = [l \in Lamps |-> Black]
    /\ step = "receive"
    /\ changed = TRUE

-----------------------------------------------------------------------------
(* Commands.                                                               *)

Apply(program) ==
    /\ step = "receive"
    /\ step' = "wait"
    /\ currentPrg' = program
    /\ changed' = TRUE
    /\ UNCHANGED <<frameVars, front>>

SwitchOff == Apply([currentPrg EXCEPT !.off = TRUE])
SwitchOn == Apply([currentPrg EXCEPT !.off = FALSE])
SetSpeed == \E s \in Speeds : Apply([currentPrg EXCEPT !.speed = s])

\* constColorProgram with the colour of the command.
SetStaticColor ==
    \E color \in StaticColors :
        Apply([colorList |-> <<color>>, speed |-> 0, offsets |-> 0,
               static |-> TRUE, simultan |-> FALSE, off |-> FALSE])

\* Only the program is replaced: the transitions stay where they are.
SetProgram == \E i \in 1..Len(programList) : Apply(programList[i])

Command == SwitchOff \/ SwitchOn \/ SetSpeed \/ SetStaticColor \/ SetProgram

NoCommand ==
    /\ step = "receive"
    /\ step' = "wait"
    /\ UNCHANGED <<prgVars, frameVars, front>>

\* The wait for the buffers ends without them.
WaitFails ==
    /\ step = "wait"
    /\ step' = "receive"
    /\ UNCHANGED <<prgVars, frameVars, front>>

-----------------------------------------------------------------------------
(* Transitions.                                                            *)

Begins(l) == transition[l].Pos = 0

\* Faulty variant of OldColor: the shown colour not saved.
OldColorNotSaved(l) == tmpFrame[l]

\* The colour the transition began with: the one shown when it begins.
OldColor(l) == IF Begins(l) THEN front[l] ELSE tmpFrame[l]

\* Faulty variant of NextIndex: the last colour left out.
NextIndexTooShort(l) ==
    LET index == transition[l].nextColorIndex IN
    IF ~Begins(l) THEN index
    ELSE IF index >= Len(currentPrg.colorList) - 2 THEN 0 ELSE index + 1

NextIndex(l) ==
    LET index == transition[l].nextColorIndex IN
    IF ~Begins(l) THEN index
    ELSE IF index >= Len(currentPrg.colorList) - 1 THEN 0 ELSE index + 1

\* The colours at an index of the program's list; beyond it, whatever is stored
\* there.
ColorsAt(index) ==
    IF index < Len(currentPrg.colorList) THEN {currentPrg.colorList[index + 1]}
    ELSE Colors

\* "out = old * MaxSteps-TrPos + new * TrPos"
Interpolate(old, new, pos) ==
    [c \in Channels |->
        ((old[c] * (PRG_MAX_TRANSITION_STEPS - pos) + new[c] * pos)
            \div PRG_MAX_TRANSITION_STEPS) % (MaxByte + 1)]

Advanced(pos) ==
    IF pos + currentPrg.speed >= PRG_MAX_TRANSITION_STEPS THEN 0
    ELSE pos + currentPrg.speed

\* The transitions of some lamps go one frame further.
Proceed(lamps) ==
    /\ transition' =
        [l \in Lamps |-> IF l \in lamps
                         THEN [Pos |-> Advanced(transition[l].Pos),
                               nextColorIndex |-> NextIndex(l)]
                         ELSE transition[l]]
    /\ tmpFrame' = [l \in Lamps |-> IF l \in lamps THEN OldColor(l) ELSE tmpFrame[l]]

-----------------------------------------------------------------------------
(* Rendering a frame.                                                      *)

Rendered ==
    /\ step = "wait"
    /\ step' = "rendered"
    /\ changed' = FALSE
    /\ UNCHANGED <<currentPrg, front>>

RenderOff ==
    /\ currentPrg.off
    /\ back' = [l \in Lamps |-> Black]
    /\ Rendered
    /\ UNCHANGED <<transition, tmpFrame>>

RenderStatic ==
    /\ ~currentPrg.off /\ currentPrg.static
    /\ back' = [l \in Lamps |-> currentPrg.colorList[1]]
    /\ Rendered
    /\ UNCHANGED <<transition, tmpFrame>>

Dynamic == ~currentPrg.off /\ ~currentPrg.static

\* Every lamp the same colour, by the transition of the first one.
RenderSimultan ==
    /\ Dynamic /\ currentPrg.simultan
    /\ \E new \in ColorsAt(NextIndex(0)) :
        back' = [l \in Lamps |-> Interpolate(OldColor(0), new, transition[0].Pos)]
    /\ Proceed({0})
    /\ Rendered

\* Faulty variant of Offsets: the last lamp left out.
OffsetsTooFew == 0..(currentPrg.offsets - 2)

Offsets == 0..(currentPrg.offsets - 1)

\* As many lamps as the program has offsets, each by its own transition.
RenderOffsets ==
    /\ Dynamic /\ ~currentPrg.simultan
    /\ \E new \in [Offsets -> UNION {ColorsAt(NextIndex(l)) : l \in Offsets}] :
        /\ \A l \in Offsets : new[l] \in ColorsAt(NextIndex(l))
        /\ back' = [l \in Lamps |->
                        IF l \in Offsets
                        THEN Interpolate(OldColor(l), new[l], transition[l].Pos)
                        ELSE back[l]]
    /\ Proceed(Offsets)
    /\ Rendered

Render == RenderOff \/ RenderStatic \/ RenderSimultan \/ RenderOffsets

Swap ==
    /\ step = "rendered"
    /\ step' = "receive"
    /\ front' = back
    /\ back' = front
    /\ UNCHANGED <<prgVars, transition, tmpFrame>>

Cycle == NoCommand \/ WaitFails \/ Render \/ Swap

Next == Command \/ Cycle

Spec == Init /\ [][Next]_vars

\* The cycle renders for ever (ImplementsFairHandoff of RenderOutputCycle).
FairSpec == Spec /\ WF_vars(Cycle) /\ SF_vars(Render)

-----------------------------------------------------------------------------
(* Properties.                                                             *)

\* Every variable keeps its type; a position stays below the number of steps.
TypeOK ==
    /\ currentPrg \in Programs
    /\ transition \in [Lamps -> [Pos : 0..(PRG_MAX_TRANSITION_STEPS - 1), nextColorIndex : Nat]]
    /\ tmpFrame \in [Lamps -> Colors]
    /\ front \in [Lamps -> Colors]
    /\ back \in [Lamps -> Colors]
    /\ step \in {"receive", "wait", "rendered"}
    /\ changed \in BOOLEAN

Distance(a, b) == IF a > b THEN a - b ELSE b - a

\* The most a byte can change while a transition goes on by its speed.
LargestStep ==
    (MaxByte * currentPrg.speed + PRG_MAX_TRANSITION_STEPS - 1) \div PRG_MAX_TRANSITION_STEPS

\* The transition that colours a lamp, and that it leads to a colour of the list.
SourceOf(l) == IF currentPrg.simultan THEN 0 ELSE l
InList(l) == NextIndex(SourceOf(l)) < Len(currentPrg.colorList)

\* Without a command no lamp jumps: from one frame to the next, and from one
\* transition to the next, a byte changes by no more than the speed allows.
Smooth ==
    [][(step = "wait" /\ step' = "rendered" /\ ~changed) =>
        \A l \in Lamps : InList(l) =>
            \A c \in Channels : Distance(back'[l][c], front[l][c]) <= LargestStep]_vars

\* "linear interpolation between colors": every lamp of a finished frame lies
\* between the colour its transition began with and the one it leads to; nothing
\* of the frame before last is left in the buffer.
BetweenColors ==
    (step = "rendered" /\ Dynamic) =>
        \A l \in Lamps :
            LET index == transition[SourceOf(l)].nextColorIndex
                old == tmpFrame[SourceOf(l)]
            IN  index < Len(currentPrg.colorList) =>
                    \A c \in Channels :
                        LET new == currentPrg.colorList[index + 1] IN
                        \/ old[c] <= back[l][c] /\ back[l][c] <= new[c]
                        \/ new[c] <= back[l][c] /\ back[l][c] <= old[c]

\* The renderer never reads beyond the list of colours.
IndexInList == (step = "wait" /\ Dynamic) => \A l \in Lamps : InList(l)

LongestList ==
    CHOOSE n \in {Len(programList[i].colorList) : i \in 1..Len(programList)} :
        \A i \in 1..Len(programList) : Len(programList[i].colorList) <= n

\* The program runs on and has a colour with this number.
Wanted(k) == Dynamic /\ currentPrg.speed > 0 /\ k <= Len(currentPrg.colorList)

Near(l, k) ==
    k <= Len(currentPrg.colorList)
        /\ \A c \in Channels : Distance(front[l][c], currentPrg.colorList[k][c]) <= LargestStep

\* Once no more commands come, in the middle of whatever transitions the last one
\* did, every colour of the program comes again and again on every lamp, as near
\* as one step.
EveryColorIsShown ==
    \A l \in Lamps, k \in 1..LongestList :
        (<>[][~Command]_vars /\ <>[]Wanted(k)) => []<>Near(l, k)
=============================================================================
