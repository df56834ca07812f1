-------------------------- MODULE RenderOutputCycle --------------------------
(***************************************************************************)
(* The render/output cycle (ROC) of the light controller: the two FreeRTOS *)
(* tasks that share the double frame buffer and hand it to each other      *)
(* through the bits of one event group.                                    *)
(*                                                                         *)
(*   Programs_Task     (priority 1) renders a frame into the back buffer   *)
(*   DMX_Output_Task   (priority 2) swaps the buffers and sends the front  *)
(*   timer interrupt   resumes DMX_Output_Task about 33 times a second     *)
(*   USART interrupt   feeds the frame to the transmitter, byte by byte    *)
(*                                                                         *)
(* The content of a frame is abstracted to the number of the render call   *)
(* that wrote it; the queue of remote commands to "a wait that ends".      *)
(* Time is left out: a timeout may strike whenever its wait is blocked.    *)
(* TimedCycle adds the clocks.                                             *)
(***************************************************************************)
EXTENDS Naturals, Sequences

CONSTANTS
    NUM_LAMPS,              \* lamps a render writes
    MAXIMUM_NUM_LAMPS,      \* lamps a frame holds and the output sends
    NumFrames,              \* frame numbers are counted modulo this bound
    StartCode,              \* the DMX start code, and the variable holding it
    Empty                   \* an empty hardware register

ASSUME LampsAssumption ==
    /\ NUM_LAMPS \in Nat \ {0}
    /\ MAXIMUM_NUM_LAMPS \in Nat
    /\ NUM_LAMPS <= MAXIMUM_NUM_LAMPS

ASSUME FramesAssumption ==
    /\ NumFrames \in Nat
    /\ NumFrames > 2

ASSUME SymbolsAssumption ==
    /\ StartCode \notin Nat
    /\ Empty \notin Nat \cup {StartCode}

VARIABLES
    bits,           \* the event group pROCEventGrp
    frameStatus,    \* which of the two frame buffers is the front buffer
    frameBuffer,    \* frameBuffer[2][MAXIMUM_NUM_LAMPS]
    dmxPc,          \* where DMX_Output_Task is
    prgPc,          \* where Programs_Task is
    itLamp,         \* its lamp index while rendering
    frame,          \* number of the last frame whose rendering began
    intact,         \* the frame being sent began on an idle transmitter
    wire,           \* what has left the pin of such a frame
    \* the DMX USART
    remaining, ptr, txStatus, intEnabled, txcFlag, dataReg, shiftReg

bufferVars == <<frameStatus, frameBuffer>>
prgVars == <<prgPc, itLamp, frame>>
wireVars == <<intact, wire>>
usartVars == <<remaining, ptr, txStatus, intEnabled, txcFlag, dataReg, shiftReg>>
vars == <<bits, bufferVars, dmxPc, prgVars, wireVars, usartVars>>

RUNNING  == "ROC_RUNNING"
FINISHED == "ROC_RENDERING_FINISHED_READY_FOR_OUTPUT"
SWAPPED  == "ROC_BUFFER_SWAPED_READY_FOR_RENDERING"
RocBits  == {RUNNING, FINISHED, SWAPPED}

Lamps  == 1..MAXIMUM_NUM_LAMPS
Frames == 0..(NumFrames - 1)
NextFrame(f) == IF f = NumFrames - 1 THEN 0 ELSE f + 1

Front == frameStatus
Back  == 1 - frameStatus

Usart == INSTANCE UsartTx WITH NoBuffer <- Empty

\* The byte (lamp) the transmit pointer points at.
ByteAt(p) ==
    IF p.buffer = StartCode THEN StartCode ELSE frameBuffer[p.buffer][p.offset + 1]

Init ==
    /\ bits = {RUNNING, SWAPPED}        \* set by Taskhost_Start
    /\ frameStatus = 0
    /\ frameBuffer = [b \in {0, 1} |-> [l \in Lamps |-> 0]]
    /\ dmxPc = "entry"
    /\ prgPc = "receive"
    /\ itLamp = 1
    /\ frame = 0
    /\ intact = FALSE
    /\ wire = << >>
    /\ Usart!UsartInit

-----------------------------------------------------------------------------
(* Scheduling: interrupts come before tasks, and the ready task with the   *)
(* higher priority before the other.                                       *)

DmxReady == dmxPc \notin {"suspended", "waiting", "reporting"}
PrgReady == prgPc \notin {"receiving", "waiting"}

DmxAt(pc) == dmxPc = pc /\ ~Usart!InterruptPending
PrgAt(pc) == prgPc = pc /\ ~Usart!InterruptPending /\ ~DmxReady

-----------------------------------------------------------------------------
(* Faulty variants of operations below: bugs that could be made here, each *)
(* of which some property has to notice.  No specification uses them.      *)

\* DmxGetBits without the test of ROC_RUNNING.
DmxGetBitsUnchecked ==
    /\ DmxAt("getBits")
    /\ dmxPc' = IF FINISHED \in bits THEN "clear" ELSE "waitFinished"
    /\ UNCHANGED <<bits, bufferVars, prgVars, wireVars, usartVars>>

\* DmxGetBits polling for the frame instead of waiting for it.
DmxGetBitsPolling ==
    /\ DmxAt("getBits")
    /\ dmxPc' = IF {RUNNING, FINISHED} \subseteq bits THEN "clear" ELSE "entry"
    /\ UNCHANGED <<bits, bufferVars, prgVars, wireVars, usartVars>>

\* DmxClearFinished without xEventGroupClearBits.
DmxKeepsFinished ==
    /\ DmxAt("clear")
    /\ dmxPc' = "swap"
    /\ UNCHANGED <<bits, bufferVars, prgVars, wireVars, usartVars>>

\* DmxWriteBuffer with a job as long as the rendered lamps, not as the frame.
DmxWriteRendered ==
    /\ DmxAt("buffer")
    /\ IF Usart!Busy
       THEN dmxPc' = "signal" /\ UNCHANGED usartVars
       ELSE dmxPc' = "armBuffer" /\ Usart!Claim(NUM_LAMPS)
    /\ UNCHANGED <<bits, bufferVars, prgVars, wireVars>>

\* DmxWriteBuffer giving the frame up when the transmitter is still busy.
DmxWriteOrSkip ==
    /\ DmxAt("buffer")
    /\ IF Usart!Busy
       THEN dmxPc' = "entry" /\ UNCHANGED usartVars
       ELSE dmxPc' = "armBuffer" /\ Usart!Claim(MAXIMUM_NUM_LAMPS)
    /\ UNCHANGED <<bits, bufferVars, prgVars, wireVars>>

\* DmxArmBuffer with GetBackBuffer().
DmxArmBack ==
    /\ DmxAt("armBuffer")
    /\ Usart!Arm(Back)
    /\ dmxPc' = "signal"
    /\ UNCHANGED <<bits, bufferVars, prgVars, wireVars>>

\* AfterWait not telling the timeout from the bit.
AfterAnyWait(returned) == IF RUNNING \in returned THEN "granted" ELSE "receive"

-----------------------------------------------------------------------------
(* The timer interrupt and the ends of the blocking waits.                 *)

\* xTaskResumeFromISR: a task that is not suspended, in particular one that
\* waits for event bits, is left alone and the tick is lost.
TimerInterrupt ==
    /\ dmxPc' = IF dmxPc = "suspended" THEN "getBits" ELSE dmxPc
    /\ UNCHANGED <<bits, bufferVars, prgVars, wireVars, usartVars>>

\* The 100 ms of DMX_Output_Task's wait have passed.
DmxTimeout ==
    /\ dmxPc = "waiting"
    /\ dmxPc' = "timedOut"
    /\ UNCHANGED <<bits, bufferVars, prgVars, wireVars, usartVars>>

\* The 1000 ms of Programs_Task's wait have passed.
PrgTimeout ==
    /\ prgPc = "waiting"
    /\ prgPc' = "timedOut"
    /\ UNCHANGED <<bits, bufferVars, dmxPc, itLamp, frame, wireVars, usartVars>>

\* The debug output takes the rest of DMX_Output_Task's message.
DmxReportEnds ==
    /\ dmxPc = "reporting"
    /\ dmxPc' = "stop"
    /\ UNCHANGED <<bits, bufferVars, prgVars, wireVars, usartVars>>

\* A remote command arrives, or the 10 ticks of the queue wait have passed.
QueueWaitEnds ==
    /\ prgPc = "receiving"
    /\ prgPc' = "waitSwapped"
    /\ UNCHANGED <<bits, bufferVars, dmxPc, itLamp, frame, wireVars, usartVars>>

-----------------------------------------------------------------------------
(* DMX_Output_Task.                                                        *)

DmxSuspend ==
    /\ DmxAt("entry")
    /\ dmxPc' = "suspended"
    /\ UNCHANGED <<bits, bufferVars, prgVars, wireVars, usartVars>>

DmxGetBits ==
    /\ DmxAt("getBits")
    /\ dmxPc' = IF RUNNING \notin bits THEN "entry"
                ELSE IF FINISHED \in bits THEN "clear" ELSE "waitFinished"
    /\ UNCHANGED <<bits, bufferVars, prgVars, wireVars, usartVars>>

\* xEventGroupWaitBits(FINISHED, clear on exit): the call, ...
DmxWaitFinished ==
    /\ DmxAt("waitFinished")
    /\ bits' = bits \ {FINISHED}
    /\ dmxPc' = IF FINISHED \in bits THEN "clear" ELSE "waiting"
    /\ UNCHANGED <<bufferVars, prgVars, wireVars, usartVars>>

\* ... and its return after the timeout, which looks at the bits once more.
\* Without FINISHED the task reports that (DBG_ERR), which blocks it while the
\* debug output is in use or full, and goes on to stop the cycle.
DmxWaitTimedOut ==
    /\ DmxAt("timedOut")
    /\ bits' = bits \ {FINISHED}
    /\ dmxPc' \in IF FINISHED \in bits THEN {"clear"} ELSE {"reporting", "stop"}
    /\ UNCHANGED <<bufferVars, prgVars, wireVars, usartVars>>

DmxStop ==
    /\ DmxAt("stop")
    /\ bits' = bits \ {RUNNING}
    /\ dmxPc' = "entry"
    /\ UNCHANGED <<bufferVars, prgVars, wireVars, usartVars>>

DmxClearFinished ==
    /\ DmxAt("clear")
    /\ bits' = bits \ {FINISHED}
    /\ dmxPc' = "swap"
    /\ UNCHANGED <<bufferVars, prgVars, wireVars, usartVars>>

\* _SwapBuffer, with the scheduler suspended.
DmxSwapBuffer ==
    /\ DmxAt("swap")
    /\ frameStatus' = 1 - frameStatus
    /\ dmxPc' = "break"
    /\ UNCHANGED <<bits, frameBuffer, prgVars, wireVars, usartVars>>

\* The pin is taken from the USART, driven low for 150 us and given back.
DmxBreak ==
    /\ DmxAt("break")
    /\ intact' = Usart!TransmitterIdle
    /\ wire' = << >>
    /\ dmxPc' = "startCode"
    /\ UNCHANGED <<bits, bufferVars, prgVars, usartVars>>

\* usart_write_job(&startCode); its status is not looked at.
DmxWriteStartCode ==
    /\ DmxAt("startCode")
    /\ IF Usart!Busy
       THEN dmxPc' = "buffer" /\ UNCHANGED usartVars
       ELSE dmxPc' = "armStartCode" /\ Usart!Claim(1)
    /\ UNCHANGED <<bits, bufferVars, prgVars, wireVars>>

DmxArmStartCode ==
    /\ DmxAt("armStartCode")
    /\ Usart!Arm(StartCode)
    /\ dmxPc' = "buffer"
    /\ UNCHANGED <<bits, bufferVars, prgVars, wireVars>>

\* usart_write_buffer_job(GetFrontBuffer()); its status is not looked at.
DmxWriteBuffer ==
    /\ DmxAt("buffer")
    /\ IF Usart!Busy
       THEN dmxPc' = "signal" /\ UNCHANGED usartVars
       ELSE dmxPc' = "armBuffer" /\ Usart!Claim(MAXIMUM_NUM_LAMPS)
    /\ UNCHANGED <<bits, bufferVars, prgVars, wireVars>>

DmxArmBuffer ==
    /\ DmxAt("armBuffer")
    /\ Usart!Arm(Front)
    /\ dmxPc' = "signal"
    /\ UNCHANGED <<bits, bufferVars, prgVars, wireVars>>

\* Where Programs_Task goes with the bits its wait returns: "ROC not running"
\* and "Timeout" both lead back to the queue.
AfterWait(returned) ==
    IF {RUNNING, SWAPPED} \subseteq returned THEN "granted" ELSE "receive"

\* xTaskResumeAll and xEventGroupSetBits(SWAPPED).  A renderer that waits for
\* the bit is released, and its clear-on-exit takes the bit at once.
DmxSignalSwapped ==
    /\ DmxAt("signal")
    /\ dmxPc' = "entry"
    /\ IF prgPc = "waiting"
       THEN /\ bits' = bits \ {SWAPPED}
            /\ prgPc' = AfterWait(bits \cup {SWAPPED})
       ELSE /\ bits' = bits \cup {SWAPPED}
            /\ prgPc' = prgPc
    /\ UNCHANGED <<bufferVars, itLamp, frame, wireVars, usartVars>>

DmxTask ==
    \/ DmxSuspend \/ DmxGetBits \/ DmxWaitFinished \/ DmxWaitTimedOut \/ DmxStop
    \/ DmxClearFinished \/ DmxSwapBuffer \/ DmxBreak
    \/ DmxWriteStartCode \/ DmxArmStartCode \/ DmxWriteBuffer \/ DmxArmBuffer
    \/ DmxSignalSwapped

-----------------------------------------------------------------------------
(* Programs_Task.                                                          *)

\* xQueueReceive: with a command in the queue the task goes on, else it blocks.
PrgReceive ==
    /\ PrgAt("receive")
    /\ prgPc' \in {"waitSwapped", "receiving"}
    /\ UNCHANGED <<bits, bufferVars, dmxPc, itLamp, frame, wireVars, usartVars>>

\* xEventGroupWaitBits(SWAPPED, clear on exit): the call, ...  A stopped cycle
\* loses the SWAPPED bit here.
PrgWaitSwapped ==
    /\ PrgAt("waitSwapped")
    /\ bits' = bits \ {SWAPPED}
    /\ prgPc' = IF SWAPPED \in bits THEN AfterWait(bits) ELSE "waiting"
    /\ UNCHANGED <<bufferVars, dmxPc, itLamp, frame, wireVars, usartVars>>

\* ... and its return after the timeout, which looks at the bits once more.
PrgWaitTimedOut ==
    /\ PrgAt("timedOut")
    /\ bits' = bits \ {SWAPPED}
    /\ prgPc' = AfterWait(bits)
    /\ UNCHANGED <<bufferVars, dmxPc, itLamp, frame, wireVars, usartVars>>

PrgBeginRender ==
    /\ PrgAt("granted")
    /\ prgPc' = "render"
    /\ itLamp' = 1
    /\ frame' = NextFrame(frame)
    /\ UNCHANGED <<bits, bufferVars, dmxPc, wireVars, usartVars>>

\* GetBackBuffer()[itLamp] = ...: the back buffer is looked up for every lamp.
PrgRenderLamp ==
    /\ PrgAt("render")
    /\ frameBuffer' = [frameBuffer EXCEPT ![Back][itLamp] = frame]
    /\ IF itLamp = NUM_LAMPS
       THEN prgPc' = "finish" /\ itLamp' = 1
       ELSE prgPc' = "render" /\ itLamp' = itLamp + 1
    /\ UNCHANGED <<bits, frameStatus, dmxPc, frame, wireVars, usartVars>>

\* xEventGroupSetBits(FINISHED), releasing an output task that waits for it.
PrgSignalFinished ==
    /\ PrgAt("finish")
    /\ prgPc' = "receive"
    /\ IF dmxPc = "waiting"
       THEN bits' = bits \ {FINISHED} /\ dmxPc' = "clear"
       ELSE bits' = bits \cup {FINISHED} /\ dmxPc' = dmxPc
    /\ UNCHANGED <<bufferVars, itLamp, frame, wireVars, usartVars>>

PrgTask ==
    \/ PrgReceive \/ PrgWaitSwapped \/ PrgWaitTimedOut \/ PrgBeginRender
    \/ PrgRenderLamp \/ PrgSignalFinished

-----------------------------------------------------------------------------
(* The transmitter.                                                        *)

UsartHandler ==
    /\ Usart!UsartInterrupt(ByteAt(ptr))
    /\ UNCHANGED <<bits, bufferVars, dmxPc, prgVars, wireVars>>

UsartShiftOut ==
    /\ Usart!ShiftOut
    /\ wire' = IF intact THEN Append(wire, shiftReg) ELSE wire
    /\ UNCHANGED <<bits, bufferVars, dmxPc, prgVars, intact>>

-----------------------------------------------------------------------------
Next ==
    \/ TimerInterrupt \/ DmxTimeout \/ DmxReportEnds \/ PrgTimeout \/ QueueWaitEnds
    \/ DmxTask \/ PrgTask
    \/ UsartHandler \/ UsartShiftOut

Spec == Init /\ [][Next]_vars

\* The scheduler runs the highest ready task, the kernel tick ends the queue
\* wait, the timer keeps firing, the transmitter keeps shifting and the debug
\* output drains.  Nothing is
\* assumed of the other two timeouts: the hand-off must not need them.
Fairness ==
    /\ WF_vars(DmxTask)
    /\ WF_vars(PrgTask)
    /\ WF_vars(TimerInterrupt)
    /\ WF_vars(QueueWaitEnds)
    /\ WF_vars(DmxReportEnds)
    /\ WF_vars(UsartHandler)
    /\ WF_vars(UsartShiftOut)

FairSpec == Spec /\ Fairness

-----------------------------------------------------------------------------
(* Properties.                                                             *)

DmxPcs == {"entry", "suspended", "getBits", "waitFinished", "waiting", "timedOut",
           "reporting", "stop", "clear", "swap", "break", "startCode", "armStartCode", "buffer",
           "armBuffer", "signal"}
PrgPcs == {"receive", "receiving", "waitSwapped", "waiting", "timedOut", "granted",
           "render", "finish"}

\* Every variable keeps its type.
TypeOK ==
    /\ bits \in SUBSET RocBits
    /\ frameStatus \in {0, 1}
    /\ frameBuffer \in [{0, 1} -> [Lamps -> Frames]]
    /\ dmxPc \in DmxPcs
    /\ prgPc \in PrgPcs
    /\ itLamp \in 1..NUM_LAMPS
    /\ frame \in Frames
    /\ intact \in BOOLEAN
    /\ wire \in Seq(Frames \cup {StartCode})
    /\ remaining \in 0..MAXIMUM_NUM_LAMPS
    /\ ptr \in [buffer : {0, 1, StartCode, Empty}, offset : 0..MAXIMUM_NUM_LAMPS]
    /\ txStatus \in {"OK", "BUSY"}
    /\ intEnabled \in SUBSET {"DRE", "TXC"}
    /\ txcFlag \in BOOLEAN
    /\ dataReg \in Frames \cup {StartCode, Empty}
    /\ shiftReg \in Frames \cup {StartCode, Empty}

\* The right to touch the buffers is a token.  It lies in the event group as
\* one of two bits, or is held by one of the two tasks.
SendingPcs == {"swap", "break", "startCode", "armStartCode", "buffer", "armBuffer",
               "signal"}
RendererHolds == prgPc \in {"granted", "render", "finish"}
OutputHolds == dmxPc \in SendingPcs \/ (dmxPc = "clear" /\ FINISHED \notin bits)

TokenPlaces ==
    {p \in {"renderable", "rendering", "displayable", "output"} :
        \/ p = "renderable" /\ SWAPPED \in bits
        \/ p = "rendering" /\ RendererHolds
        \/ p = "displayable" /\ FINISHED \in bits
        \/ p = "output" /\ OutputHolds}

\* There is never more than one token, running or stopped, whatever timeouts
\* strike: the renderer and the output never own the buffers together.
SingleToken == \A p, q \in TokenPlaces : p = q

\* While the cycle runs the token is never lost: no order of waits, timeouts
\* and signals makes both tasks wait for the other's bit.
TokenNotLost == RUNNING \in bits => TokenPlaces # {}

\* The buffer that becomes the front buffer holds, in all rendered lamps, the
\* frame that follows the one shown until then: none torn, skipped or repeated.
FramesInOrder ==
    [][frameStatus' # frameStatus =>
        \A l \in 1..NUM_LAMPS :
            frameBuffer'[Front'][l] = NextFrame(frameBuffer[Front][l])]_vars

\* The renderer starts a transition from the colour in the front buffer
\* (tmpFrame = GetFrontBuffer()): what it reads there is the frame before its
\* own, in every lamp and up to the end of the rendering.
RendererSeesPreviousFrame ==
    prgPc \in {"render", "finish"} =>
        \A l \in 1..NUM_LAMPS : NextFrame(frameBuffer[Front][l]) = frame

\* What a frame looks like on the wire: start code, then the front buffer.
WireFrame == <<StartCode>> \o frameBuffer[Front]

\* A frame that began on an idle transmitter leaves the pin in order and
\* unmixed, although rendering goes on meanwhile.
WireInOrder == intact /\ dmxPc # "break" => wire = SubSeq(WireFrame, 1, Len(wire))

\* And it leaves the pin completely: neither job is refused, and the second
\* does not overtake the first, although their statuses are never looked at.
WireComplete ==
    intact /\ dmxPc \notin SendingPcs /\ Usart!TransmitterIdle => wire = WireFrame

\* Once the cycle is stopped no buffer is swapped any more.
NoSwapWhenStopped == [][frameStatus' # frameStatus => RUNNING \in bits]_vars

-----------------------------------------------------------------------------
(* The cycle implements the hand-off it is meant to be.                    *)

ShownFrame == frameBuffer[Front][1]
RenderedFrame ==
    IF prgPc \in {"render", "finish"} \/ dmxPc \in SendingPcs \ {"swap"}
    THEN ShownFrame ELSE frame

Handoff == INSTANCE FrameHandoff
    WITH rendered <- RenderedFrame, shown <- ShownFrame, running <- RUNNING \in bits

\* Seen as rendered and shown frames only, rendering and showing alternate, and
\* a stop is final, although the tasks meet in event bits, waits and timeouts.
ImplementsHandoff == Handoff!HandoffSafety

\* And while it is not stopped, each of the two keeps following the other.
ImplementsFairHandoff == Handoff!HandoffSpec
=============================================================================
