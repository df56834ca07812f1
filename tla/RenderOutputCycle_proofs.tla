---------------------- MODULE RenderOutputCycle_proofs ----------------------
(***************************************************************************)
(* Proofs about the render/output cycle, for every number of lamps and     *)
(* every length of the frame count.                                        *)
(***************************************************************************)
EXTENDS RenderOutputCycle, TLAPS

\* The hand-off as one inductive invariant: the token, and what running, the
\* priorities and the order of the calls in DMX_Output_Task contribute.
OutputRuns ==
    dmxPc \in {"waitFinished", "waiting", "timedOut", "reporting", "stop", "clear"}
        \cup SendingPcs
        => RUNNING \in bits

TokenInv == SingleToken /\ TokenNotLost /\ OutputRuns

\* The token definitions, written out as a formula about bits and places.
LEMMA TokenForm ==
    /\ SingleToken <=>
        /\ ~(SWAPPED \in bits /\ RendererHolds)
        /\ ~(SWAPPED \in bits /\ FINISHED \in bits)
        /\ ~(SWAPPED \in bits /\ OutputHolds)
        /\ ~(RendererHolds /\ FINISHED \in bits)
        /\ ~(RendererHolds /\ OutputHolds)
        /\ ~(FINISHED \in bits /\ OutputHolds)
    /\ TokenNotLost <=>
        (RUNNING \in bits =>
            SWAPPED \in bits \/ RendererHolds \/ FINISHED \in bits \/ OutputHolds)
<1>1. RendererHolds \in BOOLEAN /\ OutputHolds \in BOOLEAN
  BY DEF RendererHolds, OutputHolds
<1>2. QED
  BY <1>1 DEF SingleToken, TokenNotLost, TokenPlaces

LEMMA TokenInit == Init => TokenInv
  BY TokenForm DEF Init, TokenInv, OutputRuns, SendingPcs,
     RendererHolds, OutputHolds, RUNNING, FINISHED, SWAPPED

\* No step of the two tasks, of an interrupt or of a timeout breaks the hand-off.
LEMMA TokenStep == TokenInv /\ [Next]_vars => TokenInv'
<1> SUFFICES ASSUME TokenInv, [Next]_vars PROVE TokenInv'
  OBVIOUS
<1> USE DEF RUNNING, FINISHED, SWAPPED
<1> DEFINE Form ==
      /\ ~(SWAPPED \in bits /\ RendererHolds)
      /\ ~(SWAPPED \in bits /\ FINISHED \in bits)
      /\ ~(SWAPPED \in bits /\ OutputHolds)
      /\ ~(RendererHolds /\ FINISHED \in bits)
      /\ ~(RendererHolds /\ OutputHolds)
      /\ ~(FINISHED \in bits /\ OutputHolds)
      /\ RUNNING \in bits =>
            SWAPPED \in bits \/ RendererHolds \/ FINISHED \in bits \/ OutputHolds
      /\ OutputRuns
     
<1>1. Form
  BY TokenForm DEF TokenInv
<1>2. (SingleToken' /\ TokenNotLost') <=>
      /\ ~(SWAPPED \in bits' /\ RendererHolds')
      /\ ~(SWAPPED \in bits' /\ FINISHED \in bits')
      /\ ~(SWAPPED \in bits' /\ OutputHolds')
      /\ ~(RendererHolds' /\ FINISHED \in bits')
      /\ ~(RendererHolds' /\ OutputHolds')
      /\ ~(FINISHED \in bits' /\ OutputHolds')
      /\ RUNNING \in bits' =>
            SWAPPED \in bits' \/ RendererHolds' \/ FINISHED \in bits' \/ OutputHolds'
  <2>1. RendererHolds' \in BOOLEAN /\ OutputHolds' \in BOOLEAN
    BY DEF RendererHolds, OutputHolds
  <2>2. QED
    BY <2>1 DEF SingleToken, TokenNotLost, TokenPlaces
<1>3. SUFFICES Form'
  BY <1>2 DEF TokenInv
<1> USE <1>1 DEF RendererHolds, OutputHolds, SendingPcs, OutputRuns,
      DmxAt, PrgAt, DmxReady, AfterWait,
      prgVars
<1>4. CASE TimerInterrupt
  BY <1>4 DEF TimerInterrupt
<1>5. CASE DmxTimeout \/ DmxReportEnds
  BY <1>5 DEF DmxTimeout, DmxReportEnds
<1>6. CASE PrgTimeout
  BY <1>6 DEF PrgTimeout
<1>7. CASE QueueWaitEnds
  BY <1>7 DEF QueueWaitEnds
<1>8. CASE DmxTask
  <2>1. CASE DmxSuspend
    BY <2>1 DEF DmxSuspend
  <2>2. CASE DmxGetBits
    BY <2>2 DEF DmxGetBits
  <2>3. CASE DmxWaitFinished
    BY <2>3 DEF DmxWaitFinished
  <2>4. CASE DmxWaitTimedOut
    BY <2>4 DEF DmxWaitTimedOut
  <2>5. CASE DmxStop
    BY <2>5 DEF DmxStop
  <2>6. CASE DmxClearFinished
    BY <2>6 DEF DmxClearFinished
  <2>7. CASE DmxSwapBuffer
    BY <2>7 DEF DmxSwapBuffer
  <2>8. CASE DmxBreak
    BY <2>8 DEF DmxBreak
  <2>9. CASE DmxWriteStartCode
    BY <2>9 DEF DmxWriteStartCode
  <2>10. CASE DmxArmStartCode
    BY <2>10 DEF DmxArmStartCode
  <2>11. CASE DmxWriteBuffer
    BY <2>11 DEF DmxWriteBuffer
  <2>12. CASE DmxArmBuffer
    BY <2>12 DEF DmxArmBuffer
  <2>13. CASE DmxSignalSwapped
    BY <2>13 DEF DmxSignalSwapped
  <2>14. QED
    BY <1>8, <2>1, <2>2, <2>3, <2>4, <2>5, <2>6, <2>7, <2>8, <2>9, <2>10, <2>11, <2>12, <2>13 DEF DmxTask
<1>9. CASE PrgTask
  <2>1. CASE PrgReceive
    BY <2>1 DEF PrgReceive
  <2>2. CASE PrgWaitSwapped
    BY <2>2 DEF PrgWaitSwapped
  <2>3. CASE PrgWaitTimedOut
    BY <2>3 DEF PrgWaitTimedOut
  <2>4. CASE PrgBeginRender
    BY <2>4 DEF PrgBeginRender
  <2>5. CASE PrgRenderLamp
    BY <2>5 DEF PrgRenderLamp
  <2>6. CASE PrgSignalFinished
    BY <2>6 DEF PrgSignalFinished
  <2>7. QED
    BY <1>9, <2>1, <2>2, <2>3, <2>4, <2>5, <2>6 DEF PrgTask
<1>10. CASE UsartHandler
  BY <1>10 DEF UsartHandler
<1>11. CASE UsartShiftOut
  BY <1>11 DEF UsartShiftOut
<1>12. CASE UNCHANGED vars
  BY <1>12 DEF vars
<1>13. QED
  BY <1>4, <1>5, <1>6, <1>7, <1>8, <1>9, <1>10, <1>11, <1>12 DEF Next

\* For every number of lamps and whatever timeouts strike, the renderer and the
\* output never own the buffers together.
THEOREM BuffersNeverShared == Spec => []SingleToken
<1>1. TokenInv => SingleToken
  BY DEF TokenInv
<1>2. QED
  BY TokenInit, TokenStep, <1>1, PTL DEF Spec

-----------------------------------------------------------------------------
(* Type correctness.  The types of the USART driver rest on how the two jobs *)
(* are claimed and armed: while the data-register-empty interrupt is enabled *)
(* there is something to send and the pointer stays inside its buffer.       *)

JobInv ==
    /\ "DRE" \in intEnabled =>
        /\ remaining > 0
        /\ ptr.buffer \in {0, 1, StartCode}
        /\ ptr.offset + remaining <= MAXIMUM_NUM_LAMPS
    /\ dmxPc = "armStartCode" => remaining = 1 /\ "DRE" \notin intEnabled
    /\ dmxPc = "armBuffer" => remaining = MAXIMUM_NUM_LAMPS /\ "DRE" \notin intEnabled

TypeInv == TypeOK /\ JobInv

LEMMA TypeInit == Init => TypeInv
<1> SUFFICES ASSUME Init PROVE TypeInv
  OBVIOUS
<1> USE LampsAssumption, FramesAssumption DEF Init, Usart!UsartInit
<1>1. wire \in Seq(Frames \cup {StartCode})
  OBVIOUS
<1>2. bits \in SUBSET RocBits
  BY DEF RocBits
<1>3. frameBuffer \in [{0, 1} -> [Lamps -> Frames]] /\ frame \in Frames
  BY DEF Frames
<1>4. ptr \in [buffer : {0, 1, StartCode, Empty}, offset : 0..MAXIMUM_NUM_LAMPS]
  OBVIOUS
<1>5. dmxPc \in DmxPcs /\ prgPc \in PrgPcs
  BY DEF DmxPcs, PrgPcs
<1>6. itLamp \in 1..NUM_LAMPS /\ remaining \in 0..MAXIMUM_NUM_LAMPS
  OBVIOUS
<1>7. dataReg = Empty /\ shiftReg = Empty /\ frameStatus \in {0, 1}
  OBVIOUS
<1>8. intact \in BOOLEAN /\ txcFlag \in BOOLEAN
  OBVIOUS
<1>9. intEnabled \in SUBSET {"DRE", "TXC"} /\ txStatus \in {"OK", "BUSY"}
  OBVIOUS
<1> HIDE DEF Init, Usart!UsartInit
<1>10. TypeOK
  BY <1>1, <1>2, <1>3, <1>4, <1>5, <1>6, <1>7, <1>8, <1>9 DEF TypeOK
<1>11. JobInv
  BY DEF JobInv, Init, Usart!UsartInit
<1>12. QED
  BY <1>10, <1>11 DEF TypeInv

\* The byte under the pointer, while DRE is enabled.
LEMMA ByteType ==
    ASSUME TypeInv, "DRE" \in intEnabled
    PROVE  ByteAt(ptr) \in Frames \cup {StartCode}
<1>1. CASE ptr.buffer = StartCode
  BY <1>1 DEF ByteAt
<1>2. CASE ptr.buffer # StartCode
  <2>1. ptr.buffer \in {0, 1} /\ ptr.offset + 1 \in Lamps
    BY <1>2, LampsAssumption DEF TypeInv, TypeOK, JobInv, Lamps
  <2>2. frameBuffer[ptr.buffer][ptr.offset + 1] \in Frames
    BY <2>1 DEF TypeInv, TypeOK
  <2>3. QED
    BY <1>2, <2>2 DEF ByteAt
<1>3. QED
  BY <1>1, <1>2

LEMMA HandlerType == TypeInv /\ UsartHandler => TypeInv'
<1> SUFFICES ASSUME TypeInv, UsartHandler PROVE TypeInv'
  OBVIOUS
<1> DEFINE byte == ByteAt(ptr)
<1>1. /\ UNCHANGED <<bits, frameStatus, frameBuffer, dmxPc, prgPc, itLamp, frame, intact, wire>>
      /\ Usart!UsartInterrupt(byte)
  BY DEF UsartHandler, bufferVars, prgVars, wireVars
<1>2. /\ intEnabled' \in SUBSET {"DRE", "TXC"}
      /\ txStatus' \in {"OK", "BUSY"}
  BY <1>1 DEF Usart!UsartInterrupt, Usart!EnabledAfterDre, TypeInv, TypeOK
<1>3. CASE Usart!DrePending
  <2>1. "DRE" \in intEnabled /\ remaining > 0
    BY <1>3 DEF Usart!DrePending, TypeInv, JobInv
  <2>2. /\ Usart!WriteData(byte)
        /\ ptr' = [ptr EXCEPT !.offset = @ + 1]
        /\ remaining' = remaining - 1
    BY <1>1, <1>3, <2>1 DEF Usart!UsartInterrupt, Usart!ServeDre
  <2>3. byte \in Frames \cup {StartCode}
    BY <2>1, ByteType
  <2>4. /\ txcFlag' \in BOOLEAN
        /\ dataReg' \in Frames \cup {StartCode, Empty}
        /\ shiftReg' \in Frames \cup {StartCode, Empty}
    BY <2>2, <2>3 DEF Usart!WriteData, TypeInv, TypeOK
  <2>5. /\ remaining' \in 0..MAXIMUM_NUM_LAMPS
        /\ ptr' \in [buffer : {0, 1, StartCode, Empty}, offset : 0..MAXIMUM_NUM_LAMPS]
    BY <2>1, <2>2, LampsAssumption DEF TypeInv, TypeOK, JobInv
  <2>6. TypeOK'
    BY <1>1, <1>2, <2>4, <2>5 DEF TypeInv, TypeOK
  <2>7. "DRE" \in intEnabled' => remaining > 1
    BY <1>1, <1>3, <2>1 DEF Usart!UsartInterrupt, Usart!EnabledAfterDre, TypeInv, TypeOK
  <2>8. JobInv'
    BY <1>1, <2>1, <2>2, <2>7, LampsAssumption DEF TypeInv, TypeOK, JobInv
  <2>9. QED
    BY <2>6, <2>8 DEF TypeInv
<1>4. CASE ~Usart!DrePending
  <2>1. UNCHANGED <<txcFlag, dataReg, shiftReg, ptr, remaining>>
    BY <1>1, <1>4 DEF Usart!UsartInterrupt, Usart!ServeDre
  <2>2. TypeOK'
    BY <1>1, <1>2, <2>1 DEF TypeInv, TypeOK
  <2>3. "DRE" \in intEnabled' => "DRE" \in intEnabled
    BY <1>1, <1>4 DEF Usart!UsartInterrupt
  <2>4. JobInv'
    BY <1>1, <2>1, <2>3 DEF TypeInv, JobInv
  <2>5. QED
    BY <2>2, <2>4 DEF TypeInv
<1>5. QED
  BY <1>3, <1>4

LEMMA ShiftOutType == TypeInv /\ UsartShiftOut => TypeInv'
<1> SUFFICES ASSUME TypeInv, UsartShiftOut PROVE TypeInv'
  OBVIOUS
<1>1. /\ UNCHANGED <<bits, frameStatus, frameBuffer, dmxPc, prgPc, itLamp, frame, intact>>
      /\ UNCHANGED <<remaining, ptr, txStatus, intEnabled>>
      /\ shiftReg # Empty
      /\ shiftReg' = dataReg
      /\ dataReg' = Empty
      /\ txcFlag' \in BOOLEAN
      /\ wire' = IF intact THEN Append(wire, shiftReg) ELSE wire
  BY DEF UsartShiftOut, Usart!ShiftOut, Usart!driver, bufferVars, prgVars
<1>2. wire' \in Seq(Frames \cup {StartCode})
  BY <1>1 DEF TypeInv, TypeOK
<1>3. TypeOK'
  BY <1>1, <1>2 DEF TypeInv, TypeOK
<1>4. JobInv'
  BY <1>1 DEF TypeInv, JobInv
<1>5. QED
  BY <1>3, <1>4 DEF TypeInv

\* No step changes the type of a variable, and the transmit pointer never runs
\* out of its buffer.
LEMMA TypeStep == TypeInv /\ [Next]_vars => TypeInv'
<1> SUFFICES ASSUME TypeInv, [Next]_vars PROVE TypeInv'
  OBVIOUS
<1> USE LampsAssumption, FramesAssumption
      DEF TypeInv, TypeOK, JobInv, DmxPcs, PrgPcs, RocBits, RUNNING, FINISHED, SWAPPED,
          DmxAt, PrgAt, usartVars, bufferVars, prgVars, wireVars
<1>1. CASE TimerInterrupt
  BY <1>1 DEF TimerInterrupt
<1>2. CASE DmxTimeout \/ DmxReportEnds
  BY <1>2, ZenonT(60) DEF DmxTimeout, DmxReportEnds
<1>3. CASE PrgTimeout
  BY <1>3 DEF PrgTimeout
<1>4. CASE QueueWaitEnds
  BY <1>4 DEF QueueWaitEnds
<1>5. CASE DmxTask
  <2>1. CASE DmxSuspend
    BY <2>1 DEF DmxSuspend
  <2>2. CASE DmxGetBits
    BY <2>2 DEF DmxGetBits
  <2>3. CASE DmxWaitFinished
    BY <2>3 DEF DmxWaitFinished
  <2>4. CASE DmxWaitTimedOut
    BY <2>4 DEF DmxWaitTimedOut
  <2>5. CASE DmxStop
    BY <2>5 DEF DmxStop
  <2>6. CASE DmxClearFinished
    BY <2>6 DEF DmxClearFinished
  <2>7. CASE DmxSwapBuffer
    BY <2>7 DEF DmxSwapBuffer
  <2>8. CASE DmxBreak
    BY <2>8 DEF DmxBreak, Usart!TransmitterIdle
  <2>9. CASE DmxWriteStartCode
    <3>1. UNCHANGED <<bits, bufferVars, prgVars, wireVars>>
      BY <2>9 DEF DmxWriteStartCode
    <3>2. UNCHANGED <<ptr, txStatus, intEnabled, txcFlag, dataReg, shiftReg>>
      BY <2>9 DEF DmxWriteStartCode, Usart!Claim, Usart!hardware
    <3>3. CASE Usart!Busy
      BY <2>9, <3>1, <3>2, <3>3 DEF DmxWriteStartCode
    <3>4. CASE ~Usart!Busy
      <4>1. dmxPc' = "armStartCode" /\ remaining = 0 /\ remaining' = 1
        BY <2>9, <3>4 DEF DmxWriteStartCode, Usart!Claim, Usart!Busy
      <4>2. QED
        BY <3>1, <3>2, <4>1
    <3>5. QED
      BY <3>3, <3>4
  <2>10. CASE DmxArmStartCode
    BY <2>10 DEF DmxArmStartCode, Usart!Arm
  <2>11. CASE DmxWriteBuffer
    <3>1. UNCHANGED <<bits, bufferVars, prgVars, wireVars>>
      BY <2>11 DEF DmxWriteBuffer
    <3>2. UNCHANGED <<ptr, txStatus, intEnabled, txcFlag, dataReg, shiftReg>>
      BY <2>11 DEF DmxWriteBuffer, Usart!Claim, Usart!hardware
    <3>3. CASE Usart!Busy
      BY <2>11, <3>1, <3>2, <3>3 DEF DmxWriteBuffer
    <3>4. CASE ~Usart!Busy
      <4>1. dmxPc' = "armBuffer" /\ remaining = 0 /\ remaining' = MAXIMUM_NUM_LAMPS
        BY <2>11, <3>4 DEF DmxWriteBuffer, Usart!Claim, Usart!Busy
      <4>2. QED
        BY <3>1, <3>2, <4>1
    <3>5. QED
      BY <3>3, <3>4
  <2>12. CASE DmxArmBuffer
    BY <2>12 DEF DmxArmBuffer, Usart!Arm, Front
  <2>13. CASE DmxSignalSwapped
    <3>1. bits' \in SUBSET RocBits
      BY <2>13 DEF DmxSignalSwapped
    <3>2. dmxPc' = "entry" /\ prgPc' \in PrgPcs
      BY <2>13 DEF DmxSignalSwapped, AfterWait
    <3>3. UNCHANGED <<bufferVars, itLamp, frame, wireVars, usartVars>>
      BY <2>13 DEF DmxSignalSwapped
    <3>4. QED
      BY <3>1, <3>2, <3>3
  <2>14. QED
    BY <1>5, <2>1, <2>2, <2>3, <2>4, <2>5, <2>6, <2>7, <2>8, <2>9, <2>10, <2>11, <2>12, <2>13 DEF DmxTask
<1>6. CASE PrgTask
  <2>1. CASE PrgReceive
    BY <2>1 DEF PrgReceive
  <2>2. CASE PrgWaitSwapped
    BY <2>2 DEF PrgWaitSwapped, AfterWait
  <2>3. CASE PrgWaitTimedOut
    BY <2>3 DEF PrgWaitTimedOut, AfterWait
  <2>4. CASE PrgBeginRender
    BY <2>4 DEF PrgBeginRender, NextFrame, Frames
  <2>5. CASE PrgRenderLamp
    BY <2>5 DEF PrgRenderLamp, Back, Lamps
  <2>6. CASE PrgSignalFinished
    <3>1. bits' \in SUBSET RocBits
      BY <2>6 DEF PrgSignalFinished
    <3>2. prgPc' = "receive" /\ dmxPc' \in {"clear", dmxPc}
      BY <2>6 DEF PrgSignalFinished
    <3>3. UNCHANGED <<bufferVars, itLamp, frame, wireVars, usartVars>>
      BY <2>6 DEF PrgSignalFinished
    <3>4. QED
      BY <3>1, <3>2, <3>3
  <2>7. QED
    BY <1>6, <2>1, <2>2, <2>3, <2>4, <2>5, <2>6 DEF PrgTask
<1>7. CASE UsartHandler
  BY <1>7, HandlerType
<1>8. CASE UsartShiftOut
  BY <1>8, ShiftOutType
<1>9. CASE UNCHANGED vars
  BY <1>9 DEF vars
<1>10. QED
  BY <1>1, <1>2, <1>3, <1>4, <1>5, <1>6, <1>7, <1>8, <1>9 DEF Next

\* Every variable keeps its type, for every number of lamps and frames.
THEOREM TypeCorrect == Spec => []TypeOK
<1>1. TypeInv => TypeOK
  BY DEF TypeInv
<1>2. QED
  BY TypeInit, TypeStep, <1>1, PTL DEF Spec

-----------------------------------------------------------------------------
(* The order of the frames.  Who holds the token decides what the two        *)
(* buffers contain: before a rendering the newest frame is in front, after   *)
(* it the newest frame fills the back buffer and follows the one in front.   *)

Filled(b, f) == \A l \in 1..NUM_LAMPS : frameBuffer[b][l] = f
BackIsNext == NextFrame(ShownFrame) = frame /\ Filled(Back, frame)
FrontIsNewest == ShownFrame = frame

FrameInv ==
    /\ Filled(Front, ShownFrame)
    /\ prgPc = "render" =>
        /\ NextFrame(ShownFrame) = frame
        /\ \A l \in 1..NUM_LAMPS : l < itLamp => frameBuffer[Back][l] = frame
    /\ prgPc = "finish" \/ FINISHED \in bits \/ dmxPc \in {"clear", "swap"} => BackIsNext
    /\ SWAPPED \in bits \/ prgPc = "granted" \/ dmxPc \in SendingPcs \ {"swap"}
        => FrontIsNewest

LEMMA FrameInit == Init => FrameInv
<1> SUFFICES ASSUME Init PROVE FrameInv
  OBVIOUS
<1>1. \A l \in 1..NUM_LAMPS : frameBuffer[0][l] = 0
  BY LampsAssumption DEF Init, Lamps
<1>2. ShownFrame = 0 /\ frameStatus = 0
  BY <1>1, LampsAssumption DEF Init, ShownFrame, Front
<1>3. QED
  BY <1>1, <1>2 DEF Init, FrameInv, Filled, Front, FrontIsNewest, SendingPcs, FINISHED,
     SWAPPED, RUNNING

\* The three exclusions of the token that the order rests on.
LEMMA Exclusion ==
    ASSUME TokenInv
    PROVE  /\ RendererHolds => /\ SWAPPED \notin bits
                               /\ FINISHED \notin bits
                               /\ dmxPc \notin SendingPcs
                               /\ dmxPc # "clear"
           /\ dmxPc \in SendingPcs => /\ FINISHED \notin bits
                                      /\ SWAPPED \notin bits
           /\ dmxPc = "clear" \/ FINISHED \in bits => SWAPPED \notin bits
<1> RendererHolds \in BOOLEAN /\ OutputHolds \in BOOLEAN
  BY DEF RendererHolds, OutputHolds
<1> QED
  BY TokenForm DEF TokenInv, OutputHolds

\* A step that leaves the buffers and the frame number alone moves the claims
\* about their contents with the token.
LEMMA FrameUnchanged ==
    ASSUME UNCHANGED <<frameStatus, frameBuffer, frame>>
    PROVE  /\ (Filled(Front, ShownFrame))' <=> Filled(Front, ShownFrame)
           /\ BackIsNext' <=> BackIsNext
           /\ FrontIsNewest' <=> FrontIsNewest
           /\ UNCHANGED <<ShownFrame, Back>>
  BY DEF Filled, BackIsNext, FrontIsNewest, ShownFrame, Front, Back, NextFrame

LEMMA FrameStep == TypeInv /\ TokenInv /\ FrameInv /\ [Next]_vars => FrameInv'
<1> SUFFICES ASSUME TypeInv, TokenInv, FrameInv, [Next]_vars PROVE FrameInv'
  OBVIOUS
<1> USE DEF RUNNING, FINISHED, SWAPPED, DmxAt, PrgAt, SendingPcs
<1>1. CASE DmxSwapBuffer
  <2>1. /\ dmxPc = "swap" /\ dmxPc' = "break"
        /\ frameStatus' = 1 - frameStatus
        /\ UNCHANGED <<bits, frameBuffer, prgPc, itLamp, frame>>
    BY <1>1 DEF DmxSwapBuffer, prgVars
  <2>2. BackIsNext /\ Front' = Back
    BY <2>1 DEF FrameInv, Front, Back
  <2>3. Filled(Front', frame) /\ ShownFrame' = frame
    BY <2>1, <2>2, LampsAssumption DEF BackIsNext, Filled, ShownFrame
  <2>4. (Filled(Front, ShownFrame))'
    BY <2>1, <2>3 DEF Filled
  <2>5. FrontIsNewest'
    BY <2>1, <2>3 DEF FrontIsNewest
  <2>6. prgPc' \notin {"render", "finish"} /\ FINISHED \notin bits'
    BY <2>1, Exclusion DEF RendererHolds
  <2>7. QED
    BY <2>1, <2>4, <2>5, <2>6 DEF FrameInv
<1>2. CASE PrgBeginRender
  <2>1. /\ prgPc = "granted" /\ prgPc' = "render" /\ itLamp' = 1
        /\ frame' = NextFrame(frame)
        /\ UNCHANGED <<bits, frameStatus, frameBuffer, dmxPc>>
    BY <1>2 DEF PrgBeginRender, bufferVars
  <2>2. UNCHANGED <<ShownFrame, Front>>
    BY <2>1 DEF ShownFrame, Front
  <2>3. (Filled(Front, ShownFrame))'
    BY <2>1, <2>2 DEF FrameInv, Filled
  <2>4. NextFrame(ShownFrame)' = frame'
    BY <2>1, <2>2 DEF FrameInv, FrontIsNewest, NextFrame
  <2>5. /\ dmxPc' \notin SendingPcs /\ dmxPc' # "clear"
        /\ SWAPPED \notin bits' /\ FINISHED \notin bits'
    BY <2>1, Exclusion DEF RendererHolds
  <2>6. QED
    BY <2>1, <2>3, <2>4, <2>5 DEF FrameInv
<1>3. CASE PrgRenderLamp
  <2>1. /\ prgPc = "render"
        /\ frameBuffer' = [frameBuffer EXCEPT ![Back][itLamp] = frame]
        /\ UNCHANGED <<bits, frameStatus, dmxPc, frame>>
        /\ IF itLamp = NUM_LAMPS
           THEN prgPc' = "finish" /\ itLamp' = 1
           ELSE prgPc' = "render" /\ itLamp' = itLamp + 1
    BY <1>3 DEF PrgRenderLamp
  <2>2. /\ Back \in {0, 1} /\ Front \in {0, 1} /\ Back # Front
        /\ frameBuffer \in [{0, 1} -> [Lamps -> Frames]]
        /\ itLamp \in 1..NUM_LAMPS /\ 1..NUM_LAMPS \subseteq Lamps
        /\ UNCHANGED <<Front, Back>>
    BY <2>1, LampsAssumption DEF TypeInv, TypeOK, Front, Back, Lamps
  <2>3. frameBuffer'[Front] = frameBuffer[Front]
    BY <2>1, <2>2
  <2>4. UNCHANGED ShownFrame /\ (Filled(Front, ShownFrame))'
    BY <2>2, <2>3 DEF ShownFrame, Filled, FrameInv
  <2>5. \A l \in 1..NUM_LAMPS : l < itLamp + 1 => frameBuffer'[Back][l] = frame
    BY <2>1, <2>2, LampsAssumption DEF FrameInv
  <2>6. NextFrame(ShownFrame)' = frame'
    BY <2>1, <2>4 DEF FrameInv, NextFrame
  <2>7. itLamp = NUM_LAMPS => BackIsNext'
    BY <2>1, <2>2, <2>5, <2>6, LampsAssumption DEF BackIsNext, Filled
  <2>8. /\ dmxPc' \notin SendingPcs /\ dmxPc' # "clear"
        /\ SWAPPED \notin bits' /\ FINISHED \notin bits'
    BY <2>1, Exclusion DEF RendererHolds
  <2>9. QED
    BY <2>1, <2>2, <2>4, <2>5, <2>6, <2>7, <2>8 DEF FrameInv
<1>4. ASSUME UNCHANGED <<frameStatus, frameBuffer, frame>>,
             prgPc' = "render" => prgPc = "render" /\ itLamp' = itLamp,
             prgPc' = "finish" \/ FINISHED \in bits' \/ dmxPc' \in {"clear", "swap"}
                => prgPc = "finish" \/ FINISHED \in bits \/ dmxPc \in {"clear", "swap"},
             SWAPPED \in bits' \/ prgPc' = "granted" \/ dmxPc' \in SendingPcs \ {"swap"}
                => SWAPPED \in bits \/ prgPc = "granted" \/ dmxPc \in SendingPcs \ {"swap"}
      PROVE  FrameInv'
  <2>1. (Filled(Front, ShownFrame))' /\ UNCHANGED <<ShownFrame, Back>>
    BY <1>4, FrameUnchanged DEF FrameInv
  <2>2. prgPc' = "render" =>
          /\ NextFrame(ShownFrame)' = frame'
          /\ \A l \in 1..NUM_LAMPS : l < itLamp' => frameBuffer'[Back'][l] = frame'
    BY <1>4, <2>1 DEF FrameInv, NextFrame
  <2>3. QED
    BY <1>4, <2>1, <2>2, FrameUnchanged DEF FrameInv
<1> USE DEF bufferVars, prgVars
<1>5. CASE TimerInterrupt
  BY <1>4, <1>5 DEF TimerInterrupt
<1>6. CASE DmxTimeout \/ DmxReportEnds
  BY <1>4, <1>6 DEF DmxTimeout, DmxReportEnds
<1>7. CASE PrgTimeout
  BY <1>4, <1>7 DEF PrgTimeout
<1>8. CASE QueueWaitEnds
  BY <1>4, <1>8 DEF QueueWaitEnds
<1>9. CASE DmxTask
  <2>1. CASE DmxSuspend
    BY <1>4, <2>1 DEF DmxSuspend
  <2>2. CASE DmxGetBits
    BY <1>4, <2>2 DEF DmxGetBits
  <2>3. CASE DmxWaitFinished
    BY <1>4, <2>3 DEF DmxWaitFinished
  <2>4. CASE DmxWaitTimedOut
    BY <1>4, <2>4 DEF DmxWaitTimedOut
  <2>5. CASE DmxStop
    BY <1>4, <2>5 DEF DmxStop
  <2>6. CASE DmxClearFinished
    BY <1>4, <2>6 DEF DmxClearFinished
  <2>7. CASE DmxBreak
    BY <1>4, <2>7 DEF DmxBreak
  <2>8. CASE DmxWriteStartCode
    BY <1>4, <2>8 DEF DmxWriteStartCode
  <2>9. CASE DmxArmStartCode
    BY <1>4, <2>9 DEF DmxArmStartCode
  <2>10. CASE DmxWriteBuffer
    BY <1>4, <2>10 DEF DmxWriteBuffer
  <2>11. CASE DmxArmBuffer
    BY <1>4, <2>11 DEF DmxArmBuffer
  <2>12. CASE DmxSignalSwapped
    BY <1>4, <2>12 DEF DmxSignalSwapped, AfterWait
  <2>13. QED
    BY <1>1, <1>9, <2>1, <2>2, <2>3, <2>4, <2>5, <2>6, <2>7, <2>8, <2>9, <2>10, <2>11, <2>12 DEF DmxTask
<1>10. CASE PrgTask
  <2>1. CASE PrgReceive
    BY <1>4, <2>1 DEF PrgReceive
  <2>2. CASE PrgWaitSwapped
    BY <1>4, <2>2 DEF PrgWaitSwapped, AfterWait
  <2>3. CASE PrgWaitTimedOut
    BY <1>4, <2>3 DEF PrgWaitTimedOut, AfterWait
  <2>4. CASE PrgSignalFinished
    BY <1>4, <2>4 DEF PrgSignalFinished
  <2>5. QED
    BY <1>2, <1>3, <1>10, <2>1, <2>2, <2>3, <2>4 DEF PrgTask
<1>11. CASE UsartHandler
  BY <1>4, <1>11 DEF UsartHandler
<1>12. CASE UsartShiftOut
  BY <1>4, <1>12 DEF UsartShiftOut
<1>13. CASE UNCHANGED vars
  BY <1>4, <1>13 DEF vars
<1>14. QED
  BY <1>5, <1>6, <1>7, <1>8, <1>9, <1>10, <1>11, <1>12, <1>13 DEF Next

\* The inductive invariant of the cycle.
CycleInv == TypeInv /\ TokenInv /\ FrameInv

LEMMA CycleInvariant == Spec => []CycleInv
<1>1. Init => CycleInv
  BY TypeInit, TokenInit, FrameInit DEF CycleInv
<1>2. CycleInv /\ [Next]_vars => CycleInv'
  BY TypeStep, TokenStep, FrameStep DEF CycleInv
<1>3. QED
  BY <1>1, <1>2, PTL DEF Spec

-----------------------------------------------------------------------------
(* The properties.                                                         *)

\* While the cycle runs, the token is somewhere: no order of waits, timeouts
\* and signals leaves both tasks waiting.
THEOREM TokenKept == Spec => []TokenNotLost
<1>1. CycleInv => TokenNotLost
  BY DEF CycleInv, TokenInv
<1>2. QED
  BY CycleInvariant, <1>1, PTL

\* The front buffer the renderer reads from holds the frame before its own.
THEOREM PreviousFrameSeen == Spec => []RendererSeesPreviousFrame
<1>1. CycleInv => RendererSeesPreviousFrame
  BY DEF CycleInv, FrameInv, Filled, BackIsNext, RendererSeesPreviousFrame, NextFrame
<1>2. QED
  BY CycleInvariant, <1>1, PTL

\* Only _SwapBuffer changes which buffer is in front.
LEMMA OnlySwap == [Next]_vars /\ frameStatus' # frameStatus => DmxSwapBuffer
<1> SUFFICES ASSUME [Next]_vars, ~DmxSwapBuffer PROVE UNCHANGED frameStatus
  OBVIOUS
<1> USE DEF bufferVars, vars
<1>1. CASE DmxTask
  BY <1>1 DEF DmxTask, DmxSuspend, DmxGetBits, DmxWaitFinished, DmxWaitTimedOut, DmxStop,
     DmxClearFinished, DmxBreak, DmxWriteStartCode, DmxArmStartCode, DmxWriteBuffer,
     DmxArmBuffer, DmxSignalSwapped
<1>2. CASE PrgTask
  BY <1>2 DEF PrgTask, PrgReceive, PrgWaitSwapped, PrgWaitTimedOut, PrgBeginRender,
     PrgRenderLamp, PrgSignalFinished
<1>3. CASE TimerInterrupt \/ DmxTimeout \/ DmxReportEnds \/ PrgTimeout \/ QueueWaitEnds
  BY <1>3 DEF TimerInterrupt, DmxTimeout, DmxReportEnds, PrgTimeout, QueueWaitEnds
<1>4. CASE UsartHandler \/ UsartShiftOut
  BY <1>4 DEF UsartHandler, UsartShiftOut
<1>5. QED
  BY <1>1, <1>2, <1>3, <1>4 DEF Next

\* Frames reach the front buffer whole and in the order of their rendering.
THEOREM FramesStayInOrder == Spec => FramesInOrder
<1>1. CycleInv /\ [Next]_vars =>
        (frameStatus' # frameStatus =>
            \A l \in 1..NUM_LAMPS : frameBuffer'[Front'][l] = NextFrame(frameBuffer[Front][l]))
  <2> SUFFICES ASSUME CycleInv, [Next]_vars, frameStatus' # frameStatus,
                      NEW l \in 1..NUM_LAMPS
               PROVE  frameBuffer'[Front'][l] = NextFrame(frameBuffer[Front][l])
    OBVIOUS
  <2>1. /\ dmxPc = "swap" /\ UNCHANGED frameBuffer
        /\ Front' = Back
    BY OnlySwap DEF DmxSwapBuffer, DmxAt, Front, Back
  <2>2. BackIsNext /\ Filled(Front, ShownFrame)
    BY <2>1 DEF CycleInv, FrameInv
  <2>3. QED
    BY <2>1, <2>2 DEF BackIsNext, Filled
<1>2. QED
  BY CycleInvariant, <1>1, PTL DEF Spec, FramesInOrder

\* After a stop nothing is swapped any more.
THEOREM StopIsFinal == Spec => NoSwapWhenStopped
<1>1. CycleInv /\ [Next]_vars => (frameStatus' # frameStatus => RUNNING \in bits)
  BY OnlySwap DEF CycleInv, TokenInv, OutputRuns, SendingPcs, DmxSwapBuffer, DmxAt
<1>2. QED
  BY CycleInvariant, <1>1, PTL DEF Spec, NoSwapWhenStopped

-----------------------------------------------------------------------------
(* The refinement.  DmxSwapBuffer is Show, PrgSignalFinished is Render,      *)
(* DmxStop is Stop, and every other step leaves the hand-off unchanged.      *)

LEMMA FrameNumbers ==
    ASSUME NEW f \in Frames
    PROVE  NextFrame(f) \in Frames /\ NextFrame(f) # f
  BY FramesAssumption DEF NextFrame, Frames

LEMMA HandoffStart == Init => Handoff!HandoffInit
<1> SUFFICES ASSUME Init PROVE Handoff!HandoffInit
  OBVIOUS
<1>1. ShownFrame = 0 /\ frame = 0
  BY LampsAssumption DEF Init, ShownFrame, Front, Lamps
<1>2. RenderedFrame = 0 /\ (RUNNING \in bits) = TRUE
  BY <1>1 DEF Init, RenderedFrame
<1>3. QED
  BY <1>1, <1>2 DEF Handoff!HandoffInit

\* The mapped variables of a step that leaves the buffers, the frame number, the
\* running bit and the holder of the newest frame alone.
LEMMA HandoffStutter ==
    ASSUME UNCHANGED <<frameStatus, frameBuffer, frame>>,
           RUNNING \in bits' <=> RUNNING \in bits,
           prgPc' \in {"render", "finish"} \/ dmxPc' \in SendingPcs \ {"swap"}
             <=> prgPc \in {"render", "finish"} \/ dmxPc \in SendingPcs \ {"swap"}
    PROVE  UNCHANGED Handoff!handoffVars
<1>1. UNCHANGED <<ShownFrame, RenderedFrame>>
  BY DEF ShownFrame, RenderedFrame, Front
<1>2. QED
  BY <1>1 DEF Handoff!handoffVars

LEMMA HandoffStep ==
    CycleInv /\ [Next]_vars => [Handoff!HandoffNext]_(Handoff!handoffVars)
<1> SUFFICES ASSUME CycleInv, [Next]_vars
             PROVE  Handoff!HandoffNext \/ UNCHANGED Handoff!handoffVars
  OBVIOUS
<1> USE DEF RUNNING, FINISHED, SWAPPED, DmxAt, PrgAt, SendingPcs
<1> TypeInv /\ TokenInv /\ FrameInv
  BY DEF CycleInv
<1>1. frame \in Frames /\ ShownFrame \in Frames
  BY LampsAssumption DEF TypeInv, TypeOK, ShownFrame, Front, Lamps
<1>2. CASE DmxSwapBuffer
  <2>1. /\ dmxPc = "swap" /\ dmxPc' = "break"
        /\ frameStatus' = 1 - frameStatus
        /\ UNCHANGED <<bits, frameBuffer, prgPc, frame>>
    BY <1>2 DEF DmxSwapBuffer, prgVars
  <2>2. BackIsNext /\ RUNNING \in bits /\ prgPc \notin {"render", "finish"}
    BY <2>1, Exclusion DEF FrameInv, TokenInv, OutputRuns, RendererHolds
  <2>3. RenderedFrame = frame /\ RenderedFrame # ShownFrame
    BY <1>1, <2>1, <2>2, FrameNumbers DEF RenderedFrame, BackIsNext
  <2>4. ShownFrame' = frame /\ RenderedFrame' = frame
    BY <2>1, <2>2, LampsAssumption
    DEF ShownFrame, RenderedFrame, BackIsNext, Filled, Front, Back
  <2>5. Handoff!Show
    BY <2>1, <2>2, <2>3, <2>4 DEF Handoff!Show
  <2>6. QED
    BY <2>5 DEF Handoff!HandoffNext
<1>3. CASE PrgSignalFinished
  <2>1. /\ prgPc = "finish" /\ prgPc' = "receive"
        /\ dmxPc' \in {"clear", dmxPc}
        /\ RUNNING \in bits' <=> RUNNING \in bits
        /\ UNCHANGED <<frameStatus, frameBuffer, frame>>
    BY <1>3 DEF PrgSignalFinished, bufferVars
  <2>2. BackIsNext /\ dmxPc \notin SendingPcs
    BY <2>1, Exclusion DEF FrameInv, RendererHolds
  <2>3. RenderedFrame = ShownFrame /\ UNCHANGED ShownFrame
    BY <2>1 DEF RenderedFrame, ShownFrame, Front
  <2>4. RenderedFrame' = NextFrame(ShownFrame)
    BY <2>1, <2>2 DEF RenderedFrame, BackIsNext
  <2>5. Handoff!Render
    BY <2>1, <2>3, <2>4 DEF Handoff!Render, Handoff!Following, NextFrame
  <2>6. QED
    BY <2>5 DEF Handoff!HandoffNext
<1>4. CASE DmxStop
  <2>1. /\ dmxPc = "stop" /\ dmxPc' = "entry"
        /\ bits' = bits \ {RUNNING}
        /\ UNCHANGED <<frameStatus, frameBuffer, prgPc, frame>>
    BY <1>4 DEF DmxStop, bufferVars, prgVars
  <2>2. RUNNING \in bits /\ RUNNING \notin bits'
    BY <2>1 DEF TokenInv, OutputRuns
  <2>3. UNCHANGED <<ShownFrame, RenderedFrame>>
    BY <2>1 DEF ShownFrame, RenderedFrame, Front
  <2>4. Handoff!Stop
    BY <2>2, <2>3 DEF Handoff!Stop
  <2>5. QED
    BY <2>4 DEF Handoff!HandoffNext
<1>5. CASE PrgBeginRender
  <2>1. /\ prgPc = "granted" /\ prgPc' = "render"
        /\ UNCHANGED <<bits, frameStatus, frameBuffer, dmxPc>>
    BY <1>5 DEF PrgBeginRender, bufferVars
  <2>2. frame = ShownFrame /\ dmxPc \notin SendingPcs
    BY <2>1, Exclusion DEF FrameInv, FrontIsNewest, RendererHolds
  <2>3. UNCHANGED <<ShownFrame, RenderedFrame>>
    BY <2>1, <2>2 DEF ShownFrame, RenderedFrame, Front
  <2>4. QED
    BY <2>1, <2>3 DEF Handoff!handoffVars
<1>6. CASE PrgRenderLamp
  <2>1. /\ prgPc = "render" /\ prgPc' \in {"render", "finish"}
        /\ frameBuffer' = [frameBuffer EXCEPT ![Back][itLamp] = frame]
        /\ UNCHANGED <<bits, frameStatus, frame>>
    BY <1>6 DEF PrgRenderLamp
  <2>2. Back \in {0, 1} /\ Front \in {0, 1} /\ Back # Front /\ Front' = Front
    BY <2>1 DEF TypeInv, TypeOK, Front, Back
  <2>3. UNCHANGED ShownFrame
    BY <2>1, <2>2 DEF TypeInv, TypeOK, ShownFrame
  <2>4. UNCHANGED RenderedFrame
    BY <2>1, <2>3 DEF RenderedFrame
  <2>5. QED
    BY <2>1, <2>3, <2>4 DEF Handoff!handoffVars
<1>7. CASE DmxSignalSwapped
  <2>1. /\ dmxPc = "signal" /\ dmxPc' = "entry"
        /\ prgPc' \in {prgPc, "granted", "receive"}
        /\ RUNNING \in bits' <=> RUNNING \in bits
        /\ UNCHANGED <<frameStatus, frameBuffer, frame>>
    BY <1>7 DEF DmxSignalSwapped, AfterWait, bufferVars
  <2>2. ShownFrame = frame /\ prgPc' \notin {"render", "finish"}
    BY <2>1, Exclusion DEF FrameInv, FrontIsNewest, RendererHolds
  <2>3. UNCHANGED <<ShownFrame, RenderedFrame>>
    BY <2>1, <2>2 DEF ShownFrame, RenderedFrame, Front
  <2>4. QED
    BY <2>1, <2>3 DEF Handoff!handoffVars
<1> USE DEF bufferVars, prgVars
<1>8. CASE TimerInterrupt
  BY HandoffStutter, <1>8 DEF TimerInterrupt
<1>9. CASE DmxTimeout \/ DmxReportEnds
  BY HandoffStutter, <1>9 DEF DmxTimeout, DmxReportEnds
<1>10. CASE PrgTimeout
  BY HandoffStutter, <1>10 DEF PrgTimeout
<1>11. CASE QueueWaitEnds
  BY HandoffStutter, <1>11 DEF QueueWaitEnds
<1>12. CASE DmxTask
  <2>1. CASE DmxSuspend
    BY HandoffStutter, <2>1 DEF DmxSuspend
  <2>2. CASE DmxGetBits
    BY HandoffStutter, <2>2 DEF DmxGetBits
  <2>3. CASE DmxWaitFinished
    BY HandoffStutter, <2>3 DEF DmxWaitFinished
  <2>4. CASE DmxWaitTimedOut
    BY HandoffStutter, <2>4 DEF DmxWaitTimedOut
  <2>5. CASE DmxClearFinished
    BY HandoffStutter, <2>5 DEF DmxClearFinished
  <2>6. CASE DmxBreak
    BY HandoffStutter, <2>6 DEF DmxBreak
  <2>7. CASE DmxWriteStartCode
    BY HandoffStutter, <2>7 DEF DmxWriteStartCode
  <2>8. CASE DmxArmStartCode
    BY HandoffStutter, <2>8 DEF DmxArmStartCode
  <2>9. CASE DmxWriteBuffer
    BY HandoffStutter, <2>9 DEF DmxWriteBuffer
  <2>10. CASE DmxArmBuffer
    BY HandoffStutter, <2>10 DEF DmxArmBuffer
  <2>11. QED
    BY <1>2, <1>4, <1>7, <1>12, <2>1, <2>2, <2>3, <2>4, <2>5, <2>6, <2>7, <2>8, <2>9, <2>10 DEF DmxTask
<1>13. CASE PrgTask
  <2>1. CASE PrgReceive
    BY HandoffStutter, <2>1 DEF PrgReceive
  <2>2. CASE PrgWaitSwapped
    BY HandoffStutter, <2>2 DEF PrgWaitSwapped, AfterWait
  <2>3. CASE PrgWaitTimedOut
    BY HandoffStutter, <2>3 DEF PrgWaitTimedOut, AfterWait
  <2>4. QED
    BY <1>3, <1>5, <1>6, <1>13, <2>1, <2>2, <2>3 DEF PrgTask
<1>14. CASE UsartHandler
  BY HandoffStutter, <1>14 DEF UsartHandler
<1>15. CASE UsartShiftOut
  BY HandoffStutter, <1>15 DEF UsartShiftOut
<1>16. CASE UNCHANGED vars
  BY HandoffStutter, <1>16 DEF vars
<1>17. QED
  BY <1>8, <1>9, <1>10, <1>11, <1>12, <1>13, <1>14, <1>15, <1>16 DEF Next

\* The render/output cycle implements the hand-off of frames, for every number
\* of lamps: rendering and showing alternate until a final stop.
THEOREM CycleImplementsHandoff == Spec => ImplementsHandoff
  BY HandoffStart, HandoffStep, CycleInvariant, PTL
  DEF Spec, ImplementsHandoff, Handoff!HandoffSafety

-----------------------------------------------------------------------------
(* The wire.  Of a frame that began on an idle transmitter, what has left    *)
(* the pin, what the two registers hold and what the job in flight has still *)
(* to send make up the frame.                                                *)

\* The i-th item of a frame.
Item(i) == IF i = 1 THEN StartCode ELSE frameBuffer[Front][i - 1]

\* How many the transmitter has accepted.
Unclaimed == {"startCode", "armStartCode"}
Accepted ==
    IF dmxPc \in Unclaimed THEN 0
    ELSE IF dmxPc = "buffer" THEN 1 - remaining
    ELSE IF dmxPc = "armBuffer" THEN 1
    ELSE 1 + MAXIMUM_NUM_LAMPS - remaining

Full(register) == IF register = Empty THEN 0 ELSE 1

JobInFlight ==
    /\ dmxPc = "startCode" => remaining = 0
    /\ dmxPc = "buffer" =>
        /\ remaining \in {0, 1}
        /\ remaining = 1 => "DRE" \in intEnabled /\ ptr = [buffer |-> StartCode, offset |-> 0]
    /\ dmxPc \notin Unclaimed \cup {"buffer", "armBuffer"} /\ remaining > 0 =>
        /\ "DRE" \in intEnabled
        /\ ptr.buffer = Front
        /\ ptr.offset = MAXIMUM_NUM_LAMPS - remaining

Pipeline ==
    /\ shiftReg = Empty => dataReg = Empty
    /\ \A i \in 1..Len(wire) : wire[i] = Item(i)
    /\ shiftReg # Empty => shiftReg = Item(Len(wire) + 1)
    /\ dataReg # Empty => dataReg = Item(Len(wire) + 2)
    /\ Len(wire) + Full(shiftReg) + Full(dataReg) = Accepted

WireInv == intact /\ dmxPc # "break" => JobInFlight /\ Pipeline

LEMMA WireInit == Init => WireInv
  BY DEF Init, WireInv

\* A step that leaves the frame, the wire and the transmitter alone.
LEMMA WireKept ==
    ASSUME WireInv, UNCHANGED <<usartVars, wireVars, frameStatus>>,
           frameBuffer'[Front] = frameBuffer[Front],
           \/ dmxPc' = dmxPc
           \/ {dmxPc, dmxPc'} \cap (Unclaimed \cup {"break", "buffer", "armBuffer"}) = {}
    PROVE  WireInv'
<1>1. Front' = Front /\ \A i : Item(i)' = Item(i)
  BY DEF Item, Front
<1>2. CASE intact /\ dmxPc # "break"
  <2>1. Accepted' = Accepted /\ JobInFlight /\ Pipeline
    BY <1>2 DEF WireInv, Accepted, Unclaimed, usartVars
  <2>2. JobInFlight'
    BY <1>1, <2>1 DEF JobInFlight, Unclaimed, usartVars
  <2>3. Pipeline'
    BY <1>1, <2>1 DEF Pipeline, Full, usartVars, wireVars
  <2>4. QED
    BY <2>2, <2>3 DEF WireInv
<1>3. CASE ~intact \/ dmxPc = "break"
  BY <1>3 DEF WireInv, wireVars
<1>4. QED
  BY <1>2, <1>3

\* The start of the frame: nothing is in flight.
LEMMA BreakWire == TypeInv /\ DmxBreak => WireInv'
<1> SUFFICES ASSUME TypeInv, DmxBreak, intact' PROVE (JobInFlight /\ Pipeline)'
  BY DEF WireInv
<1>1. /\ remaining' = 0 /\ dataReg' = Empty /\ shiftReg' = Empty /\ wire' = << >>
      /\ dmxPc' = "startCode"
  BY DEF DmxBreak, Usart!TransmitterIdle, usartVars
<1>2. JobInFlight'
  BY <1>1 DEF JobInFlight, Unclaimed
<1>3. Pipeline'
  BY <1>1 DEF Pipeline, Accepted, Full, Unclaimed
<1>4. QED
  BY <1>2, <1>3

\* The two jobs are claimed and armed; neither is refused.
LEMMA JobWire ==
    ASSUME TypeInv, WireInv,
           DmxWriteStartCode \/ DmxArmStartCode \/ DmxWriteBuffer \/ DmxArmBuffer
    PROVE  WireInv'
<1>1. /\ UNCHANGED <<intact, wire, dataReg, shiftReg>>
      /\ Front' = Front /\ \A i : Item(i)' = Item(i)
      /\ dmxPc # "break" /\ dmxPc' # "break"
  BY DEF DmxWriteStartCode, DmxArmStartCode, DmxWriteBuffer, DmxArmBuffer, DmxAt, Item,
         Front, bufferVars, wireVars, usartVars, Usart!Claim, Usart!hardware, Usart!Arm
<1>2. SUFFICES ASSUME intact PROVE (JobInFlight /\ Pipeline)'
  BY <1>1 DEF WireInv
<1>3. JobInFlight /\ Pipeline /\ JobInv
  BY <1>1, <1>2 DEF WireInv, TypeInv
<1>4. remaining \in Nat /\ MAXIMUM_NUM_LAMPS \in Nat /\ Len(wire) \in Nat
  BY LampsAssumption DEF TypeInv, TypeOK
<1>5. SUFFICES JobInFlight' /\ Accepted' = Accepted
  BY <1>1, <1>3 DEF Pipeline, Full
<1>6. CASE DmxWriteStartCode
  <2>1. dmxPc = "startCode" /\ remaining = 0
    BY <1>3, <1>6 DEF DmxWriteStartCode, DmxAt, JobInFlight
  <2>2. dmxPc' = "armStartCode"
    BY <1>6, <2>1 DEF DmxWriteStartCode, Usart!Busy
  <2>3. QED
    BY <2>1, <2>2 DEF JobInFlight, Accepted, Unclaimed
<1>7. CASE DmxArmStartCode
  <2>1. /\ dmxPc = "armStartCode" /\ dmxPc' = "buffer"
        /\ remaining = 1 /\ remaining' = 1 /\ "DRE" \in intEnabled'
        /\ ptr' = [buffer |-> StartCode, offset |-> 0]
    BY <1>3, <1>7 DEF DmxArmStartCode, DmxAt, JobInv, Usart!Arm
  <2>2. QED
    BY <2>1 DEF JobInFlight, Accepted, Unclaimed
<1>8. CASE DmxWriteBuffer
  <2>1. dmxPc = "buffer" /\ remaining \in {0, 1} /\ ~Usart!DrePending
    BY <1>3, <1>8 DEF DmxWriteBuffer, DmxAt, JobInFlight, Usart!InterruptPending
  <2>2. remaining = 0
    <3>1. SUFFICES ASSUME remaining = 1 PROVE FALSE
      BY <2>1
    <3>2. Accepted = 0
      BY <2>1, <3>1 DEF Accepted, Unclaimed
    <3>3. dataReg = Empty
      <4>1. Full(shiftReg) \in {0, 1} /\ Full(dataReg) \in {0, 1}
        BY DEF Full
      <4>2. Full(dataReg) = 0
        BY <1>3, <1>4, <3>2, <4>1 DEF Pipeline
      <4>3. QED
        BY <4>2 DEF Full
    <3>4. QED
      BY <1>3, <2>1, <3>1, <3>3 DEF JobInFlight, Usart!DrePending
  <2>3. dmxPc' = "armBuffer"
    BY <1>8, <2>2 DEF DmxWriteBuffer, Usart!Busy
  <2>4. QED
    BY <2>1, <2>2, <2>3 DEF JobInFlight, Accepted, Unclaimed
<1>9. CASE DmxArmBuffer
  <2>1. /\ dmxPc = "armBuffer" /\ dmxPc' = "signal"
        /\ remaining = MAXIMUM_NUM_LAMPS /\ remaining' = remaining
        /\ "DRE" \in intEnabled'
        /\ ptr' = [buffer |-> Front, offset |-> 0]
    BY <1>3, <1>9 DEF DmxArmBuffer, DmxAt, JobInv, Usart!Arm
  <2>2. JobInFlight'
    BY <1>1, <1>4, <2>1 DEF JobInFlight, Unclaimed
  <2>3. QED
    BY <1>4, <2>1, <2>2 DEF Accepted, Unclaimed
<1>10. QED
  BY <1>6, <1>7, <1>8, <1>9

\* The byte under the pointer of a frame in flight is the next one of the frame.
LEMMA NextItem ==
    ASSUME TypeInv, JobInFlight, dmxPc # "break", "DRE" \in intEnabled
    PROVE  /\ ByteAt(ptr) = Item(Accepted + 1)
           /\ dmxPc = "buffer" \/ dmxPc \notin Unclaimed \cup {"buffer", "armBuffer"}
<1>1. remaining > 0 /\ dmxPc # "armStartCode" /\ dmxPc # "armBuffer" /\ remaining \in Nat
      /\ MAXIMUM_NUM_LAMPS \in Nat
  BY LampsAssumption DEF TypeInv, TypeOK, JobInv
<1>2. dmxPc # "startCode"
  BY <1>1 DEF JobInFlight
<1>3. CASE dmxPc = "buffer"
  BY <1>1, <1>3 DEF JobInFlight, ByteAt, Item, Accepted, Unclaimed
<1>4. CASE dmxPc # "buffer"
  <2>1. ptr.buffer = Front /\ ptr.offset = MAXIMUM_NUM_LAMPS - remaining
    BY <1>1, <1>2, <1>4 DEF JobInFlight, Unclaimed
  <2>2. Front # StartCode /\ Accepted + 1 = ptr.offset + 2 /\ ptr.offset \in Nat
    BY <1>1, <1>2, <1>4, <2>1, SymbolsAssumption
    DEF Front, TypeInv, TypeOK, Accepted, Unclaimed
  <2>3. Accepted + 1 # 1 /\ (Accepted + 1) - 1 = ptr.offset + 1
    BY <2>2
  <2>4. QED
    BY <1>1, <1>2, <1>4, <2>1, <2>2, <2>3 DEF ByteAt, Item, Unclaimed
<1>5. QED
  BY <1>1, <1>2, <1>3, <1>4 DEF Unclaimed

LEMMA HandlerWire == TypeInv /\ WireInv /\ UsartHandler => WireInv'
<1> SUFFICES ASSUME TypeInv, WireInv, UsartHandler PROVE WireInv'
  OBVIOUS
<1> DEFINE byte == ByteAt(ptr)
<1>1. /\ UNCHANGED <<intact, wire, dmxPc, frameStatus, frameBuffer>>
      /\ Usart!UsartInterrupt(byte)
      /\ Front' = Front /\ \A i : Item(i)' = Item(i)
  BY DEF UsartHandler, bufferVars, wireVars, Item, Front
<1>2. SUFFICES ASSUME intact, dmxPc # "break" PROVE (JobInFlight /\ Pipeline)'
  BY <1>1 DEF WireInv
<1>3. JobInFlight /\ Pipeline /\ JobInv
  BY <1>1, <1>2 DEF WireInv, TypeInv
<1>4. /\ remaining \in Nat /\ MAXIMUM_NUM_LAMPS \in Nat /\ Len(wire) \in Nat
      /\ ptr.offset \in Nat
      /\ ptr \in [buffer : {0, 1, StartCode, Empty}, offset : 0..MAXIMUM_NUM_LAMPS]
  BY LampsAssumption DEF TypeInv, TypeOK
<1>5. CASE Usart!DrePending
  <2>1. "DRE" \in intEnabled /\ remaining > 0 /\ dataReg = Empty
    BY <1>3, <1>5 DEF Usart!DrePending, JobInv
  <2>2. /\ Usart!WriteData(byte)
        /\ ptr' = [ptr EXCEPT !.offset = @ + 1]
        /\ remaining' = remaining - 1
    BY <1>1, <1>5, <2>1 DEF Usart!UsartInterrupt, Usart!ServeDre
  <2>3. remaining > 1 => "DRE" \in intEnabled'
    BY <1>1, <1>5, <2>1 DEF Usart!UsartInterrupt, Usart!EnabledAfterDre
  <2>4. /\ byte = Item(Accepted + 1) /\ byte # Empty
        /\ dmxPc = "buffer" \/ dmxPc \notin Unclaimed \cup {"buffer", "armBuffer"}
    <3>1. byte \in Frames \cup {StartCode}
      BY <2>1, ByteType
    <3>2. QED
      BY <1>2, <1>3, <2>1, <3>1, NextItem, SymbolsAssumption, FramesAssumption DEF Frames
  <2>5. Accepted' = Accepted + 1
    BY <1>1, <1>4, <2>2, <2>4 DEF Accepted, Unclaimed
  <2>6. Len(wire) + Full(shiftReg) = Accepted
    BY <1>3, <1>4, <2>1 DEF Pipeline, Full
  <2>7. Pipeline'
    <3>1. CASE shiftReg = Empty
      <4>1. shiftReg' = byte /\ dataReg' = Empty /\ Len(wire) = Accepted
        BY <1>4, <2>1, <2>2, <2>6, <3>1 DEF Usart!WriteData, Full
      <4>2. QED
        BY <1>1, <1>3, <1>4, <2>4, <2>5, <4>1 DEF Pipeline, Full
    <3>2. CASE shiftReg # Empty
      <4>1. shiftReg' = shiftReg /\ dataReg' = byte /\ Len(wire) + 1 = Accepted
        BY <1>4, <2>2, <2>6, <3>2 DEF Usart!WriteData, Full
      <4>2. dataReg' = Item(Len(wire) + 2)
        <5>1. Len(wire) + 2 = Accepted + 1
          BY <1>4, <4>1
        <5>2. QED
          BY <2>4, <4>1, <5>1
      <4>3. Len(wire) + Full(shiftReg') + Full(dataReg') = Accepted'
        BY <1>4, <2>4, <2>5, <3>2, <4>1 DEF Full
      <4>4. QED
        BY <1>1, <1>3, <3>2, <4>1, <4>2, <4>3 DEF Pipeline, Full
    <3>3. QED
      BY <3>1, <3>2
  <2>8. JobInFlight'
    <3>1. CASE dmxPc = "buffer"
      BY <1>1, <1>3, <1>4, <2>1, <2>2, <3>1 DEF JobInFlight, Unclaimed
    <3>2. CASE dmxPc \notin Unclaimed \cup {"buffer", "armBuffer"}
      <4>1. ptr.buffer = Front /\ ptr.offset = MAXIMUM_NUM_LAMPS - remaining
        BY <1>3, <1>4, <2>1, <3>2 DEF JobInFlight
      <4>2. ptr'.buffer = Front' /\ ptr'.offset = MAXIMUM_NUM_LAMPS - remaining'
        BY <1>1, <1>4, <2>2, <4>1
      <4>3. QED
        BY <1>1, <1>4, <2>2, <2>3, <3>2, <4>2 DEF JobInFlight, Unclaimed
    <3>3. QED
      BY <2>4, <3>1, <3>2
  <2>9. QED
    BY <2>7, <2>8
<1>6. CASE ~Usart!DrePending
  <2>1. UNCHANGED <<txcFlag, dataReg, shiftReg, ptr, remaining>>
    BY <1>1, <1>6 DEF Usart!UsartInterrupt, Usart!ServeDre
  <2>2. "DRE" \in intEnabled' <=> "DRE" \in intEnabled
    BY <1>1, <1>6 DEF Usart!UsartInterrupt
  <2>3. JobInFlight'
    BY <1>1, <1>3, <2>1, <2>2 DEF JobInFlight, Unclaimed
  <2>4. Pipeline'
    BY <1>1, <1>3, <2>1 DEF Pipeline, Full, Accepted, Unclaimed
  <2>5. QED
    BY <2>3, <2>4
<1>7. QED
  BY <1>5, <1>6

\* An item leaves the pin, and the next one follows.
LEMMA ShiftOutWire == TypeInv /\ WireInv /\ UsartShiftOut => WireInv'
<1> SUFFICES ASSUME TypeInv, WireInv, UsartShiftOut PROVE WireInv'
  OBVIOUS
<1>1. /\ UNCHANGED <<intact, dmxPc, frameStatus, frameBuffer, remaining, ptr, intEnabled>>
      /\ shiftReg # Empty /\ shiftReg' = dataReg /\ dataReg' = Empty
      /\ wire' = IF intact THEN Append(wire, shiftReg) ELSE wire
      /\ Front' = Front /\ \A i : Item(i)' = Item(i)
  BY DEF UsartShiftOut, Usart!ShiftOut, Usart!driver, bufferVars, Item, Front
<1>2. SUFFICES ASSUME intact, dmxPc # "break" PROVE (JobInFlight /\ Pipeline)'
  BY <1>1 DEF WireInv
<1>3. JobInFlight /\ Pipeline
  BY <1>2 DEF WireInv
<1>4. JobInFlight'
  BY <1>1, <1>3 DEF JobInFlight, Unclaimed
<1>5. /\ Len(wire') = Len(wire) + 1 /\ Len(wire) \in Nat
      /\ \A i \in 1..Len(wire) : wire'[i] = wire[i]
      /\ wire'[Len(wire) + 1] = shiftReg
  <2>1. wire \in Seq(Frames \cup {StartCode, Empty}) /\ shiftReg \in Frames \cup {StartCode, Empty}
    BY DEF TypeInv, TypeOK
  <2>2. wire' = Append(wire, shiftReg)
    BY <1>1, <1>2
  <2>3. QED
    BY <2>1, <2>2
<1>6. \A i \in 1..Len(wire') : wire'[i] = Item(i)'
  BY <1>1, <1>3, <1>5 DEF Pipeline
<1>7. Accepted' = Accepted
  BY <1>1 DEF Accepted, Unclaimed
<1>8. Len(wire') + Full(shiftReg') + Full(dataReg') = Accepted'
  <2>1. Full(shiftReg) = 1 /\ Full(shiftReg') = Full(dataReg) /\ Full(dataReg') = 0
    BY <1>1 DEF Full
  <2>2. Full(dataReg) \in {0, 1}
    BY DEF Full
  <2>3. QED
    BY <1>3, <1>5, <1>7, <2>1, <2>2 DEF Pipeline
<1>9. shiftReg' # Empty => shiftReg' = (Item(Len(wire) + 1))'
  <2>1. Len(wire') + 1 = Len(wire) + 2
    BY <1>5
  <2>2. QED
    BY <1>1, <1>3, <2>1 DEF Pipeline, Item
<1>10. Pipeline'
  BY <1>1, <1>6, <1>8, <1>9 DEF Pipeline
<1>11. QED
  BY <1>4, <1>10

\* Every step keeps the frame on the wire whole: the renderer writes into the
\* other buffer, and the buffers are swapped before the next break only.
LEMMA WireStep == TypeInv /\ WireInv /\ [Next]_vars => WireInv'
<1> SUFFICES ASSUME TypeInv, WireInv, [Next]_vars PROVE WireInv'
  OBVIOUS
<1> USE DEF bufferVars, DmxAt, Unclaimed
<1>1. CASE TimerInterrupt
  BY <1>1, WireKept DEF TimerInterrupt
<1>2. CASE DmxTimeout \/ DmxReportEnds
  BY <1>2, WireKept DEF DmxTimeout, DmxReportEnds
<1>3. CASE PrgTimeout \/ QueueWaitEnds
  BY <1>3, WireKept DEF PrgTimeout, QueueWaitEnds
<1>4. CASE DmxTask
  <2>1. CASE DmxSuspend
    BY <2>1, WireKept DEF DmxSuspend
  <2>2. CASE DmxGetBits
    BY <2>2, WireKept DEF DmxGetBits
  <2>3. CASE DmxWaitFinished
    BY <2>3, WireKept DEF DmxWaitFinished
  <2>4. CASE DmxWaitTimedOut
    BY <2>4, WireKept DEF DmxWaitTimedOut
  <2>5. CASE DmxStop
    BY <2>5, WireKept DEF DmxStop
  <2>6. CASE DmxClearFinished
    BY <2>6, WireKept DEF DmxClearFinished
  <2>7. CASE DmxSwapBuffer
    BY <2>7 DEF DmxSwapBuffer, WireInv
  <2>8. CASE DmxBreak
    BY <2>8, BreakWire
  <2>9. CASE DmxWriteStartCode \/ DmxArmStartCode \/ DmxWriteBuffer \/ DmxArmBuffer
    BY <2>9, JobWire
  <2>10. CASE DmxSignalSwapped
    BY <2>10, WireKept DEF DmxSignalSwapped
  <2>11. QED
    BY <1>4, <2>1, <2>2, <2>3, <2>4, <2>5, <2>6, <2>7, <2>8, <2>9, <2>10 DEF DmxTask
<1>5. CASE PrgTask
  <2>1. CASE PrgRenderLamp
    <3>1. Front # Back /\ frameBuffer \in [{0, 1} -> [Lamps -> Frames]] /\ Front \in {0, 1}
      BY DEF TypeInv, TypeOK, Front, Back
    <3>2. frameBuffer'[Front] = frameBuffer[Front]
      BY <2>1, <3>1 DEF PrgRenderLamp
    <3>3. QED
      BY <2>1, <3>2, WireKept DEF PrgRenderLamp
  <2>2. CASE PrgSignalFinished
    BY <2>2, WireKept DEF PrgSignalFinished
  <2>3. CASE PrgReceive \/ PrgWaitSwapped \/ PrgWaitTimedOut \/ PrgBeginRender
    BY <2>3, WireKept DEF PrgReceive, PrgWaitSwapped, PrgWaitTimedOut, PrgBeginRender
  <2>4. QED
    BY <1>5, <2>1, <2>2, <2>3 DEF PrgTask
<1>6. CASE UsartHandler
  BY <1>6, HandlerWire
<1>7. CASE UsartShiftOut
  BY <1>7, ShiftOutWire
<1>8. CASE UNCHANGED vars
  BY <1>8, WireKept DEF vars
<1>9. QED
  BY <1>1, <1>2, <1>3, <1>4, <1>5, <1>6, <1>7, <1>8 DEF Next

LEMMA WireInvariant == Spec => [](TypeInv /\ WireInv)
<1>1. TypeInv /\ WireInv /\ [Next]_vars => (TypeInv /\ WireInv)'
  BY TypeStep, WireStep
<1>2. QED
  BY TypeInit, WireInit, <1>1, PTL DEF Spec

\* A frame as a sequence.
LEMMA WireFrameItems ==
    ASSUME TypeInv
    PROVE  /\ WireFrame \in Seq(Frames \cup {StartCode})
           /\ Len(WireFrame) = MAXIMUM_NUM_LAMPS + 1
           /\ \A i \in 1..(MAXIMUM_NUM_LAMPS + 1) : WireFrame[i] = Item(i)
<1> DEFINE lamps == frameBuffer[Front]
<1>1. lamps \in [1..MAXIMUM_NUM_LAMPS -> Frames] /\ MAXIMUM_NUM_LAMPS \in Nat
  BY LampsAssumption DEF TypeInv, TypeOK, Front, Lamps
<1>2. lamps \in Seq(Frames \cup {StartCode}) /\ Len(lamps) = MAXIMUM_NUM_LAMPS
  BY <1>1
<1>3. <<StartCode>> \in Seq(Frames \cup {StartCode})
  OBVIOUS
<1> HIDE DEF lamps
<1>4. <<StartCode>> \o lamps \in Seq(Frames \cup {StartCode})
      /\ Len(<<StartCode>> \o lamps) = MAXIMUM_NUM_LAMPS + 1
  BY <1>1, <1>2, <1>3
<1>5. ASSUME NEW i \in 1..(MAXIMUM_NUM_LAMPS + 1)
      PROVE  (<<StartCode>> \o lamps)[i] = IF i = 1 THEN StartCode ELSE lamps[i - 1]
  BY <1>1, <1>2, <1>3, <1>5
<1>6. QED
  BY <1>4, <1>5 DEF WireFrame, Item, lamps

\* A frame that began on an idle transmitter leaves the pin in order and
\* unmixed, although its job's bytes are fetched while the next frame is rendered.
THEOREM FramesLeaveInOrder == Spec => []WireInOrder
<1>1. ASSUME TypeInv, WireInv PROVE WireInOrder
  <2> SUFFICES ASSUME intact, dmxPc # "break"
               PROVE  wire = SubSeq(WireFrame, 1, Len(wire))
    BY DEF WireInOrder
  <2>1. Pipeline /\ wire \in Seq(Frames \cup {StartCode}) /\ Len(wire) \in Nat
        /\ MAXIMUM_NUM_LAMPS \in Nat /\ remaining \in 0..MAXIMUM_NUM_LAMPS
    BY <1>1, LampsAssumption DEF WireInv, TypeInv, TypeOK
  <2>2. Accepted \in 0..(MAXIMUM_NUM_LAMPS + 1)
    BY <1>1, <2>1 DEF Accepted, WireInv, JobInFlight
  <2>3. Len(wire) <= MAXIMUM_NUM_LAMPS + 1
    <3>1. Full(shiftReg) \in {0, 1} /\ Full(dataReg) \in {0, 1}
      BY DEF Full
    <3>2. QED
      BY <2>1, <2>2, <3>1 DEF Pipeline
  <2>4. \A i \in 1..Len(wire) : wire[i] = WireFrame[i]
    BY <1>1, <2>1, <2>3, WireFrameItems DEF Pipeline
  <2>5. QED
    BY <1>1, <2>1, <2>3, <2>4, WireFrameItems
<1>2. QED
  BY WireInvariant, <1>1, PTL

\* And it leaves the pin completely, although no status of a job is looked at.
THEOREM FramesLeaveWhole == Spec => []WireComplete
<1>1. ASSUME TypeInv, WireInv PROVE WireComplete
  <2> SUFFICES ASSUME intact, dmxPc \notin SendingPcs, Usart!TransmitterIdle
               PROVE  wire = WireFrame
    BY DEF WireComplete
  <2>1. Pipeline /\ wire \in Seq(Frames \cup {StartCode}) /\ Len(wire) \in Nat
        /\ MAXIMUM_NUM_LAMPS \in Nat /\ remaining = 0 /\ shiftReg = Empty /\ dataReg = Empty
    BY <1>1, LampsAssumption DEF WireInv, TypeInv, TypeOK, SendingPcs, Usart!TransmitterIdle
  <2>2. Len(wire) = MAXIMUM_NUM_LAMPS + 1
    BY <2>1 DEF Pipeline, Full, Accepted, SendingPcs, Unclaimed
  <2>3. \A i \in 1..Len(wire) : wire[i] = WireFrame[i]
    BY <1>1, <2>1, <2>2, WireFrameItems DEF Pipeline
  <2>4. QED
    BY <1>1, <2>1, <2>2, <2>3, WireFrameItems
<1>2. QED
  BY WireInvariant, <1>1, PTL
=============================================================================
