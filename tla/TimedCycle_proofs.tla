-------------------------- MODULE TimedCycle_proofs --------------------------
(***************************************************************************)
(* Proofs about the cycle with its clocks.  It only restricts when the     *)
(* steps of the untimed cycle happen, so everything proved about that one  *)
(* holds of it as well: here, the token and the types say in which places  *)
(* the two tasks can be, and the clocks how long they can be there.        *)
(***************************************************************************)
EXTENDS TimedCycle, RenderOutputCycle_proofs, TLAPS

LEMMA TimedStep == [TimedNext]_timedVars => [Next]_vars
<1> SUFFICES ASSUME [TimedNext]_timedVars PROVE Next \/ UNCHANGED vars
  OBVIOUS
<1>1. CASE Tick
  BY <1>1 DEF Tick
<1>2. CASE \/ TimedTimerInterrupt \/ TimedDmxTimeout \/ TimedDmxReportEnds
          \/ TimedPrgTimeout \/ TimedQueueWaitEnds
  BY <1>2 DEF TimedTimerInterrupt, TimedDmxTimeout, TimedDmxReportEnds, TimedPrgTimeout, TimedQueueWaitEnds, Next
<1>3. CASE TimedDmxTask \/ TimedPrgTask
  BY <1>3 DEF TimedDmxTask, TimedPrgTask, Next
<1>4. CASE TimedUsartHandler \/ TimedUsartShiftOut
  BY <1>4 DEF TimedUsartHandler, TimedUsartShiftOut, Next
<1>5. CASE UNCHANGED timedVars
  BY <1>5 DEF timedVars
<1>6. QED
  BY <1>1, <1>2, <1>3, <1>4, <1>5 DEF TimedNext

\* Every behaviour of the cycle with its clocks is a behaviour of the cycle
\* without them, for every hold-up and with and without remote commands.
THEOREM TimedCycleIsACycle == TimedSpec => Spec
<1>1. TimedInit => Init
  BY DEF TimedInit
<1>2. QED
  BY <1>1, TimedStep, PTL DEF TimedSpec, Spec

-----------------------------------------------------------------------------
(* The clocks.                                                               *)

\* Places of DMX_Output_Task around a swap.
BeforeSwap == {"getBits", "waitFinished", "clear", "swap"}
AfterSwap == {"break", "startCode", "armStartCode", "buffer", "armBuffer", "signal", "entry"}

ClockInv ==
    /\ regime \in [commands : BOOLEAN, slack : Nat]
    /\ lag \in 0..regime.slack
    /\ timerClock \in 0..PeriodMax
    /\ txClock \in 0..TxMax
    /\ dmxClock \in Nat /\ prgClock \in Nat /\ outClock \in Nat
    /\ prgPc = "receiving" => prgClock <= QueueWait

\* A wait for FINISHED lies within the time without output.
SilenceInv ==
    /\ dmxPc = "waiting" => dmxClock <= outClock \/ outClock >= 19
    /\ dmxPc \in {"timedOut", "reporting", "stop"} => outClock >= 19

\* What a swap is followed by, and how late that may be: the output task, until it
\* suspends itself and a timer interrupt comes; ...
OutputOnTime ==
    /\ dmxPc \in AfterSwap => outClock <= lag
    /\ dmxPc = "suspended" => outClock <= timerClock + regime.slack
    /\ dmxPc \in BeforeSwap => outClock <= QueueWait + regime.slack + lag
    /\ dmxPc = "waiting" => FINISHED \notin bits /\ dmxClock <= outClock

\* ... and the renderer, which ends its wait for the queue, renders, and then waits
\* for the next swap.
RendererOnTime ==
    /\ dmxPc \in SendingPcs \ {"swap"} \/ SWAPPED \in bits =>
        /\ prgPc = "receive" => outClock <= lag
        /\ prgPc = "receiving" => outClock <= prgClock + regime.slack
        /\ prgPc = "waitSwapped" => outClock <= QueueWait + regime.slack + lag
    /\ RendererHolds => outClock <= QueueWait + regime.slack + lag
    /\ prgPc = "waiting" =>
        /\ SWAPPED \notin bits
        /\ prgClock <= outClock + QueueWait + 2 * regime.slack
        /\ dmxPc \notin SendingPcs \ {"swap"} => prgClock <= outClock

NotStopped ==
    /\ RUNNING \in bits
    /\ dmxPc \notin {"timedOut", "reporting", "stop"}
    /\ prgPc # "timedOut"

OnTimeInv == regime.slack <= 4 => NotStopped /\ OutputOnTime /\ RendererOnTime

\* A frame in the transmitter is gone three ticks after its break at the latest.
TransmitterInv ==
    /\ dmxPc \in SendingPcs \ {"swap"} => outClock <= lag
    /\ dmxPc # "break" /\ ~Usart!TransmitterIdle => outClock <= txClock + regime.slack

\* Without commands the next swap is further away: a timer period, ...
TimerAway ==
    /\ dmxPc \in AfterSwap \cup {"suspended"}
    /\ timerClock <= outClock + 1

\* ... or a wait for the queue.
QueueAway ==
    /\ prgPc \in {"receive", "receiving"} /\ FINISHED \notin bits
    /\ dmxPc \notin {"clear", "swap"}
    /\ prgPc = "receiving" => prgClock <= outClock + 1

PeriodInv ==
    ~regime.commands /\ regime.slack <= 1 =>
        /\ TimerAway \/ QueueAway \/ outClock >= 4
        /\ dmxPc \in BeforeSwap =>
            timerClock <= lag \/ (dmxPc \in {"clear", "swap"} /\ prgPc = "receive")
        /\ dmxPc = "break" => Usart!TransmitterIdle
        /\ dmxPc \in SendingPcs \ {"swap", "break"} => intact

TimedInv == ClockInv /\ SilenceInv /\ OnTimeInv /\ TransmitterInv /\ PeriodInv

USE DEF QueueWait, RenderWait, SwapWait, PeriodMin, PeriodMax, TxMin, TxMax, Expired

-----------------------------------------------------------------------------
(* The steps, as far as the clocks go.                                       *)

DmxMove ==
    \/ /\ dmxPc = "entry" /\ dmxPc' = "suspended"
       /\ UNCHANGED <<bits, prgPc>>
    \/ /\ dmxPc = "getBits"
       /\ dmxPc' = IF RUNNING \notin bits THEN "entry"
                   ELSE IF FINISHED \in bits THEN "clear" ELSE "waitFinished"
       /\ UNCHANGED <<bits, prgPc>>
    \/ /\ dmxPc = "waitFinished"
       /\ dmxPc' = IF FINISHED \in bits THEN "clear" ELSE "waiting"
       /\ bits' = bits \ {FINISHED} /\ prgPc' = prgPc
    \/ /\ dmxPc \in {"timedOut", "stop"}
       /\ dmxPc' \in {"clear", "reporting", "stop", "entry"}
       /\ dmxPc = "stop" => dmxPc' = "entry"
       /\ prgPc' = prgPc
    \/ /\ dmxPc = "clear" /\ dmxPc' = "swap"
       /\ bits' = bits \ {FINISHED} /\ prgPc' = prgPc
    \/ /\ dmxPc = "swap" /\ dmxPc' = "break"
       /\ UNCHANGED <<bits, prgPc>>
    \/ /\ dmxPc \in {"break", "startCode", "armStartCode", "buffer", "armBuffer"}
       /\ dmxPc' \in {"startCode", "armStartCode", "buffer", "armBuffer", "signal"}
       /\ UNCHANGED <<bits, prgPc>>
    \/ /\ dmxPc = "signal" /\ dmxPc' = "entry"
       /\ IF prgPc = "waiting"
          THEN /\ bits' = bits \ {SWAPPED}
               /\ prgPc' = IF RUNNING \in bits THEN "granted" ELSE "receive"
          ELSE bits' = bits \cup {SWAPPED} /\ prgPc' = prgPc

PrgMove ==
    \/ /\ prgPc = "receive" /\ prgPc' \in {"waitSwapped", "receiving"}
       /\ UNCHANGED <<bits, dmxPc>>
    \/ /\ prgPc \in {"waitSwapped", "timedOut"}
       /\ bits' = bits \ {SWAPPED} /\ dmxPc' = dmxPc
       /\ IF prgPc = "waitSwapped" /\ SWAPPED \notin bits THEN prgPc' = "waiting"
          ELSE prgPc' = IF {RUNNING, SWAPPED} \subseteq bits THEN "granted" ELSE "receive"
    \/ /\ prgPc \in {"granted", "render"} /\ prgPc' \in {"render", "finish"}
       /\ UNCHANGED <<bits, dmxPc>>
    \/ /\ prgPc = "finish" /\ prgPc' = "receive"
       /\ IF dmxPc = "waiting" THEN bits' = bits \ {FINISHED} /\ dmxPc' = "clear"
          ELSE bits' = bits \cup {FINISHED} /\ dmxPc' = dmxPc

LEMMA DmxMoves == DmxTask => DmxMove
<1> SUFFICES ASSUME DmxTask PROVE DmxMove
  OBVIOUS
<1> USE DEF DmxAt, prgVars, bufferVars
<1>1. CASE DmxSuspend
  BY <1>1 DEF DmxSuspend, DmxMove
<1>2. CASE DmxGetBits
  BY <1>2 DEF DmxGetBits, DmxMove
<1>3. CASE DmxWaitFinished
  BY <1>3 DEF DmxWaitFinished, DmxMove
<1>4. CASE DmxWaitTimedOut
  BY <1>4 DEF DmxWaitTimedOut, DmxMove
<1>5. CASE DmxStop
  BY <1>5 DEF DmxStop, DmxMove
<1>6. CASE DmxClearFinished
  BY <1>6 DEF DmxClearFinished, DmxMove
<1>7. CASE DmxSwapBuffer
  BY <1>7 DEF DmxSwapBuffer, DmxMove
<1>8. CASE DmxBreak \/ DmxWriteStartCode \/ DmxArmStartCode \/ DmxWriteBuffer \/ DmxArmBuffer
  BY <1>8 DEF DmxBreak, DmxWriteStartCode, DmxArmStartCode, DmxWriteBuffer, DmxArmBuffer, DmxMove
<1>9. CASE DmxSignalSwapped
  BY <1>9 DEF DmxSignalSwapped, DmxMove, AfterWait, RUNNING, SWAPPED
<1>10. QED
  BY <1>1, <1>2, <1>3, <1>4, <1>5, <1>6, <1>7, <1>8, <1>9 DEF DmxTask

LEMMA PrgMoves == PrgTask => PrgMove /\ ~DmxReady
<1> SUFFICES ASSUME PrgTask PROVE PrgMove /\ ~DmxReady
  OBVIOUS
<1> USE DEF PrgAt, prgVars, bufferVars
<1>1. CASE PrgReceive
  BY <1>1 DEF PrgReceive, PrgMove
<1>2. CASE PrgWaitSwapped
  BY <1>2 DEF PrgWaitSwapped, PrgMove, AfterWait
<1>3. CASE PrgWaitTimedOut
  BY <1>3 DEF PrgWaitTimedOut, PrgMove, AfterWait
<1>4. CASE PrgBeginRender \/ PrgRenderLamp
  BY <1>4 DEF PrgBeginRender, PrgRenderLamp, PrgMove
<1>5. CASE PrgSignalFinished
  BY <1>5 DEF PrgSignalFinished, PrgMove
<1>6. QED
  BY <1>1, <1>2, <1>3, <1>4, <1>5 DEF PrgTask

\* A tick, written out.
LEMMA TickClocks ==
    ASSUME Tick, ClockInv
    PROVE  /\ UNCHANGED vars /\ regime' = regime
           /\ timerClock < 7 /\ timerClock' = timerClock + 1
           /\ dmxClock' = IF dmxPc = "waiting" THEN dmxClock + 1 ELSE 0
           /\ prgClock' = IF PrgReady THEN 0 ELSE prgClock + 1
           /\ prgPc = "receiving" => prgClock < 10
           /\ txClock' = IF Usart!TransmitterIdle THEN 0 ELSE txClock + 1
           /\ ~Usart!TransmitterIdle => txClock < 2
           /\ outClock' \in Nat /\ outClock' >= outClock /\ outClock' <= outClock + 1
           /\ outClock < 19 => outClock' = outClock + 1
           /\ DmxReady \/ PrgReady => lag < regime.slack /\ lag' = lag + 1
           /\ ~(DmxReady \/ PrgReady) => lag' = 0
  BY TimingAssumption DEF Tick, NothingDue, ClockInv

-----------------------------------------------------------------------------
LEMMA ClockInit == TimedInit => ClockInv
  BY TimingAssumption DEF TimedInit, Init, ClockInv

LEMMA ClockStep == ClockInv /\ [TimedNext]_timedVars => ClockInv'
<1> SUFFICES ASSUME ClockInv, [TimedNext]_timedVars PROVE ClockInv'
  OBVIOUS
<1> USE DEF ClockInv
<1>1. CASE Tick
  BY <1>1, TickClocks DEF vars, prgVars, PrgReady
<1>2. CASE TimedTimerInterrupt
  BY <1>2 DEF TimedTimerInterrupt, TimerInterrupt, prgVars
<1>3. CASE TimedDmxTimeout \/ TimedDmxReportEnds
  BY <1>3 DEF TimedDmxTimeout, TimedDmxReportEnds, DmxTimeout, DmxReportEnds, prgVars, clocks
<1>4. CASE TimedPrgTimeout \/ TimedQueueWaitEnds
  BY <1>4 DEF TimedPrgTimeout, TimedQueueWaitEnds, PrgTimeout, QueueWaitEnds, clocks
<1>5. CASE TimedDmxTask
  BY <1>5, DmxMoves DEF TimedDmxTask, DmxMove
<1>6. CASE TimedPrgTask
  BY <1>6 DEF TimedPrgTask
<1>7. CASE TimedUsartHandler \/ TimedUsartShiftOut
  BY <1>7 DEF TimedUsartHandler, TimedUsartShiftOut, UsartHandler, UsartShiftOut, prgVars, clocks
<1>8. CASE UNCHANGED timedVars
  BY <1>8 DEF timedVars, vars, prgVars, clocks
<1>9. QED
  BY <1>1, <1>2, <1>3, <1>4, <1>5, <1>6, <1>7, <1>8 DEF TimedNext

LEMMA SilenceInit == TimedInit => SilenceInv
  BY DEF TimedInit, Init, SilenceInv

LEMMA SilenceStep == ClockInv /\ SilenceInv /\ [TimedNext]_timedVars => SilenceInv'
<1> SUFFICES ASSUME ClockInv, SilenceInv, [TimedNext]_timedVars PROVE SilenceInv'
  OBVIOUS
<1> USE DEF ClockInv, SilenceInv
<1>1. CASE Tick
  BY <1>1, TickClocks DEF vars
<1>2. CASE TimedTimerInterrupt
  BY <1>2 DEF TimedTimerInterrupt, TimerInterrupt
<1>3. CASE TimedDmxTimeout \/ TimedDmxReportEnds
  BY <1>3 DEF TimedDmxTimeout, TimedDmxReportEnds, DmxTimeout, DmxReportEnds, clocks
<1>4. CASE TimedPrgTimeout \/ TimedQueueWaitEnds
  BY <1>4 DEF TimedPrgTimeout, TimedQueueWaitEnds, PrgTimeout, QueueWaitEnds, clocks
<1>5. CASE TimedDmxTask
  BY <1>5, DmxMoves DEF TimedDmxTask, DmxMove
<1>6. CASE TimedPrgTask
  BY <1>6, PrgMoves DEF TimedPrgTask, PrgMove
<1>7. CASE TimedUsartHandler \/ TimedUsartShiftOut
  BY <1>7 DEF TimedUsartHandler, TimedUsartShiftOut, UsartHandler, UsartShiftOut, clocks
<1>8. CASE UNCHANGED timedVars
  BY <1>8 DEF timedVars, vars, clocks
<1>9. QED
  BY <1>1, <1>2, <1>3, <1>4, <1>5, <1>6, <1>7, <1>8 DEF TimedNext

-----------------------------------------------------------------------------
(* The hand-off in time, whatever commands arrive.                           *)

\* Wherever the token is, the next swap is due within one wait for the queue and
\* two hold-ups of the last one.
LEMMA OutputBound ==
    ASSUME TypeOK, TokenInv, ClockInv, OnTimeInv, regime.slack <= 4
    PROVE  outClock <= 10 + 2 * regime.slack
<1> DEFINE bound == 10 + 2 * regime.slack
<1> USE DEF ClockInv, OnTimeInv, NotStopped
<1>1. CASE dmxPc \in AfterSwap \cup BeforeSwap \cup {"suspended"}
  BY <1>1 DEF OutputOnTime
<1>2. CASE dmxPc = "waiting"
  <2>1. SWAPPED \in bits \/ RendererHolds
    BY <1>2, TokenForm DEF OutputOnTime, TokenInv, OutputHolds, SendingPcs
  <2>2. CASE RendererHolds
    BY <2>2 DEF RendererOnTime
  <2>3. CASE SWAPPED \in bits /\ ~RendererHolds
    <3>1. prgPc \in {"receive", "receiving", "waitSwapped"}
      BY <2>3 DEF RendererOnTime, RendererHolds, TypeOK, PrgPcs
    <3>2. QED
      BY <2>3, <3>1 DEF RendererOnTime
  <2>4. QED
    BY <2>1, <2>2, <2>3
<1>3. dmxPc \in AfterSwap \cup BeforeSwap \cup {"suspended", "waiting"}
  BY DEF TypeOK, DmxPcs, AfterSwap, BeforeSwap
<1>4. QED
  BY <1>1, <1>2, <1>3

\* No wait of the hand-off gets as old as its timeout.
LEMMA NoTimeout ==
    ASSUME TypeOK, TokenInv, ClockInv, OnTimeInv, regime.slack <= 4
    PROVE  ~TimedDmxTimeout /\ ~TimedDmxReportEnds /\ ~TimedPrgTimeout
<1>1. outClock <= 18
  BY OutputBound DEF ClockInv
<1>2. QED
  BY <1>1 DEF TimedDmxTimeout, TimedDmxReportEnds, TimedPrgTimeout, DmxTimeout, DmxReportEnds,
     PrgTimeout, ClockInv, OnTimeInv, NotStopped, OutputOnTime, RendererOnTime

LEMMA OnTimeInit == TimedInit => OnTimeInv
  BY TimingAssumption DEF TimedInit, Init, OnTimeInv, NotStopped, OutputOnTime, RendererOnTime,
     AfterSwap, BeforeSwap, RendererHolds, SendingPcs, RUNNING, SWAPPED, FINISHED

LEMMA OnTimeStep ==
    TypeOK /\ TokenInv /\ ClockInv /\ OnTimeInv /\ [TimedNext]_timedVars => OnTimeInv'
<1> SUFFICES ASSUME TypeOK, TokenInv, ClockInv, OnTimeInv, [TimedNext]_timedVars,
                    regime'.slack <= 4
             PROVE  (NotStopped /\ OutputOnTime /\ RendererOnTime)'
  BY DEF OnTimeInv
<1>r. regime' = regime
  BY DEF TimedNext, Tick, TimedTimerInterrupt, TimedDmxTimeout, TimedDmxReportEnds,
     TimedPrgTimeout, TimedQueueWaitEnds, TimedDmxTask, TimedPrgTask, TimedUsartHandler,
     TimedUsartShiftOut, timedVars, clocks
<1> DEFINE slack == regime.slack
<1>s. slack \in 0..4 /\ lag \in 0..slack
  BY <1>r DEF ClockInv
<1>n. NotStopped /\ OutputOnTime /\ RendererOnTime
  BY <1>s DEF OnTimeInv
<1>b. outClock <= 10 + 2 * slack
  BY <1>s, OutputBound
<1>e. /\ RendererHolds => SWAPPED \notin bits /\ FINISHED \notin bits /\ dmxPc \notin SendingPcs
      /\ dmxPc \in SendingPcs => FINISHED \notin bits /\ SWAPPED \notin bits
  BY Exclusion
<1>1. CASE Tick
  <2>1. /\ UNCHANGED vars /\ outClock' = outClock + 1 /\ timerClock' = timerClock + 1
        /\ dmxPc = "waiting" => dmxClock' = dmxClock + 1
        /\ prgPc \in {"receiving", "waiting"} => prgClock' = prgClock + 1
        /\ dmxPc \in AfterSwap \cup BeforeSwap => lag' = lag + 1
        /\ prgPc \notin {"receiving", "waiting"} => lag' = lag + 1
    BY <1>1, <1>b, <1>s, TickClocks DEF ClockInv, PrgReady, DmxReady, AfterSwap, BeforeSwap
  <2>2. UNCHANGED <<bits, dmxPc, prgPc, RendererHolds>>
    BY <2>1 DEF vars, prgVars, RendererHolds
  <2>3. NotStopped'
    BY <1>n, <2>2 DEF NotStopped
  <2>4. OutputOnTime'
    BY <1>n, <1>r, <1>s, <2>1, <2>2 DEF OutputOnTime, ClockInv
  <2>5. RendererOnTime'
    BY <1>n, <1>r, <1>s, <2>1, <2>2 DEF RendererOnTime, ClockInv, RendererHolds
  <2>6. QED
    BY <2>3, <2>4, <2>5
<1>2. CASE TimedTimerInterrupt
  <2>1. /\ UNCHANGED <<bits, prgPc, RendererHolds, dmxClock, prgClock, outClock, lag>>
        /\ timerClock' = 0
        /\ dmxPc' = IF dmxPc = "suspended" THEN "getBits" ELSE dmxPc
    BY <1>2 DEF TimedTimerInterrupt, TimerInterrupt, prgVars, RendererHolds
  <2>2. NotStopped'
    BY <1>n, <2>1 DEF NotStopped
  <2>3. OutputOnTime'
    BY <1>n, <1>r, <1>s, <2>1 DEF OutputOnTime, ClockInv, AfterSwap, BeforeSwap
  <2>4. RendererOnTime'
    BY <1>n, <1>r, <1>s, <2>1 DEF RendererOnTime, ClockInv, SendingPcs
  <2>5. QED
    BY <2>2, <2>3, <2>4
<1>3. ~TimedDmxTimeout /\ ~TimedDmxReportEnds /\ ~TimedPrgTimeout
  BY <1>s, NoTimeout
<1>4. CASE TimedQueueWaitEnds
  <2>1. /\ UNCHANGED <<bits, dmxPc, timerClock, dmxClock, prgClock, outClock, lag>>
        /\ prgPc = "receiving" /\ prgPc' = "waitSwapped"
    BY <1>4 DEF TimedQueueWaitEnds, QueueWaitEnds, clocks
  <2>2. NotStopped' /\ OutputOnTime'
    BY <1>n, <1>r, <2>1 DEF NotStopped, OutputOnTime
  <2>3. RendererOnTime'
    BY <1>n, <1>r, <1>s, <2>1 DEF RendererOnTime, ClockInv, RendererHolds
  <2>4. QED
    BY <2>2, <2>3
<1>5. CASE TimedDmxTask
  <2>1. /\ DmxMove
        /\ UNCHANGED <<timerClock, prgClock, lag>>
        /\ dmxClock' = IF dmxPc' = "waiting" THEN 0 ELSE dmxClock
        /\ outClock' = IF dmxPc = "swap" THEN 0 ELSE outClock
    BY <1>5, DmxMoves DEF TimedDmxTask
  <2>2. NotStopped'
    BY <1>n, <2>1 DEF NotStopped, DmxMove, RUNNING, SWAPPED, FINISHED
  <2>3. OutputOnTime'
    BY <1>n, <1>r, <1>s, <2>1
       DEF OutputOnTime, NotStopped, ClockInv, DmxMove, AfterSwap, BeforeSwap, FINISHED, SWAPPED
  <2>4. RendererOnTime'
    BY <1>n, <1>r, <1>s, <1>b, <1>e, <2>1
       DEF RendererOnTime, OutputOnTime, NotStopped, ClockInv, DmxMove, SendingPcs, AfterSwap,
           RendererHolds, FINISHED, SWAPPED
  <2>5. QED
    BY <2>2, <2>3, <2>4
<1>6. CASE TimedPrgTask
  <2>1. /\ PrgMove
        /\ UNCHANGED <<timerClock, dmxClock, outClock, lag>>
        /\ prgClock' = IF prgPc' \in {"receiving", "waiting"} THEN 0 ELSE prgClock
    BY <1>6, PrgMoves DEF TimedPrgTask
  <2>2. NotStopped'
    BY <1>n, <2>1 DEF NotStopped, PrgMove, RUNNING, SWAPPED, FINISHED
  <2>3. OutputOnTime'
    BY <1>n, <1>r, <1>s, <2>1
       DEF OutputOnTime, RendererOnTime, NotStopped, ClockInv, PrgMove, AfterSwap, BeforeSwap,
           RendererHolds, FINISHED, SWAPPED
  <2>4. RendererOnTime'
    BY <1>n, <1>r, <1>s, <1>b, <1>e, <2>1
       DEF RendererOnTime, NotStopped, ClockInv, PrgMove, SendingPcs, RendererHolds, RUNNING,
           FINISHED, SWAPPED
  <2>5. QED
    BY <2>2, <2>3, <2>4
<1>7. CASE TimedUsartHandler \/ TimedUsartShiftOut \/ UNCHANGED timedVars
  <2>1. UNCHANGED <<bits, dmxPc, prgPc, clocks>>
    BY <1>7 DEF TimedUsartHandler, TimedUsartShiftOut, UsartHandler, UsartShiftOut, timedVars,
       vars, prgVars
  <2>2. QED
    BY <1>n, <2>1 DEF clocks, NotStopped, OutputOnTime, RendererOnTime, RendererHolds
<1>8. QED
  BY <1>1, <1>2, <1>3, <1>4, <1>5, <1>6, <1>7 DEF TimedNext

-----------------------------------------------------------------------------
(* The transmitter and the period of the frames.                             *)

\* The steps of the output task that the transmitter sees.
LEMMA DmxTransmits ==
    ASSUME DmxTask
    PROVE  /\ dmxPc \notin {"startCode", "buffer"} =>
                (Usart!TransmitterIdle' <=> Usart!TransmitterIdle)
           /\ dmxPc = "break" => (intact' <=> Usart!TransmitterIdle)
           /\ dmxPc # "break" => intact' = intact
<1> USE DEF DmxAt, wireVars, Usart!TransmitterIdle, usartVars
<1>1. CASE \/ DmxSuspend \/ DmxGetBits \/ DmxWaitFinished \/ DmxWaitTimedOut \/ DmxStop
          \/ DmxClearFinished \/ DmxSwapBuffer \/ DmxSignalSwapped
  BY <1>1 DEF DmxSuspend, DmxGetBits, DmxWaitFinished, DmxWaitTimedOut, DmxStop,
     DmxClearFinished, DmxSwapBuffer, DmxSignalSwapped
<1>2. CASE DmxBreak
  BY <1>2 DEF DmxBreak
<1>3. CASE DmxWriteStartCode \/ DmxWriteBuffer
  BY <1>3 DEF DmxWriteStartCode, DmxWriteBuffer
<1>4. CASE DmxArmStartCode \/ DmxArmBuffer
  BY <1>4 DEF DmxArmStartCode, DmxArmBuffer, Usart!Arm
<1>5. QED
  BY <1>1, <1>2, <1>3, <1>4 DEF DmxTask

\* Nothing else makes an idle transmitter busy.
LEMMA IdleStays ==
    ASSUME TypeOK, [TimedNext]_timedVars, ~TimedDmxTask, Usart!TransmitterIdle
    PROVE  Usart!TransmitterIdle'
<1> USE DEF Usart!TransmitterIdle, usartVars
<1>1. CASE UNCHANGED usartVars
  BY <1>1
<1>2. CASE TimedUsartHandler
  BY <1>2 DEF TimedUsartHandler, UsartHandler, Usart!UsartInterrupt, Usart!ServeDre
<1>3. CASE TimedUsartShiftOut
  BY <1>3 DEF TimedUsartShiftOut, UsartShiftOut, Usart!ShiftOut
<1>4. CASE Tick \/ TimedTimerInterrupt \/ TimedDmxTimeout \/ TimedDmxReportEnds
          \/ TimedPrgTimeout \/ TimedQueueWaitEnds \/ UNCHANGED timedVars
  BY <1>4 DEF Tick, TimedTimerInterrupt, TimedDmxTimeout, TimedDmxReportEnds, TimedPrgTimeout,
     TimedQueueWaitEnds, TimerInterrupt, DmxTimeout, DmxReportEnds, PrgTimeout, QueueWaitEnds,
     timedVars, vars
<1>5. CASE TimedPrgTask
  BY <1>5 DEF TimedPrgTask, PrgTask, PrgReceive, PrgWaitSwapped, PrgWaitTimedOut, PrgBeginRender,
     PrgRenderLamp, PrgSignalFinished
<1>6. QED
  BY <1>2, <1>3, <1>4, <1>5 DEF TimedNext

\* Only the output task and the timer interrupt move the output task along a frame.
LEMMA OutputElsewhere ==
    ASSUME [TimedNext]_timedVars, ~TimedDmxTask
    PROVE  /\ dmxPc \in SendingPcs \/ dmxPc' \in SendingPcs => dmxPc' = dmxPc
           /\ intact' = intact
<1> USE DEF SendingPcs, wireVars, prgVars
<1>1. CASE Tick \/ UNCHANGED timedVars \/ TimedUsartHandler \/ TimedUsartShiftOut
  BY <1>1 DEF Tick, timedVars, vars, TimedUsartHandler, TimedUsartShiftOut, UsartHandler, UsartShiftOut
<1>2. CASE TimedTimerInterrupt \/ TimedDmxTimeout \/ TimedDmxReportEnds
          \/ TimedPrgTimeout \/ TimedQueueWaitEnds
  BY <1>2 DEF TimedTimerInterrupt, TimedDmxTimeout, TimedDmxReportEnds, TimedPrgTimeout,
     TimedQueueWaitEnds, TimerInterrupt, DmxTimeout, DmxReportEnds, PrgTimeout, QueueWaitEnds
<1>3. CASE TimedPrgTask
  BY <1>3 DEF TimedPrgTask, PrgTask, PrgReceive, PrgWaitSwapped, PrgWaitTimedOut, PrgBeginRender,
     PrgRenderLamp, PrgSignalFinished
<1>4. QED
  BY <1>1, <1>2, <1>3 DEF TimedNext

LEMMA TransmitterInit == TimedInit => TransmitterInv
  BY TimingAssumption DEF TimedInit, Init, TransmitterInv, SendingPcs

LEMMA TransmitterStep ==
    TypeOK /\ ClockInv /\ TransmitterInv /\ [TimedNext]_timedVars => TransmitterInv'
<1> SUFFICES ASSUME TypeOK, ClockInv, TransmitterInv, [TimedNext]_timedVars
             PROVE  TransmitterInv'
  OBVIOUS
<1>i. ~TimedDmxTask => (Usart!TransmitterIdle => Usart!TransmitterIdle')
  BY IdleStays
<1>o. ~TimedDmxTask => (dmxPc \in SendingPcs \/ dmxPc' \in SendingPcs => dmxPc' = dmxPc)
  BY OutputElsewhere
<1>1. CASE Tick
  <2>1. UNCHANGED <<dmxPc, Usart!TransmitterIdle>>
    BY <1>1 DEF Tick, vars, usartVars, Usart!TransmitterIdle
  <2>2. QED
    BY <1>1, <2>1, TickClocks DEF TransmitterInv, ClockInv, DmxReady, SendingPcs
<1>2. CASE TimedDmxTask
  <2>1. /\ DmxMove /\ UNCHANGED <<regime, lag>>
        /\ txClock' = IF dmxPc = "break" THEN 0 ELSE txClock
        /\ outClock' = IF dmxPc = "swap" THEN 0 ELSE outClock
        /\ dmxPc \notin {"startCode", "buffer"} =>
              (Usart!TransmitterIdle' <=> Usart!TransmitterIdle)
    BY <1>2, DmxMoves, DmxTransmits DEF TimedDmxTask
  <2>2. (dmxPc \in SendingPcs \ {"swap"} => outClock <= lag)'
    BY <2>1 DEF DmxMove, TransmitterInv, ClockInv, SendingPcs
  <2>3. (dmxPc # "break" /\ ~Usart!TransmitterIdle => outClock <= txClock + regime.slack)'
    <3>1. CASE dmxPc \in SendingPcs \ {"swap"}
      BY <2>1, <3>1 DEF TransmitterInv, ClockInv
    <3>2. CASE dmxPc = "swap"
      BY <2>1, <3>2 DEF DmxMove
    <3>3. CASE dmxPc \notin SendingPcs
      BY <2>1, <3>3 DEF TransmitterInv, ClockInv, SendingPcs
    <3>4. QED
      BY <3>1, <3>2, <3>3
  <2>4. QED
    BY <2>2, <2>3 DEF TransmitterInv
<1>3. CASE ~Tick /\ ~TimedDmxTask
  <2>1. UNCHANGED <<regime, lag, txClock, outClock>>
    BY <1>3 DEF TimedNext, TimedTimerInterrupt, TimedDmxTimeout, TimedDmxReportEnds,
       TimedPrgTimeout, TimedQueueWaitEnds, TimedPrgTask, TimedUsartHandler, TimedUsartShiftOut,
       timedVars, clocks
  <2>2. QED
    BY <1>3, <1>i, <1>o, <2>1 DEF TransmitterInv, SendingPcs
<1>4. QED
  BY <1>1, <1>2, <1>3

LEMMA PeriodInit == TimedInit => PeriodInv
  BY TimingAssumption DEF TimedInit, Init, PeriodInv, TimerAway, QueueAway, AfterSwap, BeforeSwap,
     SendingPcs

LEMMA PeriodStep ==
    TypeOK /\ TokenInv /\ ClockInv /\ OnTimeInv /\ TransmitterInv /\ PeriodInv
        /\ [TimedNext]_timedVars => PeriodInv'
<1> SUFFICES ASSUME TypeOK, TokenInv, ClockInv, OnTimeInv, TransmitterInv, PeriodInv,
                    [TimedNext]_timedVars, ~regime'.commands, regime'.slack <= 1
             PROVE  /\ (TimerAway \/ QueueAway \/ outClock >= 4)'
                    /\ (dmxPc \in BeforeSwap =>
                          timerClock <= lag \/ (dmxPc \in {"clear", "swap"} /\ prgPc = "receive"))'
                    /\ (dmxPc = "break" => Usart!TransmitterIdle)'
                    /\ (dmxPc \in SendingPcs \ {"swap", "break"} => intact)'
  BY DEF PeriodInv
<1>r. regime' = regime
  BY DEF TimedNext, Tick, TimedTimerInterrupt, TimedDmxTimeout, TimedDmxReportEnds,
     TimedPrgTimeout, TimedQueueWaitEnds, TimedDmxTask, TimedPrgTask, TimedUsartHandler,
     TimedUsartShiftOut, timedVars, clocks
<1>s. regime.slack \in 0..1 /\ ~regime.commands /\ lag \in 0..1
  BY <1>r DEF ClockInv
<1>n. NotStopped
  BY <1>s DEF OnTimeInv
<1>p. /\ TimerAway \/ QueueAway \/ outClock >= 4
      /\ dmxPc \in BeforeSwap =>
            timerClock <= lag \/ (dmxPc \in {"clear", "swap"} /\ prgPc = "receive")
      /\ dmxPc = "break" => Usart!TransmitterIdle
      /\ dmxPc \in SendingPcs \ {"swap", "break"} => intact
  BY <1>s DEF PeriodInv
<1>f. /\ dmxPc \in SendingPcs \cup {"clear"} => ~QueueAway \/ FINISHED \notin bits
      /\ dmxPc = "swap" => FINISHED \notin bits
  BY Exclusion DEF SendingPcs, QueueAway
<1>i. ~TimedDmxTask => (Usart!TransmitterIdle => Usart!TransmitterIdle')
  BY IdleStays
<1>o. ~TimedDmxTask => /\ dmxPc \in SendingPcs \/ dmxPc' \in SendingPcs => dmxPc' = dmxPc
                       /\ intact' = intact
  BY OutputElsewhere
<1>t. ~TimedDmxTask => /\ (dmxPc = "break" => Usart!TransmitterIdle)'
                       /\ (dmxPc \in SendingPcs \ {"swap", "break"} => intact)'
  BY <1>i, <1>o, <1>p DEF SendingPcs
<1>1. CASE Tick
  <2>1. /\ UNCHANGED <<bits, dmxPc, prgPc>>
        /\ timerClock' = timerClock + 1
        /\ prgPc = "receiving" => prgClock' = prgClock + 1
        /\ outClock' \in Nat /\ outClock' >= outClock
        /\ outClock < 19 => outClock' = outClock + 1
        /\ dmxPc \in BeforeSwap => lag' = lag + 1
    BY <1>1, TickClocks DEF vars, prgVars, PrgReady, DmxReady, BeforeSwap
  <2>2. (TimerAway \/ QueueAway \/ outClock >= 4)'
    <3>1. CASE outClock >= 4
      BY <2>1, <3>1 DEF ClockInv
    <3>2. CASE outClock < 4
      <4>1. outClock' = outClock + 1
        BY <2>1, <3>2 DEF ClockInv
      <4>2. CASE TimerAway
        BY <2>1, <4>1, <4>2 DEF TimerAway, ClockInv
      <4>3. CASE QueueAway
        BY <2>1, <4>1, <4>3 DEF QueueAway, ClockInv
      <4>4. QED
        BY <1>p, <3>2, <4>2, <4>3 DEF ClockInv
    <3>3. QED
      BY <3>1, <3>2 DEF ClockInv
  <2>3. (dmxPc \in BeforeSwap =>
            timerClock <= lag \/ (dmxPc \in {"clear", "swap"} /\ prgPc = "receive"))'
    BY <1>p, <1>s, <2>1 DEF ClockInv
  <2>4. ~TimedDmxTask
    BY <1>1, <2>1 DEF TimedDmxTask, ClockInv
  <2>5. QED
    BY <1>t, <2>2, <2>3, <2>4
<1>2. CASE TimedTimerInterrupt
  <2>1. /\ UNCHANGED <<bits, prgPc, prgClock, outClock, lag>>
        /\ timerClock >= 6 /\ timerClock' = 0
        /\ dmxPc' = IF dmxPc = "suspended" THEN "getBits" ELSE dmxPc
    BY <1>2 DEF TimedTimerInterrupt, TimerInterrupt, prgVars
  <2>2. (TimerAway \/ QueueAway \/ outClock >= 4)'
    BY <1>p, <2>1 DEF TimerAway, QueueAway, ClockInv
  <2>3. (dmxPc \in BeforeSwap =>
            timerClock <= lag \/ (dmxPc \in {"clear", "swap"} /\ prgPc = "receive"))'
    BY <1>s, <2>1
  <2>4. ~TimedDmxTask
    BY <2>1 DEF TimedDmxTask, ClockInv
  <2>5. QED
    BY <1>t, <2>2, <2>3, <2>4
<1>3. ~TimedDmxTimeout /\ ~TimedDmxReportEnds /\ ~TimedPrgTimeout
  BY <1>s, NoTimeout
<1>4. CASE TimedQueueWaitEnds
  <2>1. /\ UNCHANGED <<bits, dmxPc, timerClock, prgClock, outClock, lag>>
        /\ prgPc = "receiving" /\ prgPc' = "waitSwapped" /\ prgClock >= 9
    BY <1>4, <1>s DEF TimedQueueWaitEnds, QueueWaitEnds, clocks
  <2>2. (TimerAway \/ QueueAway \/ outClock >= 4)'
    BY <1>p, <2>1 DEF TimerAway, QueueAway, ClockInv
  <2>3. (dmxPc \in BeforeSwap =>
            timerClock <= lag \/ (dmxPc \in {"clear", "swap"} /\ prgPc = "receive"))'
    BY <1>p, <2>1
  <2>4. ~TimedDmxTask
    BY <2>1, DmxMoves DEF TimedDmxTask, DmxMove
  <2>5. QED
    BY <1>t, <2>2, <2>3, <2>4
<1>5. CASE TimedDmxTask
  <2>1. /\ DmxMove
        /\ UNCHANGED <<timerClock, prgClock, lag>>
        /\ outClock' = IF dmxPc = "swap" THEN 0 ELSE outClock
        /\ dmxPc \notin {"startCode", "buffer"} =>
              (Usart!TransmitterIdle' <=> Usart!TransmitterIdle)
        /\ dmxPc = "break" => (intact' <=> Usart!TransmitterIdle)
        /\ dmxPc # "break" => intact' = intact
    BY <1>5, DmxMoves, DmxTransmits DEF TimedDmxTask
  <2>2. dmxPc = "swap" => outClock >= 4
    BY <1>p DEF TimerAway, QueueAway, AfterSwap
  <2>3. (TimerAway \/ QueueAway \/ outClock >= 4)'
    <3>1. CASE dmxPc = "swap"
      BY <1>p, <1>s, <1>f, <2>1, <3>1
         DEF TimerAway, QueueAway, DmxMove, ClockInv, AfterSwap, BeforeSwap, SendingPcs
    <3>2. CASE dmxPc # "swap"
      BY <1>p, <1>n, <2>1, <3>2
         DEF TimerAway, QueueAway, DmxMove, ClockInv, AfterSwap, NotStopped, FINISHED, SWAPPED
    <3>3. QED
      BY <3>1, <3>2
  <2>4. (dmxPc \in BeforeSwap =>
            timerClock <= lag \/ (dmxPc \in {"clear", "swap"} /\ prgPc = "receive"))'
    BY <1>p, <1>n, <2>1 DEF DmxMove, BeforeSwap, NotStopped
  <2>5. (dmxPc = "break" => Usart!TransmitterIdle)'
    <3>1. dmxPc = "swap" => Usart!TransmitterIdle
      BY <1>s, <2>2 DEF TransmitterInv, ClockInv
    <3>2. QED
      BY <2>1, <3>1 DEF DmxMove
  <2>6. (dmxPc \in SendingPcs \ {"swap", "break"} => intact)'
    BY <1>p, <2>1 DEF DmxMove, SendingPcs
  <2>7. QED
    BY <2>3, <2>4, <2>5, <2>6
<1>6. CASE TimedPrgTask
  <2>1. /\ PrgMove /\ ~DmxReady
        /\ UNCHANGED <<timerClock, outClock, lag>>
        /\ prgClock' = IF prgPc' \in {"receiving", "waiting"} THEN 0 ELSE prgClock
        /\ prgPc = "receive" => prgPc' = "receiving"
    BY <1>6, <1>s, PrgMoves DEF TimedPrgTask
  <2>2. (TimerAway \/ QueueAway \/ outClock >= 4)'
    BY <1>p, <2>1
       DEF TimerAway, QueueAway, PrgMove, DmxReady, ClockInv, AfterSwap, FINISHED, SWAPPED
  <2>3. (dmxPc \in BeforeSwap =>
            timerClock <= lag \/ (dmxPc \in {"clear", "swap"} /\ prgPc = "receive"))'
    BY <2>1 DEF PrgMove, DmxReady, BeforeSwap
  <2>4. CASE TimedDmxTask
    BY <1>5, <2>4
  <2>5. QED
    BY <1>t, <2>2, <2>3, <2>4
<1>7. CASE TimedUsartHandler \/ TimedUsartShiftOut \/ UNCHANGED timedVars
  <2>1. UNCHANGED <<bits, dmxPc, prgPc, clocks>>
    BY <1>7 DEF TimedUsartHandler, TimedUsartShiftOut, UsartHandler, UsartShiftOut, timedVars,
       vars, prgVars
  <2>2. /\ (TimerAway \/ QueueAway \/ outClock >= 4)'
        /\ (dmxPc \in BeforeSwap =>
              timerClock <= lag \/ (dmxPc \in {"clear", "swap"} /\ prgPc = "receive"))'
    BY <1>p, <2>1 DEF clocks, TimerAway, QueueAway
  <2>3. CASE TimedDmxTask
    BY <1>5, <2>3
  <2>4. QED
    BY <1>t, <2>2, <2>3
<1>8. QED
  BY <1>1, <1>2, <1>3, <1>4, <1>5, <1>6, <1>7 DEF TimedNext

-----------------------------------------------------------------------------
(* The properties.                                                           *)

LEMMA TimedInvariant == TimedSpec => []TimedInv
<1>1. TimedSpec => []CycleInv
  BY TimedCycleIsACycle, CycleInvariant
<1>2. CycleInv => TypeOK /\ TokenInv
  BY DEF CycleInv, TypeInv
<1>3. TimedInit => TimedInv
  BY ClockInit, SilenceInit, OnTimeInit, TransmitterInit, PeriodInit DEF TimedInv
<1>4. TimedInv /\ TypeOK /\ TokenInv /\ [TimedNext]_timedVars => TimedInv'
  BY ClockStep, SilenceStep, OnTimeStep, TransmitterStep, PeriodStep DEF TimedInv
<1>5. QED
  BY <1>1, <1>2, <1>3, <1>4, PTL DEF TimedSpec

\* With commands at any time and hold-ups of up to four ticks, the two waits of
\* the hand-off, 100 ms and 1000 ms, never time out, and the cycle is not stopped.
THEOREM CycleStaysRunning == TimedSpec => []StaysRunning
<1>1. TimedInv => StaysRunning
  BY DEF TimedInv, OnTimeInv, NotStopped, StaysRunning
<1>2. QED
  BY TimedInvariant, <1>1, PTL

\* The front buffer is replaced within one wait for the queue and two hold-ups,
\* although a timer tick is lost whenever the output task waits for the renderer.
THEOREM OutputGoesOn == TimedSpec => []OutputNeverPauses
<1>1. TimedSpec => []CycleInv
  BY TimedCycleIsACycle, CycleInvariant
<1>2. CycleInv /\ TimedInv => OutputNeverPauses
  BY OutputBound DEF CycleInv, TypeInv, TimedInv, OutputNeverPauses
<1>3. QED
  BY TimedInvariant, <1>1, <1>2, PTL

\* Without commands the break of a frame never falls into the one before it: the
\* transmitter is done with a frame before the next swap can come.
THEOREM FramesNotCut == TimedSpec => []FramesNeverCut
<1>1. TimedInv => FramesNeverCut
  BY DEF TimedInv, PeriodInv, FramesNeverCut
<1>2. QED
  BY TimedInvariant, <1>1, PTL

\* For every hold-up: when the output task gives up, the last swap is 19 ticks,
\* the shortest the 100 ms wait can be, or more in the past.
THEOREM StopAfterSilence == TimedSpec => []StopNeedsSilence
<1>1. TimedInv => StopNeedsSilence
  BY DEF TimedInv, SilenceInv, StopNeedsSilence
<1>2. QED
  BY TimedInvariant, <1>1, PTL
=============================================================================
