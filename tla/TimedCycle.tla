------------------------------ MODULE TimedCycle ------------------------------
(***************************************************************************)
(* The render/output cycle with its clocks.  One unit of time is a kernel  *)
(* tick (5 ms).  Every action is an action of RenderOutputCycle that may   *)
(* only happen when its clock allows it; code takes no time, except that   *)
(* a ready task may be held up by the remote task.  A regime says whether  *)
(* remote commands arrive and for how many ticks, its slack, a ready task  *)
(* may be held up.                                                         *)
(***************************************************************************)
EXTENDS RenderOutputCycle

CONSTANTS
    Regimes,
    ClockLimit      \* where outClock stops counting, not below RenderWait - 1

ASSUME TimingAssumption ==
    /\ Regimes \subseteq [commands : BOOLEAN, slack : Nat]
    /\ ClockLimit \in Nat
    /\ ClockLimit >= 19

VARIABLES
    regime,         \* chosen at the start
    timerClock,     \* ticks since the last timer interrupt
    dmxClock,       \* ticks DMX_Output_Task has waited for FINISHED
    prgClock,       \* ticks Programs_Task has waited for the queue or SWAPPED
    txClock,        \* ticks since the break of the frame being sent
    outClock,       \* ticks since the last swap
    lag             \* ticks the ready tasks have been held up

clocks == <<regime, timerClock, dmxClock, prgClock, txClock, outClock, lag>>
timedVars == <<vars, clocks>>

\* Faulty variants: a wait given in the wrong unit, a USART at 31250 baud.
RenderWaitMs == 10
TxMaxSlow == 11

QueueWait == 10         \* (TickType_t) 10
RenderWait == 20        \* pdMS_TO_TICKS(100)
SwapWait == 200       \* pdMS_TO_TICKS(1000)
PeriodMin == 6          \* 124 / 4096 Hz = 30.27 ms: 6 or 7 kernel ticks
PeriodMax == 7
TxMin == 1              \* 129 characters of 44 us = 5.7 ms: 1 or 2 kernel ticks
TxMax == 2

TimedInit ==
    /\ Init
    /\ regime \in Regimes
    /\ timerClock = 0
    /\ dmxClock = 0
    /\ prgClock = 0
    /\ txClock = 0
    /\ outClock = 0
    /\ lag = 0

-----------------------------------------------------------------------------
\* A wait of n ticks ends between n - 1 and n ticks after it began.
Expired(clock, n) == clock >= n - 1

\* Time may not run past what is due: an interrupt, the end of a wait, the last
\* character of a frame, a ready task that has been held up long enough.
NothingDue ==
    /\ ~Usart!InterruptPending
    /\ timerClock < PeriodMax
    /\ dmxPc = "waiting" => dmxClock < RenderWait
    /\ prgPc = "receiving" => prgClock < QueueWait
    /\ prgPc = "waiting" => prgClock < SwapWait
    /\ ~Usart!TransmitterIdle => txClock < TxMax
    /\ DmxReady \/ PrgReady => lag < regime.slack

Tick ==
    /\ NothingDue
    /\ timerClock' = timerClock + 1
    /\ dmxClock' = IF dmxPc = "waiting" THEN dmxClock + 1 ELSE 0
    /\ prgClock' = IF PrgReady THEN 0 ELSE prgClock + 1
    /\ txClock' = IF Usart!TransmitterIdle THEN 0 ELSE txClock + 1
    /\ outClock' = IF outClock < ClockLimit THEN outClock + 1 ELSE outClock
    /\ lag' = IF DmxReady \/ PrgReady THEN lag + 1 ELSE 0
    /\ UNCHANGED <<vars, regime>>

TimedTimerInterrupt ==
    /\ timerClock >= PeriodMin
    /\ TimerInterrupt
    /\ timerClock' = 0
    /\ UNCHANGED <<regime, dmxClock, prgClock, txClock, outClock, lag>>

TimedDmxTimeout ==
    /\ Expired(dmxClock, RenderWait)
    /\ DmxTimeout
    /\ UNCHANGED clocks

TimedDmxReportEnds == DmxReportEnds /\ UNCHANGED clocks

TimedPrgTimeout ==
    /\ Expired(prgClock, SwapWait)
    /\ PrgTimeout
    /\ UNCHANGED clocks

TimedQueueWaitEnds ==
    /\ regime.commands \/ Expired(prgClock, QueueWait)
    /\ QueueWaitEnds
    /\ UNCHANGED clocks

TimedDmxTask ==
    /\ DmxTask
    /\ dmxClock' = IF dmxPc' = "waiting" THEN 0 ELSE dmxClock
    /\ txClock' = IF dmxPc = "break" THEN 0 ELSE txClock
    /\ outClock' = IF dmxPc = "swap" THEN 0 ELSE outClock
    /\ UNCHANGED <<regime, timerClock, prgClock, lag>>

\* Without commands the queue is empty and the task blocks.
TimedPrgTask ==
    /\ PrgTask
    /\ prgPc = "receive" /\ ~regime.commands => prgPc' = "receiving"
    /\ prgClock' = IF prgPc' \in {"receiving", "waiting"} THEN 0 ELSE prgClock
    /\ UNCHANGED <<regime, timerClock, dmxClock, txClock, outClock, lag>>

TimedUsartHandler == UsartHandler /\ UNCHANGED clocks

\* The start code is still being shifted when the buffer job is armed, and the
\* last character of the frame takes until TxMin.
TimedUsartShiftOut ==
    /\ remaining = 0 /\ dataReg = Empty => dmxPc \notin SendingPcs /\ txClock >= TxMin
    /\ UsartShiftOut
    /\ UNCHANGED clocks

TimedNext ==
    \/ Tick
    \/ TimedTimerInterrupt \/ TimedDmxTimeout \/ TimedDmxReportEnds
    \/ TimedPrgTimeout \/ TimedQueueWaitEnds
    \/ TimedDmxTask \/ TimedPrgTask
    \/ TimedUsartHandler \/ TimedUsartShiftOut

TimedSpec == TimedInit /\ [][TimedNext]_timedVars

-----------------------------------------------------------------------------
(* Properties.                                                             *)

\* The waits are long enough for each other: with commands at any time, and
\* although every task may be held up for 20 ms, neither wait of the hand-off
\* times out and the cycle is never stopped.
StaysRunning ==
    regime.slack <= 4 => RUNNING \in bits /\ dmxPc # "timedOut" /\ prgPc # "timedOut"

\* The front buffer is replaced at least once per queue wait, plus one hold-up
\* before and one after that wait: ticks lost while the output task waits for
\* the renderer do not add another timer period.
OutputNeverPauses == regime.slack <= 4 => outClock <= 10 + 2 * regime.slack

\* When DMX_Output_Task is done with a frame, it is the front buffer that is
\* being sent: "turn the buffer, begin output with getFrontBuff".
OutputBeginsWithFront == dmxPc = "signal" => ptr.buffer = Front

\* Without commands no frame is cut off by the break of the next one.
FramesNeverCut ==
    ~regime.commands /\ regime.slack <= 1 /\ dmxPc \in SendingPcs \ {"swap", "break"} => intact

\* The output task gives up only after 100 ms without any output: a tick
\* that came just after a swap does not bring the stop nearer.
StopNeedsSilence == dmxPc = "stop" => outClock >= 19
=============================================================================
