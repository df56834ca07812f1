------------------------------- MODULE UsartTx -------------------------------
(***************************************************************************)
(* The transmit half of the interrupt driven USART driver                  *)
(* (ASF/sam0/drivers/sercom/usart/usart_interrupt.c) and of the SERCOM     *)
(* hardware below it, as the DMX output uses them.                         *)
(*                                                                         *)
(* A job is a pointer and a length.  _usart_write_buffer claims the driver *)
(* inside a critical section, and only then, with interrupts enabled, sets *)
(* the pointer and the status and arms the data-register-empty interrupt.  *)
(* One unit of length stands for one lamp (four bytes of a DMX frame).     *)
(***************************************************************************)
EXTENDS Naturals

CONSTANTS
    NoBuffer,       \* the pointer before the first job
    Empty           \* content of a register that holds nothing

VARIABLES
    remaining,      \* module->remaining_tx_buffer_length
    ptr,            \* module->tx_buffer_ptr, as <<buffer, offset>>
    txStatus,       \* module->tx_status
    intEnabled,     \* INTENSET, the transmit bits
    txcFlag,        \* INTFLAG.TXC
    dataReg,        \* the DATA register
    shiftReg        \* the shift register behind it

driver == <<remaining, ptr, txStatus>>
hardware == <<intEnabled, txcFlag, dataReg, shiftReg>>
txVars == <<driver, hardware>>

UsartInit ==
    /\ remaining = 0
    /\ ptr = [buffer |-> NoBuffer, offset |-> 0]
    /\ txStatus = "OK"
    /\ intEnabled = {}
    /\ txcFlag = FALSE
    /\ dataReg = Empty
    /\ shiftReg = Empty

-----------------------------------------------------------------------------
(* The job calls: usart_write_job is Claim(1), usart_write_buffer_job is   *)
(* Claim(length); both return STATUS_BUSY and change nothing when Busy.    *)

Busy == remaining > 0

Claim(length) ==
    /\ ~Busy
    /\ remaining' = length
    /\ UNCHANGED <<ptr, txStatus, hardware>>

Arm(buffer) ==
    /\ ptr' = [buffer |-> buffer, offset |-> 0]
    /\ txStatus' = "BUSY"
    /\ intEnabled' = intEnabled \cup {"DRE"}
    /\ UNCHANGED <<remaining, txcFlag, dataReg, shiftReg>>

-----------------------------------------------------------------------------
(* The interrupt handler.  It samples the enabled flags once, serves the   *)
(* empty data register first and the completed transmission after it.      *)

DrePending == "DRE" \in intEnabled /\ dataReg = Empty
TxcPending == "TXC" \in intEnabled /\ txcFlag
InterruptPending == DrePending \/ TxcPending

\* What DRE service leaves in INTENSET: the last byte swaps DRE for TXC, and
\* a DRE interrupt without anything to send only switches itself off.
EnabledAfterDre ==
    IF remaining > 1
    THEN intEnabled
    ELSE (intEnabled \ {"DRE"}) \cup (IF remaining = 1 THEN {"TXC"} ELSE {})

\* A write to DATA falls through to an idle shift register.
WriteData(byte) ==
    /\ txcFlag' = FALSE
    /\ IF shiftReg = Empty
       THEN shiftReg' = byte /\ dataReg' = dataReg
       ELSE dataReg' = byte /\ shiftReg' = shiftReg

ServeDre(byte) ==
    IF DrePending /\ remaining > 0
    THEN /\ WriteData(byte)
         /\ ptr' = [ptr EXCEPT !.offset = @ + 1]
         /\ remaining' = remaining - 1
    ELSE UNCHANGED <<txcFlag, dataReg, shiftReg, ptr, remaining>>

UsartInterrupt(byte) ==
    /\ InterruptPending
    /\ ServeDre(byte)
    /\ LET enabled == IF DrePending THEN EnabledAfterDre ELSE intEnabled
       IN  IF TxcPending
           THEN intEnabled' = enabled \ {"TXC"} /\ txStatus' = "OK"
           ELSE intEnabled' = enabled /\ txStatus' = txStatus

-----------------------------------------------------------------------------
(* The hardware.                                                           *)

\* The shift register finishes its character and takes the next one, if any.
ShiftOut ==
    /\ shiftReg # Empty
    /\ shiftReg' = dataReg
    /\ dataReg' = Empty
    /\ txcFlag' = (dataReg = Empty)
    /\ UNCHANGED <<driver, intEnabled>>

\* Nothing accepted is still on its way to the pin.
TransmitterIdle == remaining = 0 /\ dataReg = Empty /\ shiftReg = Empty
=============================================================================
