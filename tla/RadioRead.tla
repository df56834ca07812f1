------------------------------ MODULE RadioRead ------------------------------
(***************************************************************************)
(* LT89XX_Read and _IsMessageValid: the way of a packet from the FIFO of   *)
(* the radio into remoteCmdBuffer, word by word, and the decision whether  *)
(* it is a message.  The length is the packet's own first byte, which the  *)
(* radio's CRC covers but nothing else has looked at.                      *)
(*                                                                         *)
(* A byte has one bit, Leader is the one that begins and ends a message,   *)
(* and the exclusive or of bytes is their sum modulo 2.  Memory around the *)
(* buffer holds anything.                                                  *)
(***************************************************************************)
EXTENDS Integers, FiniteSets

CONSTANT bufferSize     \* REMOTE_CMD_BUFFER_SIZE, 32

ASSUME BufferAssumption ==
    /\ bufferSize \in Nat
    /\ bufferSize >= 2
    /\ bufferSize % 2 = 0

VARIABLES
    remPc,              \* where Recv_Remote_Task is
    remoteCmdBuffer,
    remoteCmdLength,
    lastCount,
    packetSize,         \* LT89XX_Read's variables, kept until the next wait
    position,           \* so many bytes has it stored
    damaged             \* the memory behind the buffer was overwritten

readVars == <<packetSize, position, damaged>>
radioVars == <<remPc, remoteCmdBuffer, remoteCmdLength, lastCount, readVars>>

Bytes == 0..1
Leader == 1
Places == 0..(bufferSize - 1)

\* A length that is refused, and any that is not.
Lengths == 0..(bufferSize + 2)

\* Where _IsMessageValid may look besides the buffer.
Around == (-2..(-1)) \cup (bufferSize..(bufferSize + 1))

\* The kernel fills a stack with 0xa5 when it creates the task: no message, and
\* a length that is refused.
RadioInit ==
    /\ remPc = "wait"
    /\ remoteCmdBuffer = [i \in Places |-> 0]
    /\ remoteCmdLength = bufferSize + 2
    /\ lastCount = 0
    /\ packetSize = 0
    /\ position = 0
    /\ damaged = FALSE

-----------------------------------------------------------------------------
\* Faulty variant of TooLong: one more is let through.
TooLongByTwo(size) == size > bufferSize + 2

\* The packets that are refused: those whose length does not fit.
TooLong(size) == size > bufferSize + 1

\* The packet interrupt has raised its flag and ended the delay.
PacketAnnounced ==
    /\ remPc = "wait"
    /\ remPc' = "read"
    /\ UNCHANGED <<remoteCmdBuffer, remoteCmdLength, lastCount, readVars>>

\* With a CRC error nothing is read.
CrcError ==
    /\ remPc = "read"
    /\ remPc' = "validate"
    /\ position' = 0
    /\ UNCHANGED <<remoteCmdBuffer, remoteCmdLength, lastCount, packetSize, damaged>>

\* The first word is a length and a byte.  A length that does not fit leaves
\* the length, and so the packet, that was there before.
ReadLength(size, byte) ==
    /\ remPc = "read"
    /\ packetSize' = size
    /\ IF TooLong(size)
       THEN /\ remPc' = "validate"
            /\ position' = 0
            /\ UNCHANGED <<remoteCmdBuffer, remoteCmdLength, damaged>>
       ELSE /\ remoteCmdLength' = size
            /\ remoteCmdBuffer' = [remoteCmdBuffer EXCEPT ![0] = byte]
            /\ position' = 1
            /\ damaged' = FALSE
            /\ remPc' = IF position' < size THEN "words" ELSE "validate"
    /\ UNCHANGED lastCount

\* A further word, two bytes, also for the last one alone.  What lies behind
\* the buffer may be the length.
ReadWord(high, low) ==
    /\ remPc = "words"
    /\ position' = position + 2
    /\ remPc' = IF position' < packetSize THEN "words" ELSE "validate"
    /\ remoteCmdBuffer' = [i \in Places |-> IF i = position THEN high
                                            ELSE IF i = position + 1 THEN low
                                            ELSE remoteCmdBuffer[i]]
    /\ damaged' = (damaged \/ position' > bufferSize)
    /\ remoteCmdLength' \in IF damaged' THEN Lengths ELSE {remoteCmdLength}
    /\ UNCHANGED <<lastCount, packetSize>>

-----------------------------------------------------------------------------
\* The message and what is around it.
MessageWith(around) ==
    [i \in Places \cup Around |-> IF i \in Places THEN remoteCmdBuffer[i] ELSE around[i]]

\* Leader, trailer and checksum of a message of a length.
WellFormed(message, length) ==
    /\ message[0] = Leader
    /\ message[length - 1] = Leader
    /\ message[length - 2] =
        Cardinality({i \in {1} \cup 2..(length - 3) : message[i] = 1}) % 2

\* Back to the delay.
Waits ==
    /\ remPc' = "wait"
    /\ packetSize' = 0
    /\ position' = 0
    /\ UNCHANGED damaged

\* Faulty variant of IsMessageValid: lastCount is not set.
IsMessageValidForgets ==
    /\ remPc = "validate"
    /\ \E around \in [Around -> Bytes] :
        IF /\ WellFormed(MessageWith(around), remoteCmdLength)
           /\ remoteCmdBuffer[1] # lastCount
        THEN remPc' = "accepted" /\ UNCHANGED readVars
        ELSE Waits
    /\ UNCHANGED <<remoteCmdBuffer, remoteCmdLength, lastCount>>

\* _IsMessageValid: a message is accepted unless it repeats the one before.
IsMessageValid ==
    /\ remPc = "validate"
    /\ \E around \in [Around -> Bytes] :
        IF /\ WellFormed(MessageWith(around), remoteCmdLength)
           /\ remoteCmdBuffer[1] # lastCount
        THEN remPc' = "accepted" /\ lastCount' = remoteCmdBuffer[1] /\ UNCHANGED readVars
        ELSE Waits /\ UNCHANGED lastCount
    /\ UNCHANGED <<remoteCmdBuffer, remoteCmdLength>>

RadioNext ==
    \/ PacketAnnounced
    \/ CrcError
    \/ \E size \in Lengths, byte \in Bytes : ReadLength(size, byte)
    \/ \E high, low \in Bytes : ReadWord(high, low)
    \/ IsMessageValid

-----------------------------------------------------------------------------
\* LT89XX_Read stores no more than one byte behind the buffer, and that one only
\* for a packet whose length is the buffer's or one more.
AtMostOneBehind ==
    \/ position <= bufferSize
    \/ position = bufferSize + 1 /\ packetSize \in {bufferSize, bufferSize + 1}

\* A message that is acted upon has been stored whole by the reading before, and
\* is not what a failed reading left of an older packet.  That fails only
\* for the lengths 0 and 1, for which the check reads before the buffer, and when
\* the byte behind the buffer has been overwritten.
MessageOfOneReading ==
    remPc = "accepted" =>
        \/ remoteCmdLength <= position
        \/ remoteCmdLength < 2
        \/ damaged
=============================================================================
