---------------------------- MODULE RemoteReceiver ----------------------------
(***************************************************************************)
(* The way of a remote command: from the radio, whose packet interrupt     *)
(* raises a flag and wakes Recv_Remote_Task, through the validation of the *)
(* packet, a command allocated on the heap and a queue of pointers, to     *)
(* Programs_Task, which applies the command and frees it.                  *)
(*                                                                         *)
(* Recv_Remote_Task has the highest priority: Programs_Task runs only      *)
(* while it waits, for the next packet or for the debug output.  What      *)
(* Programs_Task does for the render/output cycle is one state here.       *)
(*                                                                         *)
(* A packet is what the checks on it can tell: whether leader, trailer and *)
(* checksum are right, its counter, whether its type is one of ours, its   *)
(* command code and the data byte of that command.                         *)
(*                                                                         *)
(* Of the debug output (DbgPrint) it matters whether the task has to wait, *)
(* and whether a packet has ended such a wait: from then on its mutex, its *)
(* requests and its semaphore need not be right any more.                  *)
(***************************************************************************)
EXTENDS Naturals, Sequences, FiniteSets

CONSTANTS
    Counts,         \* values of the packet counter
    Keys,           \* what is pressed: pairs of a command code and a data byte
    Cells,          \* heap blocks of the size of a tRemoteCmd
    QUEUE_LENGTH,   \* 8 in Taskhost_Start
    Garbage         \* a buffer that fails a check of its form

Codes == {"color", "white", "mode", "speed", "power"}
Packets == [count : Counts, ours : BOOLEAN, key : Keys]

ASSUME PacketAssumption ==
    /\ 0 \in Counts
    /\ Keys \subseteq Codes \X (0..255)
    /\ Garbage \notin Packets

ASSUME CapacityAssumption ==
    /\ QUEUE_LENGTH \in Nat \ {0}
    /\ IsFiniteSet(Cells)
    /\ Cardinality(Cells) > QUEUE_LENGTH

VARIABLES
    listening,      \* the radio's receiver is enabled
    fifo,           \* the packet in the radio's FIFO, or Garbage
    remoteDataAvailable,
    remPc,          \* where Recv_Remote_Task is
    remoteCmdBuffer,
    lastCount,
    newRemoteCmd,   \* Recv_Remote_Task's pointer
    fresh,          \* the last LT89XX_Read stored the packet it was called for
    queue,          \* the remote command queue
    heap,           \* what is in the blocks, also in the free ones
    allocated,
    prgPc,          \* where Programs_Task is
    prgCmd,         \* its newRemoteCmd
    currentPrg,     \* the program shown, which the commands change
    debugOutput     \* "sound", or what became of it when a wait for it was aborted

radioVars == <<listening, fifo>>
remVars == <<remPc, remoteCmdBuffer, lastCount, newRemoteCmd, fresh>>
heapVars == <<heap, allocated>>
prgVars == <<prgPc, prgCmd, currentPrg>>
vars == <<radioVars, remoteDataAvailable, remVars, queue, heapVars, prgVars, debugOutput>>

-----------------------------------------------------------------------------
(* Commands and what they do.                                              *)

Commands == [cmdCode : {"CMD_OFF", "CMD_ON", "CMD_STATIC_COLOR", "CMD_DYNAMIC_PROG",
                        "CMD_SPEED"},
             value : 0..255]

PresetSpeed == <<64, 20, 35, 25, 20>>
PRESET_PROG_COUNT == Len(PresetSpeed)
ConstColor == 256       \* the colour constColorProgram starts with

Programs == [preset : 0..PRESET_PROG_COUNT, speed : 0..255, off : BOOLEAN, color : 0..ConstColor]
StaticProgram == PRESET_PROG_COUNT

FirstProgram == [preset |-> 0, speed |-> PresetSpeed[1], off |-> FALSE, color |-> ConstColor]

\* The white key has a branch of its own, which does nothing.
HasCommand(key) == key[1] # "white"

Limited(n) == IF n > 10 THEN 10 ELSE n

\* Faulty variant of SpeedOf: the speed is wider than a byte.
WideSpeedOf(n) == n * 6

\* A speed is a byte, so it wraps.
SpeedOf(n) == (n * 6) % 256

\* The command made from a packet.
CommandOf(key) ==
    [cmdCode |->
        IF key[1] = "color" THEN "CMD_STATIC_COLOR"
        ELSE IF key[1] = "mode" THEN "CMD_DYNAMIC_PROG"
        ELSE IF key[1] = "speed" THEN "CMD_SPEED"
        ELSE IF key[2] = 0 THEN "CMD_OFF" ELSE "CMD_ON",
     value |->
        IF key[1] = "color" THEN key[2]
        ELSE IF key[1] = "mode" THEN Limited(key[2])
        ELSE IF key[1] = "speed" THEN SpeedOf(key[2]) ELSE 0]

\* The colour of the static program is kept in the list that all uses of it
\* share; choosing a program, static or preset, also switches the light on.
Applied(prg, cmd) ==
    IF cmd.cmdCode = "CMD_OFF" THEN [prg EXCEPT !.off = TRUE]
    ELSE IF cmd.cmdCode = "CMD_ON" THEN [prg EXCEPT !.off = FALSE]
    ELSE IF cmd.cmdCode = "CMD_SPEED" THEN [prg EXCEPT !.speed = cmd.value]
    ELSE IF cmd.cmdCode = "CMD_STATIC_COLOR"
    THEN [preset |-> StaticProgram, speed |-> 0, off |-> FALSE, color |-> cmd.value]
    ELSE LET n == cmd.value % PRESET_PROG_COUNT
         IN  [preset |-> n, speed |-> PresetSpeed[n + 1], off |-> FALSE, color |-> prg.color]

-----------------------------------------------------------------------------
\* After _RemoteSetup.  The stack the buffer lies on holds no packet.
Init ==
    /\ listening = TRUE
    /\ fifo = Garbage
    /\ remoteDataAvailable = 0
    /\ remPc = "delay"
    /\ remoteCmdBuffer = Garbage
    /\ lastCount = 0
    /\ newRemoteCmd \in Cells
    /\ fresh = FALSE
    /\ queue = << >>
    /\ heap \in [Cells -> {CommandOf(<<"power", 0>>)}]
    /\ allocated = {}
    /\ prgPc = "receive"
    /\ prgCmd \in Cells
    /\ currentPrg = FirstProgram
    /\ debugOutput = "sound"

RemBlocked == remPc \in {"delaying", "printing", "logging"}

RemGoes(from, to) ==
    /\ remPc = from
    /\ remPc' = to

\* Programs_Task runs only while Recv_Remote_Task waits.
PrgGoes(from, to) ==
    /\ RemBlocked
    /\ prgPc = from
    /\ prgPc' = to

\* _IsMessageValid: form and counter.
MessageOk == remoteCmdBuffer # Garbage /\ remoteCmdBuffer.count # lastCount

-----------------------------------------------------------------------------
(* Faulty variants of operations below: bugs that could be made here, each *)
(* of which some property has to notice.  No specification uses them.      *)

\* DelayEnds with vTaskSuspend: only the interrupt ends the wait.
SuspendNeverEnds == remPc = "suspended" /\ UNCHANGED vars

\* RemRestart without LT89XX_StartListening.
RemNoRestart ==
    /\ RemGoes("restart", "delay")
    /\ UNCHANGED <<radioVars, remoteDataAvailable, remoteCmdBuffer, lastCount,
                   newRemoteCmd, fresh, queue, heapVars, prgVars, debugOutput>>

\* RemValidate without the assignment to lastCount.
RemValidateForgets ==
    /\ RemGoes("validate", IF MessageOk THEN "print" ELSE "delay")
    /\ UNCHANGED <<radioVars, remoteDataAvailable, remoteCmdBuffer, lastCount,
                   newRemoteCmd, fresh, queue, heapVars, prgVars, debugOutput>>

\* RemMatch without uxQueueSpacesAvailable.
RemMatchOnly ==
    /\ RemGoes("match", IF remoteCmdBuffer.ours /\ HasCommand(remoteCmdBuffer.key)
                        THEN "build" ELSE "delay")
    /\ UNCHANGED <<radioVars, remoteDataAvailable, remoteCmdBuffer, lastCount,
                   newRemoteCmd, fresh, queue, heapVars, prgVars, debugOutput>>

\* RemSend with xQueueSendToFront.
RemSendToFront ==
    /\ remPc = "send"
    /\ Len(queue) < QUEUE_LENGTH
    /\ queue' = <<newRemoteCmd>> \o queue
    /\ prgPc' = IF prgPc = "receiving" THEN "receive" ELSE prgPc
    /\ remPc' = "delay"
    /\ UNCHANGED <<radioVars, remoteDataAvailable, remoteCmdBuffer, lastCount,
                   newRemoteCmd, fresh, heapVars, prgCmd, currentPrg, debugOutput>>

\* PrgFree forgotten.
PrgNeverFrees ==
    /\ PrgGoes("free", "cycle")
    /\ UNCHANGED <<radioVars, remoteDataAvailable, remVars, queue, heapVars, prgCmd,
                   currentPrg, debugOutput>>

\* PrgFree with a heap that wipes the blocks it gets back.
PrgFreeWipes ==
    /\ PrgGoes("free", "cycle")
    /\ allocated' = allocated \ {prgCmd}
    /\ heap' = [heap EXCEPT ![prgCmd] = [cmdCode |-> "CMD_OFF", value |-> 0]]
    /\ UNCHANGED <<radioVars, remoteDataAvailable, remVars, queue, prgCmd, currentPrg,
                   debugOutput>>

\* PrgCycle with a break where the code has continue.
PrgLeavesLoop ==
    /\ RemBlocked
    /\ prgPc = "cycle"
    /\ prgPc' \in {"receive", "left"}
    /\ UNCHANGED <<radioVars, remoteDataAvailable, remVars, queue, heapVars, prgCmd,
                   currentPrg, debugOutput>>

-----------------------------------------------------------------------------
(* The radio and its interrupt.                                            *)

\* A packet is received.  Its interrupt sets the flag and aborts whatever wait
\* Recv_Remote_Task is in; if it is in none, xTaskAbortDelay does nothing.  A
\* wait for the debug output that is aborted is taken for one that succeeded: the
\* task prints on, without the mutex or the space, and may come to wait again.
PacketReceived(p) ==
    /\ listening
    /\ fifo' = p
    /\ listening' = FALSE
    /\ remoteDataAvailable' = 1
    /\ remPc' = IF remPc = "delaying" THEN "test" ELSE remPc
    /\ debugOutput' = IF remPc \in {"printing", "logging"} THEN "aborted" ELSE debugOutput
    /\ UNCHANGED <<remoteCmdBuffer, lastCount, newRemoteCmd, fresh, queue, heapVars,
                   prgVars>>

\* The receiver drops out without a packet.
RadioStalls ==
    /\ listening
    /\ listening' = FALSE
    /\ UNCHANGED <<fifo, remoteDataAvailable, remVars, queue, heapVars, prgVars,
                   debugOutput>>

-----------------------------------------------------------------------------
(* Recv_Remote_Task.                                                       *)

RemDelay ==
    /\ RemGoes("delay", "delaying")
    /\ UNCHANGED <<radioVars, remoteDataAvailable, remoteCmdBuffer, lastCount,
                   newRemoteCmd, fresh, queue, heapVars, prgVars, debugOutput>>

\* The 5000 ms are over.
DelayEnds ==
    /\ RemGoes("delaying", "test")
    /\ UNCHANGED <<radioVars, remoteDataAvailable, remoteCmdBuffer, lastCount,
                   newRemoteCmd, fresh, queue, heapVars, prgVars, debugOutput>>

RemTestFlag ==
    /\ RemGoes("test", IF remoteDataAvailable = 1 THEN "clear" ELSE "restart")
    /\ UNCHANGED <<radioVars, remoteDataAvailable, remoteCmdBuffer, lastCount,
                   newRemoteCmd, fresh, queue, heapVars, prgVars, debugOutput>>

RemClearFlag ==
    /\ RemGoes("clear", "read")
    /\ remoteDataAvailable' = 0
    /\ UNCHANGED <<radioVars, remoteCmdBuffer, lastCount, newRemoteCmd, fresh, queue,
                   heapVars, prgVars, debugOutput>>

\* LT89XX_Read.  A CRC error, and a length beyond the buffer, leave buffer and
\* length as they were; an empty FIFO gives that or garbage.
RemRead ==
    /\ RemGoes("read", "relisten")
    /\ \/ /\ remoteCmdBuffer' = fifo
          /\ fresh' = (fifo # Garbage)
       \/ /\ remoteCmdBuffer' = remoteCmdBuffer
          /\ fresh' = FALSE
    /\ UNCHANGED <<radioVars, remoteDataAvailable, lastCount, newRemoteCmd, queue,
                   heapVars, prgVars, debugOutput>>

\* LT89XX_StartListening: the FIFO is cleared and the receiver enabled.
StartListening ==
    /\ fifo' = Garbage
    /\ listening' = TRUE

RemRelisten ==
    /\ RemGoes("relisten", "validate")
    /\ StartListening
    /\ UNCHANGED <<remoteDataAvailable, remoteCmdBuffer, lastCount, newRemoteCmd, fresh,
                   queue, heapVars, prgVars, debugOutput>>

\* "restart listener", when the delay ended without the flag.
RemRestart ==
    /\ RemGoes("restart", "delay")
    /\ StartListening
    /\ UNCHANGED <<remoteDataAvailable, remoteCmdBuffer, lastCount, newRemoteCmd, fresh,
                   queue, heapVars, prgVars, debugOutput>>

\* _IsMessageValid.
RemValidate ==
    /\ RemGoes("validate", IF MessageOk THEN "print" ELSE "delay")
    /\ lastCount' = IF MessageOk THEN remoteCmdBuffer.count ELSE lastCount
    /\ UNCHANGED <<radioVars, remoteDataAvailable, remoteCmdBuffer, newRemoteCmd, fresh,
                   queue, heapVars, prgVars, debugOutput>>

\* _PrintReceivedCmd, which may have to wait for the debug output.
RemPrint ==
    /\ remPc = "print"
    /\ remPc' \in {"printing", "match"}
    /\ UNCHANGED <<radioVars, remoteDataAvailable, remoteCmdBuffer, lastCount,
                   newRemoteCmd, fresh, queue, heapVars, prgVars, debugOutput>>

\* The message is printed.
PrintEnds ==
    /\ RemGoes("printing", "match") \/ RemGoes("logging", "log")
    /\ debugOutput' = IF debugOutput = "aborted" THEN "unsound" ELSE debugOutput
    /\ UNCHANGED <<radioVars, remoteDataAvailable, remoteCmdBuffer, lastCount, newRemoteCmd,
                   fresh, queue, heapVars, prgVars>>

\* It was printed without the mutex, which another task still holds when it is
\* given: a failed assertion of the kernel switches the interrupts off for good.
PrintFails ==
    /\ remPc \in {"printing", "logging"}
    /\ debugOutput = "aborted"
    /\ debugOutput' = "halted"
    /\ UNCHANGED <<radioVars, remoteDataAvailable, remVars, queue, heapVars, prgVars>>

\* _MatchAddress and uxQueueSpacesAvailable.  A command dropped here is not
\* taken from a repetition of the packet either: lastCount is set already.
RemMatch ==
    /\ RemGoes("match",
               IF /\ remoteCmdBuffer.ours
                  /\ Len(queue) < QUEUE_LENGTH
                  /\ HasCommand(remoteCmdBuffer.key)
               THEN "build" ELSE "delay")
    /\ UNCHANGED <<radioVars, remoteDataAvailable, remoteCmdBuffer, lastCount,
                   newRemoteCmd, fresh, queue, heapVars, prgVars, debugOutput>>

\* pvPortMalloc, whose result is not looked at, and the assignments.
RemBuild ==
    /\ RemGoes("build", "send")
    /\ \E cell \in Cells \ allocated :
        /\ newRemoteCmd' = cell
        /\ allocated' = allocated \cup {cell}
        /\ heap' = [heap EXCEPT ![cell] = CommandOf(remoteCmdBuffer.key)]
    /\ UNCHANGED <<radioVars, remoteDataAvailable, remoteCmdBuffer, lastCount, fresh,
                   queue, prgVars, debugOutput>>

\* xQueueSend without waiting, whose result is not looked at; it wakes a waiting
\* Programs_Task.  Speed and power commands write to the debug log afterwards.
RemSend ==
    /\ remPc = "send"
    /\ IF Len(queue) < QUEUE_LENGTH
       THEN /\ queue' = Append(queue, newRemoteCmd)
            /\ prgPc' = IF prgPc = "receiving" THEN "receive" ELSE prgPc
       ELSE UNCHANGED <<queue, prgPc>>
    /\ remPc' \in IF remoteCmdBuffer.key[1] \in {"speed", "power"}
                  THEN {"logging", "log"} ELSE {"delay"}
    /\ UNCHANGED <<radioVars, remoteDataAvailable, remoteCmdBuffer, lastCount,
                   newRemoteCmd, fresh, heapVars, prgCmd, currentPrg, debugOutput>>

\* DBG_INFO has written its prefix and now evaluates newRemoteCmd->speed: the
\* command is read through the pointer that was given away.
RemLog ==
    /\ RemGoes("log", "delay")
    /\ UNCHANGED <<radioVars, remoteDataAvailable, remoteCmdBuffer, lastCount,
                   newRemoteCmd, fresh, queue, heapVars, prgVars, debugOutput>>

RemTask ==
    \/ RemDelay \/ RemTestFlag \/ RemClearFlag \/ RemRead \/ RemRelisten \/ RemRestart
    \/ RemValidate \/ RemPrint \/ RemMatch \/ RemBuild \/ RemSend \/ RemLog

-----------------------------------------------------------------------------
(* Programs_Task.                                                          *)

\* xQueueReceive: the first command, or a wait for one.
PrgReceive ==
    /\ IF queue = << >>
       THEN PrgGoes("receive", "receiving") /\ UNCHANGED <<queue, prgCmd>>
       ELSE /\ PrgGoes("receive", "apply")
            /\ prgCmd' = Head(queue)
            /\ queue' = Tail(queue)
    /\ UNCHANGED <<radioVars, remoteDataAvailable, remVars, heapVars, currentPrg,
                   debugOutput>>

\* The 10 ticks of the queue wait have passed.
QueueTimeout ==
    /\ prgPc = "receiving"
    /\ prgPc' = "cycle"
    /\ UNCHANGED <<radioVars, remoteDataAvailable, remVars, queue, heapVars, prgCmd,
                   currentPrg, debugOutput>>

PrgApply ==
    /\ PrgGoes("apply", "free")
    /\ currentPrg' = Applied(currentPrg, heap[prgCmd])
    /\ UNCHANGED <<radioVars, remoteDataAvailable, remVars, queue, heapVars, prgCmd,
                   debugOutput>>

\* vPortFree leaves the content of the block alone.
PrgFree ==
    /\ PrgGoes("free", "cycle")
    /\ allocated' = allocated \ {prgCmd}
    /\ UNCHANGED <<radioVars, remoteDataAvailable, remVars, queue, heap, prgCmd,
                   currentPrg, debugOutput>>

\* Waiting for the buffer and rendering, up to the next xQueueReceive.
PrgCycle ==
    /\ PrgGoes("cycle", "receive")
    /\ UNCHANGED <<radioVars, remoteDataAvailable, remVars, queue, heapVars, prgCmd,
                   currentPrg, debugOutput>>

PrgTask == PrgReceive \/ PrgApply \/ PrgFree \/ PrgCycle

-----------------------------------------------------------------------------
Next ==
    /\ debugOutput # "halted"
    /\ \/ \E p \in Packets \cup {Garbage} : PacketReceived(p)
       \/ RadioStalls \/ DelayEnds \/ PrintEnds \/ PrintFails \/ QueueTimeout
       \/ RemTask \/ PrgTask

Spec == Init /\ [][Next]_vars

Sound == debugOutput = "sound"

\* Recv_Remote_Task, with the highest priority, always goes on, and its waits
\* end.  Programs_Task gets the processor again and again, between two packets.
\* Nothing is assumed once a wait for the debug output has been aborted: with two
\* tasks in the ring buffer, or a semaphore left over, a request for space may
\* never be answered and a task keep the mutex for ever.
Fairness ==
    /\ WF_vars(Sound /\ RemTask)
    /\ WF_vars(Sound /\ DelayEnds)
    /\ WF_vars(Sound /\ PrintEnds)
    /\ WF_vars(Sound /\ QueueTimeout)
    /\ SF_vars(Sound /\ PrgTask)

FairSpec == Spec /\ Fairness

-----------------------------------------------------------------------------
(* Properties.                                                             *)

\* Every variable keeps its type.
TypeOK ==
    /\ listening \in BOOLEAN
    /\ fifo \in Packets \cup {Garbage}
    /\ remoteDataAvailable \in {0, 1}
    /\ remPc \in {"delay", "delaying", "test", "clear", "read", "relisten", "restart",
                  "validate", "print", "printing", "match", "build", "send", "logging",
                  "log"}
    /\ remoteCmdBuffer \in Packets \cup {Garbage}
    /\ lastCount \in Counts
    /\ newRemoteCmd \in Cells
    /\ fresh \in BOOLEAN
    /\ queue \in Seq(Cells)
    /\ heap \in [Cells -> Commands]
    /\ allocated \in SUBSET Cells
    /\ prgPc \in {"receive", "receiving", "apply", "free", "cycle"}
    /\ prgCmd \in Cells
    /\ currentPrg \in Programs
    /\ debugOutput \in {"sound", "aborted", "unsound", "halted"}

InQueue == {queue[i] : i \in 1..Len(queue)}
SenderHolds == IF remPc = "send" THEN {newRemoteCmd} ELSE {}
ConsumerHolds == IF prgPc \in {"apply", "free"} THEN {prgCmd} ELSE {}

\* Every allocated command has one owner, the sender, the queue or the consumer,
\* and stands in the queue once; a command without an owner is free.  So none
\* leaks, none is freed twice, none is reused while it is still to be applied.
OneOwner ==
    /\ allocated = InQueue \cup SenderHolds \cup ConsumerHolds
    /\ InQueue \cap SenderHolds = {}
    /\ InQueue \cap ConsumerHolds = {}
    /\ SenderHolds \cap ConsumerHolds = {}
    /\ \A i, j \in 1..Len(queue) : queue[i] = queue[j] => i = j

\* The results of pvPortMalloc and xQueueSend are not looked at, and need not
\* be: QUEUE_LENGTH + 1 blocks suffice, and the queue still has the space that
\* was seen before the command was built.
RoomForCommand ==
    /\ remPc = "build" => allocated # Cells
    /\ remPc = "send" => Len(queue) < QUEUE_LENGTH

\* A read that fails, or finds no packet because the listener was restarted
\* after the flag was raised, leaves the previous message in the buffer.  That
\* message is never acted upon again.
OnlyFreshMessages == remPc \in {"print", "printing", "match", "build", "send"} => fresh

\* When the log message about a speed is made, the command may be applied and
\* freed already, but its block still holds what was sent.
LogShowsWhatWasSent ==
    remPc \in {"logging", "log"} => heap[newRemoteCmd] = CommandOf(remoteCmdBuffer.key)

\* Whatever the radio does, it is listening again and again, as long as no packet
\* comes while the task waits for the debug output.
ListensForever == []<>(listening \/ ~Sound)

\* An announced packet is read in the end, even if its wake-up came too early,
\* unless it or a later one comes during such a wait.
PacketsAreRead == (remoteDataAvailable = 1) ~> (remPc = "read" \/ ~Sound)

-----------------------------------------------------------------------------
(* The way of the commands implements what the remote control promises.    *)

PendingCells == (IF prgPc = "apply" THEN <<prgCmd>> ELSE << >>) \o queue
PendingCommands == [i \in 1..Len(PendingCells) |-> heap[PendingCells[i]]]

SentCommands == {CommandOf(key) : key \in {k \in Keys : HasCommand(k)}}

Light == INSTANCE LightCommands
    WITH Commands <- SentCommands, FirstLight <- FirstProgram, Effect <- Applied,
         Capacity <- QUEUE_LENGTH + 1,
         light <- currentPrg, pending <- PendingCommands, troubled <- ~Sound

\* Commands take effect once, in the order they were accepted, unchanged by
\* the reuse of heap blocks.
ImplementsCommands == Light!LightSafety

\* And every accepted command takes effect in the end, unless a packet comes
\* while the task waits for the debug output.
ImplementsFairCommands == Light!LightSpec
=============================================================================
