------------------------ MODULE RemoteReceiver_proofs ------------------------
(***************************************************************************)
(* Proofs about the way of a remote command, for every set of keys and     *)
(* counter values, every length of the queue and every heap that holds one *)
(* command more than the queue.                                            *)
(***************************************************************************)
EXTENDS RemoteReceiver, FiniteSetTheorems, SequenceTheorems, TLAPS

-----------------------------------------------------------------------------
(* Types.                                                                  *)

LEMMA CommandType == ASSUME NEW key \in Keys PROVE CommandOf(key) \in Commands
<1>1. key[2] \in 0..255
  BY PacketAssumption
<1>2. Limited(key[2]) \in 0..255
  BY <1>1 DEF Limited
<1>3. SpeedOf(key[2]) \in 0..255
  BY <1>1 DEF SpeedOf
<1>4. QED
  BY <1>1, <1>2, <1>3 DEF CommandOf, Commands

LEMMA PresetType ==
    /\ PRESET_PROG_COUNT = 5
    /\ \A n \in 0..4 : PresetSpeed[n + 1] \in 0..255
  BY DEF PRESET_PROG_COUNT, PresetSpeed

LEMMA AppliedType ==
    ASSUME NEW prg \in Programs, NEW cmd \in Commands
    PROVE  Applied(prg, cmd) \in Programs
<1>1. cmd.value \in 0..255
  BY DEF Commands
<1>2. cmd.value % 5 \in 0..4
  BY <1>1
<1>3. PresetSpeed[(cmd.value % 5) + 1] \in 0..255
  BY <1>2, PresetType
<1>4. ConstColor = 256
  BY DEF ConstColor
<1>5. CASE cmd.cmdCode \in {"CMD_OFF", "CMD_ON", "CMD_SPEED"}
  BY <1>1, <1>5, ZenonT(60) DEF Applied, Programs
<1>6. CASE cmd.cmdCode = "CMD_STATIC_COLOR"
  BY <1>1, <1>4, <1>6, PresetType DEF Applied, Programs, StaticProgram
<1>7. CASE cmd.cmdCode = "CMD_DYNAMIC_PROG"
  BY <1>2, <1>3, <1>7, PresetType, SMTT(60) DEF Applied, Programs
<1>8. QED
  BY <1>5, <1>6, <1>7 DEF Commands

\* Where the task is, its pointers and the buffer; what is to be sent comes
\* from a packet with a command.
TypeInv ==
    /\ TypeOK
    /\ remPc \in {"print", "printing", "match", "build", "send", "logging", "log"}
        => remoteCmdBuffer \in Packets

LEMMA TypeInit == Init => TypeInv
<1> SUFFICES ASSUME Init PROVE TypeInv
  OBVIOUS
<1>1. CommandOf(<<"power", 0>>) \in Commands
  BY DEF CommandOf, Commands
<1>2. FirstProgram \in Programs
  BY DEF FirstProgram, Programs, PRESET_PROG_COUNT, PresetSpeed, ConstColor
<1>3. 0 \in Counts
  BY PacketAssumption
<1>4. heap \in [Cells -> Commands]
  BY <1>1 DEF Init
<1>5. queue \in Seq(Cells)
  BY DEF Init
<1>6. QED
  BY <1>2, <1>3, <1>4, <1>5 DEF Init, TypeInv, TypeOK

LEMMA TypeStep == TypeInv /\ [Next]_vars => TypeInv'
<1> SUFFICES ASSUME TypeInv, [Next]_vars PROVE TypeInv'
  OBVIOUS
<1> USE DEF TypeInv, TypeOK, radioVars, remVars, heapVars, prgVars, RemGoes, PrgGoes
<1>1. ASSUME NEW p \in Packets \cup {Garbage}, PacketReceived(p) PROVE TypeInv'
  BY <1>1 DEF PacketReceived, RemBlocked
<1>2. CASE RadioStalls \/ DelayEnds \/ QueueTimeout
  BY <1>2, ZenonT(60) DEF RadioStalls, DelayEnds, QueueTimeout
<1>3. CASE PrintEnds \/ PrintFails
  BY <1>3 DEF PrintEnds, PrintFails
<1>4. CASE RemTask
  <2>1. CASE RemDelay \/ RemTestFlag \/ RemClearFlag
    BY <2>1 DEF RemDelay, RemTestFlag, RemClearFlag
  <2>2. CASE RemRead
    BY <2>2 DEF RemRead
  <2>3. CASE RemRelisten \/ RemRestart
    BY <2>3 DEF RemRelisten, RemRestart, StartListening
  <2>4. CASE RemValidate
    BY <2>4 DEF RemValidate, MessageOk, Packets
  <2>5. CASE RemPrint \/ RemMatch \/ RemLog
    BY <2>5 DEF RemPrint, RemMatch, RemLog
  <2>6. CASE RemBuild
    <3>1. CommandOf(remoteCmdBuffer.key) \in Commands
      BY <2>6, CommandType DEF RemBuild, Packets
    <3>2. QED
      BY <2>6, <3>1 DEF RemBuild
  <2>7. CASE RemSend
    BY <2>7 DEF RemSend
  <2>8. QED
    BY <1>4, <2>1, <2>2, <2>3, <2>4, <2>5, <2>6, <2>7 DEF RemTask
<1>5. CASE PrgTask
  <2>1. CASE PrgReceive
    BY <2>1 DEF PrgReceive
  <2>2. CASE PrgApply
    BY <2>2, AppliedType DEF PrgApply
  <2>3. CASE PrgFree \/ PrgCycle
    BY <2>3 DEF PrgFree, PrgCycle
  <2>4. QED
    BY <1>5, <2>1, <2>2, <2>3 DEF PrgTask
<1>6. CASE UNCHANGED vars
  BY <1>6 DEF vars
<1>7. QED
  BY <1>1, <1>2, <1>3, <1>4, <1>5, <1>6 DEF Next

\* Every variable keeps its type, whatever packets arrive.
THEOREM TypeCorrect == Spec => []TypeOK
<1>1. TypeInv => TypeOK
  BY DEF TypeInv
<1>2. QED
  BY TypeInit, TypeStep, <1>1, PTL DEF Spec

-----------------------------------------------------------------------------
(* Failed reads.  Once a message was judged, the buffer holds a message     *)
(* with the counter value that was judged last; a failed read keeps it.     *)

FreshInv ==
    /\ remPc \in {"print", "printing", "match", "build", "send"} => fresh
    /\ \/ remPc \in {"relisten", "validate"} /\ fresh
       \/ remoteCmdBuffer = Garbage
       \/ remoteCmdBuffer.count = lastCount

LEMMA FreshStep == TypeInv /\ FreshInv /\ [Next]_vars => FreshInv'
<1> SUFFICES ASSUME TypeInv, FreshInv, [Next]_vars PROVE FreshInv'
  OBVIOUS
<1>1. fresh \in BOOLEAN
  BY DEF TypeInv, TypeOK
<1> USE DEF FreshInv, radioVars, remVars, RemGoes
<1>2. ASSUME NEW p \in Packets \cup {Garbage}, PacketReceived(p) PROVE FreshInv'
  BY <1>2 DEF PacketReceived, RemBlocked
<1>3. CASE RadioStalls \/ DelayEnds \/ QueueTimeout
  BY <1>3 DEF RadioStalls, DelayEnds, QueueTimeout
<1>4. CASE PrintEnds \/ PrintFails
  BY <1>4 DEF PrintEnds, PrintFails
<1>5. CASE RemDelay \/ RemTestFlag \/ RemClearFlag
  BY <1>5 DEF RemDelay, RemTestFlag, RemClearFlag
<1>6. CASE RemRead
  <2>1. CASE fresh'
    BY <1>6, <2>1 DEF RemRead
  <2>2. CASE ~fresh'
    BY <1>1, <1>6, <2>2 DEF RemRead
  <2>3. QED
    BY <2>1, <2>2
<1>7. CASE RemRelisten \/ RemRestart
  BY <1>7 DEF RemRelisten, RemRestart
<1>8. CASE RemValidate
  BY <1>8 DEF RemValidate, MessageOk
<1>9. CASE RemPrint \/ RemMatch \/ RemBuild \/ RemSend \/ RemLog
  BY <1>9 DEF RemPrint, RemMatch, RemBuild, RemSend, RemLog
<1>10. CASE PrgTask
  BY <1>10 DEF PrgTask, PrgReceive, PrgApply, PrgFree, PrgCycle
<1>11. CASE UNCHANGED vars
  BY <1>11 DEF vars
<1>12. QED
  BY <1>2, <1>3, <1>4, <1>5, <1>6, <1>7, <1>8, <1>9, <1>10, <1>11 DEF Next, RemTask

\* A read that fails leaves the previous message in the buffer; it is never
\* acted upon again, because its counter value is the last one judged.
THEOREM FailedReadsHarmless == Spec => []OnlyFreshMessages
<1>1. Init => FreshInv
  BY DEF Init, FreshInv
<1>2. FreshInv => OnlyFreshMessages
  BY DEF FreshInv, OnlyFreshMessages
<1>3. QED
  BY TypeInit, TypeStep, FreshStep, <1>1, <1>2, PTL DEF Spec

-----------------------------------------------------------------------------
(* The command that was sent is still in its block when it is logged: no    *)
(* other block is filled before the task builds its next command.           *)

LogInv ==
    remPc \in {"send", "logging", "log"} => heap[newRemoteCmd] = CommandOf(remoteCmdBuffer.key)

LEMMA LogStep == TypeInv /\ LogInv /\ [Next]_vars => LogInv'
<1> SUFFICES ASSUME TypeInv, LogInv, [Next]_vars PROVE LogInv'
  OBVIOUS
<1> USE DEF LogInv, radioVars, remVars, heapVars, prgVars, RemGoes
<1>1. ASSUME NEW p \in Packets \cup {Garbage}, PacketReceived(p) PROVE LogInv'
  BY <1>1 DEF PacketReceived, RemBlocked
<1>2. CASE RadioStalls \/ DelayEnds \/ QueueTimeout
  BY <1>2 DEF RadioStalls, DelayEnds, QueueTimeout
<1>3. CASE PrintEnds \/ PrintFails
  BY <1>3 DEF PrintEnds, PrintFails
<1>4. CASE RemDelay \/ RemTestFlag \/ RemClearFlag \/ RemRead \/ RemRelisten \/ RemRestart
  BY <1>4 DEF RemDelay, RemTestFlag, RemClearFlag, RemRead, RemRelisten, RemRestart
<1>5. CASE RemValidate \/ RemPrint \/ RemMatch \/ RemLog
  BY <1>5 DEF RemValidate, RemPrint, RemMatch, RemLog
<1>6. CASE RemBuild
  BY <1>6 DEF RemBuild, TypeInv, TypeOK
<1>7. CASE RemSend
  BY <1>7 DEF RemSend
<1>8. CASE PrgTask
  BY <1>8 DEF PrgTask, PrgReceive, PrgApply, PrgFree, PrgCycle
<1>9. CASE UNCHANGED vars
  BY <1>9 DEF vars
<1>10. QED
  BY <1>1, <1>2, <1>3, <1>4, <1>5, <1>6, <1>7, <1>8, <1>9 DEF Next, RemTask

\* The speed in the log is the one that was sent, although the command was
\* given away and may be free already.
THEOREM LogTruthful == Spec => []LogShowsWhatWasSent
<1>1. Init => LogInv
  BY DEF Init, LogInv
<1>2. LogInv => LogShowsWhatWasSent
  BY DEF LogInv, LogShowsWhatWasSent
<1>3. QED
  BY TypeInit, TypeStep, LogStep, <1>1, <1>2, PTL DEF Spec

-----------------------------------------------------------------------------
(* Owners.  What stands in a queue, when a block is put in or taken out.    *)

Standing(q) == {q[i] : i \in 1..Len(q)}
NoneTwice(q) == \A i, j \in 1..Len(q) : q[i] = q[j] => i = j

LEMMA PutIn ==
    ASSUME NEW q \in Seq(Cells), NEW cell \in Cells
    PROVE  /\ Append(q, cell) \in Seq(Cells)
           /\ Len(Append(q, cell)) = Len(q) + 1
           /\ Standing(Append(q, cell)) = Standing(q) \cup {cell}
           /\ NoneTwice(q) /\ cell \notin Standing(q) => NoneTwice(Append(q, cell))
<1> DEFINE r == Append(q, cell)
<1>1. r \in Seq(Cells) /\ Len(r) = Len(q) + 1 /\ Len(q) \in Nat
  OBVIOUS
<1>2. r[Len(q) + 1] = cell /\ \A i \in 1..Len(q) : r[i] = q[i]
  OBVIOUS
<1>3. Standing(r) = Standing(q) \cup {cell}
  <2>1. \A x \in Standing(r) : x \in Standing(q) \cup {cell}
    BY <1>1, <1>2 DEF Standing
  <2>2. \A x \in Standing(q) : x \in Standing(r)
    BY <1>1, <1>2 DEF Standing
  <2>3. cell \in Standing(r)
    BY <1>1, <1>2 DEF Standing
  <2>4. QED
    BY <2>1, <2>2, <2>3
<1>4. ASSUME NoneTwice(q), cell \notin Standing(q) PROVE NoneTwice(r)
  BY <1>1, <1>2, <1>4 DEF NoneTwice, Standing
<1>5. QED
  BY <1>1, <1>3, <1>4

LEMMA TakenOut ==
    ASSUME NEW q \in Seq(Cells), q # << >>
    PROVE  /\ Head(q) \in Cells
           /\ Tail(q) \in Seq(Cells)
           /\ Len(Tail(q)) = Len(q) - 1
           /\ Standing(q) = Standing(Tail(q)) \cup {Head(q)}
           /\ NoneTwice(q) => NoneTwice(Tail(q)) /\ Head(q) \notin Standing(Tail(q))
<1> DEFINE r == Tail(q)
<1>1. r \in Seq(Cells) /\ Len(r) = Len(q) - 1 /\ Len(q) \in Nat \ {0}
  OBVIOUS
<1>2. Head(q) = q[1] /\ q[1] \in Cells /\ \A i \in 1..Len(r) : r[i] = q[i + 1]
  OBVIOUS
<1>3. Standing(q) = Standing(r) \cup {Head(q)}
  <2>1. ASSUME NEW i \in 1..Len(q) PROVE q[i] \in Standing(r) \cup {Head(q)}
    <3>1. CASE i = 1
      BY <1>2, <3>1
    <3>2. CASE i # 1
      <4>1. i - 1 \in 1..Len(r) /\ r[i - 1] = q[i]
        BY <1>1, <1>2, <3>2
      <4>2. QED
        BY <4>1 DEF Standing
    <3>3. QED
      BY <3>1, <3>2
  <2>2. ASSUME NEW i \in 1..Len(r) PROVE r[i] \in Standing(q)
    <3>1. i + 1 \in 1..Len(q) /\ r[i] = q[i + 1]
      BY <1>1, <1>2
    <3>2. QED
      BY <3>1 DEF Standing
  <2>3. Head(q) \in Standing(q)
    BY <1>1, <1>2 DEF Standing
  <2>4. QED
    BY <2>1, <2>2, <2>3 DEF Standing
<1>4. ASSUME NoneTwice(q) PROVE NoneTwice(r) /\ Head(q) \notin Standing(r)
  <2>1. ASSUME NEW i \in 1..Len(r) PROVE i + 1 \in 1..Len(q) /\ i + 1 # 1 /\ r[i] = q[i + 1]
    BY <1>1, <1>2
  <2>2. 1 \in 1..Len(q)
    BY <1>1
  <2>3. NoneTwice(r)
    BY <1>1, <1>2, <1>4, <2>1 DEF NoneTwice
  <2>4. Head(q) \notin Standing(r)
    BY <1>2, <1>4, <2>1, <2>2 DEF NoneTwice, Standing
  <2>5. QED
    BY <2>3, <2>4
<1>5. QED
  BY <1>1, <1>2, <1>3, <1>4

OwnInv ==
    /\ OneOwner
    /\ Len(queue) <= QUEUE_LENGTH
    /\ remPc \in {"build", "send"} => Len(queue) < QUEUE_LENGTH /\ HasCommand(remoteCmdBuffer.key)

LEMMA OneOwnerMeans ==
    OneOwner <=> /\ allocated = Standing(queue) \cup SenderHolds \cup ConsumerHolds
                 /\ Standing(queue) \cap SenderHolds = {}
                 /\ Standing(queue) \cap ConsumerHolds = {}
                 /\ SenderHolds \cap ConsumerHolds = {}
                 /\ NoneTwice(queue)
BY DEF OneOwner, InQueue, Standing, NoneTwice

LEMMA OwnInit == Init => OwnInv
BY CapacityAssumption
   DEF Init, OwnInv, OneOwner, InQueue, SenderHolds, ConsumerHolds

\* A step of another kind changes no owner.
LEMMA OwnersKept ==
    ASSUME OneOwner, UNCHANGED <<queue, allocated, SenderHolds, ConsumerHolds>>
    PROVE  OneOwner'
BY DEF OneOwner, InQueue

LEMMA OwnStep == TypeInv /\ OwnInv /\ [Next]_vars => OwnInv'
<1> SUFFICES ASSUME TypeInv, OwnInv, [Next]_vars PROVE OwnInv'
  OBVIOUS
<1> DEFINE Rest == /\ Len(queue) <= QUEUE_LENGTH
                   /\ remPc \in {"build", "send"}
                       => Len(queue) < QUEUE_LENGTH /\ HasCommand(remoteCmdBuffer.key)
<1>a. OneOwner /\ Rest
  BY DEF OwnInv
<1>b. queue \in Seq(Cells) /\ newRemoteCmd \in Cells /\ prgCmd \in Cells
  BY DEF TypeInv, TypeOK
<1>c. QUEUE_LENGTH \in Nat
  BY CapacityAssumption
<1> USE DEF radioVars, remVars, heapVars, prgVars, RemGoes, PrgGoes
<1>1. ASSUME NEW p \in Packets \cup {Garbage}, PacketReceived(p) PROVE OwnInv'
  <2>1. UNCHANGED <<queue, allocated, SenderHolds, ConsumerHolds>> /\ Rest'
    BY <1>a, <1>1 DEF PacketReceived, RemBlocked, SenderHolds, ConsumerHolds
  <2>2. QED
    BY <1>a, <2>1, OwnersKept DEF OwnInv
<1>2. CASE RadioStalls \/ DelayEnds \/ PrintEnds \/ PrintFails \/ QueueTimeout
  <2>1. UNCHANGED <<queue, allocated, SenderHolds, ConsumerHolds>> /\ Rest'
    BY <1>a, <1>2 DEF RadioStalls, DelayEnds, PrintEnds, PrintFails, QueueTimeout,
                      SenderHolds, ConsumerHolds
  <2>2. QED
    BY <1>a, <2>1, OwnersKept DEF OwnInv
<1>3. CASE RemDelay \/ RemTestFlag \/ RemClearFlag \/ RemRead \/ RemRelisten \/ RemRestart
  <2>1. UNCHANGED <<queue, allocated, SenderHolds, ConsumerHolds>> /\ Rest'
    BY <1>a, <1>3 DEF RemDelay, RemTestFlag, RemClearFlag, RemRead, RemRelisten, RemRestart,
                      SenderHolds, ConsumerHolds
  <2>2. QED
    BY <1>a, <2>1, OwnersKept DEF OwnInv
<1>4. CASE RemValidate \/ RemPrint \/ RemMatch \/ RemLog
  <2>1. UNCHANGED <<queue, allocated, SenderHolds, ConsumerHolds>> /\ Rest'
    BY <1>a, <1>4 DEF RemValidate, RemPrint, RemMatch, RemLog, SenderHolds, ConsumerHolds
  <2>2. QED
    BY <1>a, <2>1, OwnersKept DEF OwnInv
<1>5. CASE RemBuild
  <2>1. PICK cell \in Cells \ allocated :
          newRemoteCmd' = cell /\ allocated' = allocated \cup {cell}
    BY <1>5 DEF RemBuild
  <2>2. UNCHANGED <<queue, ConsumerHolds>> /\ SenderHolds = {} /\ SenderHolds' = {cell}
    BY <1>5, <2>1 DEF RemBuild, SenderHolds, ConsumerHolds
  <2>3. OneOwner'
    BY <1>a, <2>1, <2>2 DEF OneOwner, InQueue
  <2>4. Rest'
    BY <1>a, <1>5 DEF RemBuild
  <2>5. QED
    BY <2>3, <2>4 DEF OwnInv
<1>6. CASE RemSend
  <2>1. /\ queue' = Append(queue, newRemoteCmd)
        /\ remPc' \notin {"build", "send"}
        /\ UNCHANGED <<allocated, ConsumerHolds>>
    BY <1>a, <1>6 DEF RemSend, ConsumerHolds
  <2>2. SenderHolds = {newRemoteCmd} /\ SenderHolds' = {}
    BY <1>6, <2>1 DEF RemSend, SenderHolds
  <2>3. Rest'
    BY <1>a, <1>b, <1>c, <1>6, <2>1, PutIn DEF RemSend
  <2>4. newRemoteCmd \notin Standing(queue)
    BY <1>a, <2>2, OneOwnerMeans
  <2>5. NoneTwice(queue)' /\ Standing(queue)' = Standing(queue) \cup {newRemoteCmd}
    BY <1>a, <1>b, <2>1, <2>4, PutIn, OneOwnerMeans DEF Standing, NoneTwice
  <2>6. OneOwner'
    BY <1>a, <2>1, <2>2, <2>5, OneOwnerMeans DEF OneOwner, InQueue, Standing, NoneTwice
  <2>7. QED
    BY <2>3, <2>6 DEF OwnInv
<1>7. CASE PrgReceive
  <2>1. UNCHANGED <<allocated, SenderHolds, remPc, remoteCmdBuffer>> /\ ConsumerHolds = {}
    BY <1>7 DEF PrgReceive, SenderHolds, ConsumerHolds
  <2>2. CASE queue = << >>
    <3>1. UNCHANGED <<queue, ConsumerHolds>> /\ Rest'
      BY <1>a, <1>7, <2>1, <2>2 DEF PrgReceive, ConsumerHolds
    <3>2. QED
      BY <1>a, <2>1, <3>1, OwnersKept DEF OwnInv
  <2>3. CASE queue # << >>
    <3>1. queue' = Tail(queue) /\ ConsumerHolds' = {Head(queue)}
      BY <1>7, <2>3 DEF PrgReceive, ConsumerHolds
    <3>2. Rest'
      BY <1>a, <1>b, <1>c, <2>1, <2>3, <3>1, TakenOut
    <3>3. /\ NoneTwice(queue)' /\ Head(queue) \notin Standing(queue)'
          /\ Standing(queue) = Standing(queue)' \cup {Head(queue)}
      <4>1. NoneTwice(queue)
        BY <1>a, OneOwnerMeans
      <4>2. /\ NoneTwice(Tail(queue)) /\ Head(queue) \notin Standing(Tail(queue))
            /\ Standing(queue) = Standing(Tail(queue)) \cup {Head(queue)}
        BY <1>b, <2>3, <4>1, TakenOut
      <4>3. QED
        BY <3>1, <4>2, ZenonT(60) DEF Standing, NoneTwice
    <3>4. OneOwner'
      BY <1>a, <2>1, <3>1, <3>3, OneOwnerMeans, ZenonT(60) DEF OneOwner, InQueue, Standing, NoneTwice
    <3>5. QED
      BY <3>2, <3>4 DEF OwnInv
  <2>4. QED
    BY <2>2, <2>3
<1>8. CASE PrgApply
  <2>1. UNCHANGED <<queue, allocated, SenderHolds, ConsumerHolds>> /\ Rest'
    BY <1>a, <1>8 DEF PrgApply, SenderHolds, ConsumerHolds
  <2>2. QED
    BY <1>a, <2>1, OwnersKept DEF OwnInv
<1>9. CASE PrgFree
  <2>1. /\ UNCHANGED <<queue, SenderHolds>> /\ Rest'
        /\ ConsumerHolds = {prgCmd} /\ ConsumerHolds' = {}
        /\ allocated' = allocated \ {prgCmd}
    BY <1>a, <1>9 DEF PrgFree, SenderHolds, ConsumerHolds
  <2>2. OneOwner'
    BY <1>a, <2>1 DEF OneOwner, InQueue
  <2>3. QED
    BY <2>1, <2>2 DEF OwnInv
<1>10. CASE PrgCycle \/ UNCHANGED vars
  <2>1. UNCHANGED <<queue, allocated, SenderHolds, ConsumerHolds>> /\ Rest'
    BY <1>a, <1>10 DEF PrgCycle, vars, SenderHolds, ConsumerHolds
  <2>2. QED
    BY <1>a, <2>1, OwnersKept DEF OwnInv
<1>11. QED
  BY <1>1, <1>2, <1>3, <1>4, <1>5, <1>6, <1>7, <1>8, <1>9, <1>10 DEF Next, RemTask, PrgTask

\* No command leaks, is freed twice or is overwritten before it was applied.
THEOREM CommandsHaveOneOwner == Spec => []OneOwner
<1>1. OwnInv => OneOwner
  BY DEF OwnInv
<1>2. QED
  BY TypeInit, TypeStep, OwnInit, OwnStep, <1>1, PTL DEF Spec

-----------------------------------------------------------------------------
(* Room.  As long as the queue is not full, the queue and the consumer      *)
(* together hold at most QUEUE_LENGTH blocks.                               *)

LEMMA FewStand ==
    ASSUME NEW q \in Seq(Cells)
    PROVE  IsFiniteSet(Standing(q)) /\ Cardinality(Standing(q)) <= Len(q)
<1> DEFINE S == 1..Len(q)
           f == [i \in S |-> q[i]]
<1>1. Len(q) \in Nat
  OBVIOUS
<1>2. IsFiniteSet(S) /\ Cardinality(S) = Len(q)
  BY <1>1, FS_Interval, SMTT(40)
<1>3. f \in Surjection(S, Standing(q))
  BY DEF Surjection, Standing
<1>4. QED
  BY <1>2, <1>3, FS_Surjection

LEMMA RoomStep == TypeInv /\ OwnInv => RoomForCommand
<1> SUFFICES ASSUME TypeInv, OwnInv, remPc = "build" PROVE allocated # Cells
  BY DEF OwnInv, RoomForCommand
<1>1. queue \in Seq(Cells) /\ Len(queue) \in Nat /\ QUEUE_LENGTH \in Nat
  BY CapacityAssumption DEF TypeInv, TypeOK
<1>2. Len(queue) < QUEUE_LENGTH /\ SenderHolds = {}
  BY DEF OwnInv, SenderHolds
<1>3. allocated \subseteq Standing(queue) \cup {prgCmd}
  BY <1>2, OneOwnerMeans DEF OwnInv, ConsumerHolds
<1>4. IsFiniteSet(Standing(queue)) /\ Cardinality(Standing(queue)) <= Len(queue)
  BY <1>1, FewStand
<1>5. Cardinality(Standing(queue)) \in Nat
  BY <1>4, FS_CardinalityType
<1>6. /\ IsFiniteSet(Standing(queue) \cup {prgCmd})
      /\ Cardinality(Standing(queue) \cup {prgCmd}) <= Len(queue) + 1
  <2> DEFINE S == Standing(queue)
  <2> HIDE DEF S
  <2>1. /\ IsFiniteSet(S \cup {prgCmd})
        /\ Cardinality(S \cup {prgCmd}) = Cardinality(S)
           \/ Cardinality(S \cup {prgCmd}) = Cardinality(S) + 1
    BY <1>4, FS_AddElement DEF S
  <2>2. QED
    BY <1>1, <1>4, <1>5, <2>1 DEF S
<1>7. IsFiniteSet(allocated) /\ Cardinality(allocated) <= Len(queue) + 1
  <2>1. Cardinality(Standing(queue) \cup {prgCmd}) \in Nat
    BY <1>6, FS_CardinalityType
  <2>2. IsFiniteSet(allocated) /\ Cardinality(allocated) <= Cardinality(Standing(queue) \cup {prgCmd})
    BY <1>3, <1>6, FS_Subset
  <2>3. Cardinality(allocated) \in Nat
    BY <2>2, FS_CardinalityType
  <2>4. QED
    BY <1>1, <1>6, <2>1, <2>2, <2>3
<1>8. Cardinality(allocated) \in Nat /\ Cardinality(Cells) \in Nat
  BY <1>7, CapacityAssumption, FS_CardinalityType
<1>9. QED
  BY <1>1, <1>2, <1>7, <1>8, CapacityAssumption

\* pvPortMalloc finds a block and xQueueSend a place, whose results the task
\* does not look at.
THEOREM RoomIsThere == Spec => []RoomForCommand
BY TypeInit, TypeStep, OwnInit, OwnStep, RoomStep, PTL DEF Spec

-----------------------------------------------------------------------------
(* The refinement.  Pending is what is in the blocks of the queue, preceded *)
(* by what is in the block of the consumer until it was applied.            *)

\* The commands in a sequence of blocks.
CommandsIn(h, q) == [i \in 1..Len(q) |-> h[q[i]]]

LEMMA CommandsInType ==
    ASSUME NEW h \in [Cells -> Commands], NEW q \in Seq(Cells)
    PROVE  CommandsIn(h, q) \in Seq(Commands) /\ Len(CommandsIn(h, q)) = Len(q)
<1>1. Len(q) \in Nat /\ \A i \in 1..Len(q) : q[i] \in Cells
  OBVIOUS
<1>2. CommandsIn(h, q) \in [1..Len(q) -> Commands]
  BY <1>1 DEF CommandsIn
<1>3. QED
  BY <1>1, <1>2

LEMMA CommandsInAppend ==
    ASSUME NEW h \in [Cells -> Commands], NEW q \in Seq(Cells), NEW cell \in Cells
    PROVE  CommandsIn(h, Append(q, cell)) = Append(CommandsIn(h, q), h[cell])
<1> DEFINE r == Append(q, cell)
           left == CommandsIn(h, r)
           right == Append(CommandsIn(h, q), h[cell])
<1>1. r \in Seq(Cells) /\ Len(r) = Len(q) + 1 /\ Len(q) \in Nat
  OBVIOUS
<1>2. r[Len(q) + 1] = cell /\ \A i \in 1..Len(q) : r[i] = q[i]
  OBVIOUS
<1>3. left \in Seq(Commands) /\ Len(left) = Len(q) + 1
  BY <1>1, CommandsInType
<1>4. CommandsIn(h, q) \in Seq(Commands) /\ Len(CommandsIn(h, q)) = Len(q) /\ h[cell] \in Commands
  BY CommandsInType
<1>5. right \in Seq(Commands) /\ Len(right) = Len(q) + 1
  BY <1>4
<1>6. right[Len(q) + 1] = h[cell] /\ \A i \in 1..Len(q) : right[i] = CommandsIn(h, q)[i]
  BY <1>4
<1>7. \A i \in 1..Len(q) : CommandsIn(h, q)[i] = h[q[i]]
  BY DEF CommandsIn
<1>8. \A i \in 1..(Len(q) + 1) : left[i] = h[r[i]]
  BY <1>1 DEF CommandsIn
<1>9. \A i \in 1..(Len(q) + 1) : left[i] = right[i]
  <2> TAKE i \in 1..(Len(q) + 1)
  <2>1. i = Len(q) + 1 \/ i \in 1..Len(q)
    BY <1>1
  <2>2. QED
    BY <1>2, <1>6, <1>7, <1>8, <2>1
<1> HIDE DEF left, right
<1>10. left = right
  BY <1>3, <1>5, <1>9, SeqEqual
<1>11. QED
  BY <1>10 DEF left, right

LEMMA CommandsInTail ==
    ASSUME NEW h \in [Cells -> Commands], NEW q \in Seq(Cells), q # << >>
    PROVE  /\ CommandsIn(h, q) # << >>
           /\ Head(CommandsIn(h, q)) = h[Head(q)]
           /\ Tail(CommandsIn(h, q)) = CommandsIn(h, Tail(q))
<1> DEFINE whole == CommandsIn(h, q)
           rest == CommandsIn(h, Tail(q))
<1>1. whole \in Seq(Commands) /\ Len(whole) = Len(q) /\ Len(q) \in Nat \ {0}
  BY CommandsInType
<1>2. \A i \in 1..Len(q) : whole[i] = h[q[i]]
  BY DEF CommandsIn
<1>3. /\ Tail(q) \in Seq(Cells) /\ Len(Tail(q)) = Len(q) - 1 /\ Head(q) = q[1]
      /\ \A i \in 1..Len(Tail(q)) : Tail(q)[i] = q[i + 1]
  BY HeadTailProperties
<1>4. rest \in Seq(Commands) /\ Len(rest) = Len(q) - 1
  BY <1>3, CommandsInType
<1>5. \A i \in 1..Len(Tail(q)) : rest[i] = h[q[i + 1]]
  BY <1>3 DEF CommandsIn
<1> HIDE DEF whole, rest
<1>6. whole # << >> /\ Head(whole) = whole[1]
  BY <1>1
<1>7. /\ Tail(whole) \in Seq(Commands) /\ Len(Tail(whole)) = Len(q) - 1
      /\ \A i \in 1..(Len(q) - 1) : Tail(whole)[i] = whole[i + 1]
  BY <1>1, <1>6, HeadTailProperties
<1>8. \A i \in 1..(Len(q) - 1) : i + 1 \in 1..Len(q)
  BY <1>1
<1>9. Tail(whole) = rest
  <2>1. \A i \in 1..(Len(q) - 1) : Tail(whole)[i] = rest[i]
    BY <1>2, <1>3, <1>5, <1>7, <1>8
  <2>2. QED
    BY <1>4, <1>7, <2>1, SeqEqual
<1>10. Head(whole) = h[Head(q)]
  BY <1>1, <1>2, <1>3, <1>6
<1>11. QED
  BY <1>6, <1>9, <1>10 DEF whole, rest

LEMMA CommandsInKept ==
    ASSUME NEW h, NEW g, NEW q \in Seq(Cells), \A i \in 1..Len(q) : h[q[i]] = g[q[i]]
    PROVE  CommandsIn(h, q) = CommandsIn(g, q)
BY DEF CommandsIn

LEMMA PendingType ==
    ASSUME TypeInv
    PROVE  /\ PendingCells \in Seq(Cells)
           /\ Len(PendingCells) <= Len(queue) + 1
           /\ PendingCommands = CommandsIn(heap, PendingCells)
           /\ Len(PendingCommands) = Len(PendingCells)
<1>1. queue \in Seq(Cells) /\ prgCmd \in Cells /\ heap \in [Cells -> Commands]
  BY DEF TypeInv, TypeOK
<1>2. PendingCells \in Seq(Cells) /\ Len(PendingCells) <= Len(queue) + 1
  <2>1. CASE prgPc = "apply"
    <3>1. PendingCells = <<prgCmd>> \o queue /\ <<prgCmd>> \in Seq(Cells) /\ Len(<<prgCmd>>) = 1
      BY <1>1, <2>1 DEF PendingCells
    <3>2. QED
      BY <1>1, <3>1, ConcatProperties
  <2>2. CASE prgPc # "apply"
    <3>1. PendingCells = queue
      BY <1>1, <2>2, ConcatEmptySeq DEF PendingCells
    <3>2. QED
      BY <1>1, <3>1
  <2>3. QED
    BY <2>1, <2>2
<1>3. PendingCommands = CommandsIn(heap, PendingCells)
  BY DEF PendingCommands, CommandsIn
<1>4. QED
  BY <1>1, <1>2, <1>3, CommandsInType

LEMMA AppendBehind ==
    ASSUME NEW q \in Seq(Cells), NEW first \in Cells, NEW cell \in Cells
    PROVE  <<first>> \o Append(q, cell) = Append(<<first>> \o q, cell)
OBVIOUS

LEMMA HeadAndTail ==
    ASSUME NEW q \in Seq(Cells), NEW first \in Cells
    PROVE  /\ <<first>> \o q # << >>
           /\ Head(<<first>> \o q) = first
           /\ Tail(<<first>> \o q) = q
           /\ q # << >> => <<Head(q)>> \o Tail(q) = q
OBVIOUS

LEMMA LightInit == Init => Light!LightInit
<1> SUFFICES ASSUME Init PROVE currentPrg = FirstProgram /\ PendingCommands = << >> /\ Sound
  BY DEF Light!LightInit
<1>1. currentPrg = FirstProgram /\ PendingCells = << >> /\ Sound
  BY DEF Init, PendingCells, Sound
<1>2. QED
  BY <1>1 DEF PendingCommands

\* A step that touches neither the pending blocks nor their content, and begins
\* no trouble.
LEMMA LightStutter ==
    ASSUME UNCHANGED <<PendingCells, heap, currentPrg, Sound>>
    PROVE  UNCHANGED Light!lightVars
BY DEF PendingCommands, Light!lightVars

LEMMA LightStep ==
    TypeInv /\ OwnInv /\ LogInv /\ TypeInv' /\ [Next]_vars
        => [Light!LightNext]_(Light!lightVars)
<1> SUFFICES ASSUME TypeInv, OwnInv, LogInv, TypeInv', [Next]_vars
             PROVE  Light!LightNext \/ UNCHANGED Light!lightVars
  OBVIOUS
<1>a. /\ queue \in Seq(Cells) /\ newRemoteCmd \in Cells /\ prgCmd \in Cells
      /\ heap \in [Cells -> Commands]
  BY DEF TypeInv, TypeOK
<1>b. /\ PendingCells \in Seq(Cells) /\ Len(PendingCells) <= Len(queue) + 1
      /\ PendingCommands = CommandsIn(heap, PendingCells)
      /\ Len(PendingCommands) = Len(PendingCells)
  BY PendingType
<1>c. PendingCommands' = CommandsIn(heap', PendingCells')
  BY DEF PendingCommands, CommandsIn
<1> USE DEF radioVars, remVars, heapVars, prgVars, RemGoes, PrgGoes
<1>1. ASSUME NEW p \in Packets \cup {Garbage}, PacketReceived(p)
      PROVE  Light!LightNext \/ UNCHANGED Light!lightVars
  <2>1. UNCHANGED <<PendingCells, heap, currentPrg>>
    BY <1>1 DEF PacketReceived, PendingCells
  <2>2. UNCHANGED <<PendingCommands, currentPrg>>
    BY <2>1 DEF PendingCommands
  <2>3. Sound' => Sound
    BY <1>1 DEF PacketReceived, Sound
  <2>4. QED
    BY <2>2, <2>3, ZenonT(30) DEF Light!LightNext, Light!TroubleBegins, Light!lightVars
<1>2. CASE RadioStalls \/ DelayEnds \/ PrintEnds \/ PrintFails
  BY <1>2, LightStutter DEF RadioStalls, DelayEnds, PrintEnds, PrintFails, PendingCells, Sound
<1>3. CASE QueueTimeout \/ PrgFree \/ PrgCycle
  BY <1>3, LightStutter DEF QueueTimeout, PrgFree, PrgCycle, PendingCells, Sound
<1>4. CASE RemDelay \/ RemTestFlag \/ RemClearFlag \/ RemRead \/ RemRelisten \/ RemRestart
  BY <1>4, LightStutter
     DEF RemDelay, RemTestFlag, RemClearFlag, RemRead, RemRelisten, RemRestart, PendingCells,
         Sound
<1>5. CASE RemValidate \/ RemPrint \/ RemMatch \/ RemLog
  BY <1>5, LightStutter DEF RemValidate, RemPrint, RemMatch, RemLog, PendingCells, Sound
<1>6. CASE RemBuild
  <2>1. PICK cell \in Cells \ allocated :
          heap' = [heap EXCEPT ![cell] = CommandOf(remoteCmdBuffer.key)]
    BY <1>6 DEF RemBuild
  <2>2. UNCHANGED <<PendingCells, currentPrg, Sound>>
    BY <1>6 DEF RemBuild, PendingCells, Sound
  <2>3. \A i \in 1..Len(PendingCells) : PendingCells[i] \in allocated
    <3>1. \A i \in 1..Len(queue) : queue[i] \in allocated
      BY DEF OwnInv, OneOwner, InQueue
    <3>2. CASE prgPc = "apply"
      <4>1. PendingCells = <<prgCmd>> \o queue /\ prgCmd \in allocated
        BY <3>2 DEF PendingCells, OwnInv, OneOwner, ConsumerHolds
      <4>2. QED
        BY <1>a, <3>1, <4>1
    <3>3. CASE prgPc # "apply"
      BY <1>a, <3>1, <3>3, ConcatEmptySeq DEF PendingCells
    <3>4. QED
      BY <3>2, <3>3
  <2>4. \A i \in 1..Len(PendingCells) : heap'[PendingCells[i]] = heap[PendingCells[i]]
    BY <1>a, <1>b, <2>1, <2>3
  <2>5. PendingCommands' = PendingCommands
    BY <1>b, <1>c, <2>2, <2>4, CommandsInKept
  <2>6. QED
    BY <2>2, <2>5 DEF Light!lightVars
<1>7. CASE RemSend
  <2>1. /\ remPc = "send" /\ queue' = Append(queue, newRemoteCmd)
        /\ UNCHANGED <<heap, currentPrg, prgCmd, Sound>>
        /\ prgPc' = "apply" <=> prgPc = "apply"
    BY <1>7 DEF RemSend, OwnInv, Sound
  <2>2. PendingCells' = Append(PendingCells, newRemoteCmd)
    <3>1. CASE prgPc = "apply"
      BY <1>a, <2>1, <3>1, AppendBehind DEF PendingCells
    <3>2. CASE prgPc # "apply"
      BY <1>a, <2>1, <3>2, ConcatEmptySeq DEF PendingCells
    <3>3. QED
      BY <3>1, <3>2
  <2>3. PendingCommands' = Append(PendingCommands, heap[newRemoteCmd])
    BY <1>a, <1>b, <1>c, <2>1, <2>2, CommandsInAppend
  <2>4. heap[newRemoteCmd] \in SentCommands
    <3>1. remoteCmdBuffer.key \in Keys /\ HasCommand(remoteCmdBuffer.key)
      BY <2>1 DEF TypeInv, OwnInv, Packets
    <3>2. QED
      BY <2>1, <3>1 DEF LogInv, SentCommands
  <2>5. Len(PendingCommands) < QUEUE_LENGTH + 1
    <3>1. Len(queue) < QUEUE_LENGTH /\ Len(queue) \in Nat /\ Len(PendingCells) \in Nat
      BY <1>a, <1>b, <2>1 DEF OwnInv
    <3>2. QED
      BY <1>b, <3>1, CapacityAssumption
  <2>6. Light!Accept(heap[newRemoteCmd])
    BY <2>1, <2>3, <2>5 DEF Light!Accept
  <2>7. QED
    BY <2>4, <2>6 DEF Light!LightNext
<1>8. CASE PrgReceive
  <2>1. PendingCells' = PendingCells
    <3>1. CASE queue = << >>
      BY <1>8, <3>1 DEF PrgReceive, PendingCells
    <3>2. CASE queue # << >>
      <4>1. /\ PendingCells = << >> \o queue
            /\ PendingCells' = <<Head(queue)>> \o Tail(queue)
        BY <1>8, <3>2 DEF PrgReceive, PendingCells
      <4>2. QED
        BY <1>a, <3>2, <4>1, HeadAndTail, ConcatEmptySeq
    <3>3. QED
      BY <3>1, <3>2
  <2>2. QED
    BY <1>8, <2>1, LightStutter DEF PrgReceive, Sound
<1>9. CASE PrgApply
  <2>1. /\ PendingCells = <<prgCmd>> \o queue
        /\ currentPrg' = Applied(currentPrg, heap[prgCmd])
        /\ UNCHANGED <<heap, Sound>>
    BY <1>9 DEF PrgApply, PendingCells, Sound
  <2>2. PendingCells' = queue
    BY <1>a, <1>9, ConcatEmptySeq DEF PrgApply, PendingCells
  <2>3. PendingCells # << >> /\ Head(PendingCells) = prgCmd /\ Tail(PendingCells) = queue
    BY <1>a, <2>1, HeadAndTail
  <2>4. /\ PendingCommands # << >>
        /\ Head(PendingCommands) = heap[prgCmd]
        /\ Tail(PendingCommands) = PendingCommands'
    BY <1>a, <1>b, <1>c, <2>1, <2>2, <2>3, CommandsInTail
  <2>5. Light!TakeEffect
    BY <2>1, <2>4 DEF Light!TakeEffect
  <2>6. QED
    BY <2>5 DEF Light!LightNext
<1>10. CASE UNCHANGED vars
  BY <1>10, LightStutter DEF vars, PendingCells, Sound
<1>11. QED
  BY <1>1, <1>2, <1>3, <1>4, <1>5, <1>6, <1>7, <1>8, <1>9, <1>10 DEF Next, RemTask, PrgTask

\* The commands of the remote control take effect once each, unaltered and in
\* the order in which they were accepted.
THEOREM CommandsImplement == Spec => ImplementsCommands
<1>1. Init => LogInv
  BY DEF Init, LogInv
<1>2. QED
  BY TypeInit, TypeStep, OwnInit, OwnStep, LogStep, <1>1, LightInit, LightStep, PTL
     DEF Spec, ImplementsCommands, Light!LightSafety
=============================================================================
