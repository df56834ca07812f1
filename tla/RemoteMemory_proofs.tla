------------------------- MODULE RemoteMemory_proofs --------------------------
(***************************************************************************)
(* What is proved of the way of a command, for every size of the buffer,   *)
(* every heap and every length of the queue.                               *)
(*                                                                         *)
(* A failed reading is harmless because what it leaves in the buffer was   *)
(* judged before: it was no message then, or its count is lastCount now.   *)
(* Rejected says so, in every state in which nothing has been read since.  *)
(*                                                                         *)
(* The heap is sound because its functions keep it so (PortHeap_proofs)    *)
(* and nobody frees what is not theirs (CommandsOwned).  It is never too   *)
(* small because the commands that are on their way and the bytes that are *)
(* free have together more than all commands can have (RoomInv).           *)
(***************************************************************************)
EXTENDS RemoteMemory, PortHeap_proofs

RadioTypeOK ==
    /\ remPc \in {"wait", "read", "words", "validate", "accepted"}
    /\ remoteCmdBuffer \in [Places -> Bytes]
    /\ remoteCmdLength \in Lengths
    /\ lastCount \in Bytes
    /\ packetSize \in Lengths
    /\ position \in Nat
    /\ damaged \in BOOLEAN

\* Between two words: an odd number of bytes is stored, and fewer than announced.
BetweenWords ==
    /\ position % 2 = 1
    /\ position < packetSize
    /\ packetSize <= bufferSize + 1
    /\ remoteCmdLength = packetSize
    /\ ~damaged

\* After a reading that has stored something.
ReadWhole ==
    /\ position <= bufferSize + 1
    /\ position > bufferSize => damaged /\ packetSize \in {bufferSize, bufferSize + 1}
    /\ ~damaged => remoteCmdLength <= position

\* What is in the buffer is not accepted (again).
Rejected ==
    \/ damaged
    \/ remoteCmdLength < 2
    \/ \A around \in [Around -> Bytes] : ~WellFormed(MessageWith(around), remoteCmdLength)
    \/ remoteCmdBuffer[1] = lastCount

Reading ==
    /\ remPc \in {"wait", "read"} => position = 0 /\ packetSize = 0 /\ Rejected
    /\ remPc = "words" => BetweenWords
    /\ remPc = "validate" => \/ position = 0 /\ Rejected
                             \/ position > 0 /\ ReadWhole
    /\ remPc = "accepted" => /\ position = 0 \/ ReadWhole
                             /\ Rejected
                             /\ MessageOfOneReading

RadioInv == RadioTypeOK /\ Reading

USE DEF BufferAssumption, Bytes, Leader, Lengths, TooLong

-----------------------------------------------------------------------------
\* The check of a message of two bytes or more that fits looks at nothing around
\* the buffer.
LEMMA OnlyTheBuffer ==
    ASSUME bufferSize \in Nat, bufferSize >= 2,
           NEW length \in 2..bufferSize,
           NEW a \in [Around -> Bytes], NEW b \in [Around -> Bytes],
           WellFormed(MessageWith(a), length)
    PROVE  WellFormed(MessageWith(b), length)
<1>1. \A i \in Places : MessageWith(a)[i] = MessageWith(b)[i]
    BY DEF MessageWith
<1>2. /\ 0 \in Places
      /\ length - 1 \in Places
      /\ length - 2 \in Places
    BY DEF Places
<1>3. \A i \in {1} \cup 2..(length - 3) : i \in Places
    BY DEF Places
<1>4. {i \in {1} \cup 2..(length - 3) : MessageWith(a)[i] = 1}
        = {i \in {1} \cup 2..(length - 3) : MessageWith(b)[i] = 1}
    BY <1>1, <1>3
<1> QED BY <1>1, <1>2, <1>4 DEF WellFormed

LEMMA RadioInvInit == RadioInit => RadioInv
<1> SUFFICES ASSUME RadioInit PROVE RadioInv
    OBVIOUS
<1> USE BufferAssumption DEF RadioInit
<1>1. RadioTypeOK
    <2>1. damaged \in BOOLEAN
        OBVIOUS
    <2>2. remoteCmdLength \in Lengths /\ packetSize \in Lengths /\ position \in Nat
        OBVIOUS
    <2>3. remoteCmdBuffer \in [Places -> Bytes] /\ lastCount \in Bytes
        OBVIOUS
    <2> QED BY <2>1, <2>2, <2>3 DEF RadioTypeOK
<1>2. Rejected
    <2>1. ASSUME NEW around \in [Around -> Bytes]
          PROVE  MessageWith(around)[0] = 0
        BY DEF MessageWith, Places
    <2> QED BY <2>1 DEF Rejected, WellFormed
<1> QED BY <1>1, <1>2 DEF RadioInv, Reading

\* Waiting again, with what was judged in the buffer.
LEMMA WaitsAfterJudging ==
    ASSUME RadioInv, Waits, Rejected,
           UNCHANGED <<remoteCmdBuffer, remoteCmdLength, lastCount>>
    PROVE  RadioInv'
<1> USE BufferAssumption DEF Waits
<1>1. RadioTypeOK'
    BY DEF RadioInv, RadioTypeOK
<1>2. Rejected'
    BY DEF Rejected, MessageWith
<1> QED BY <1>1, <1>2 DEF RadioInv, Reading, MessageOfOneReading

LEMMA RadioStep ==
    ASSUME RadioInv, RadioNext
    PROVE  RadioInv'
<1> USE BufferAssumption DEF RadioInv, readVars
<1>1. CASE PacketAnnounced
    <2>1. RadioTypeOK' /\ Rejected'
        BY <1>1 DEF PacketAnnounced, RadioTypeOK, Reading, Rejected, MessageWith
    <2> QED BY <1>1, <2>1 DEF PacketAnnounced, Reading, MessageOfOneReading
<1>2. CASE CrcError
    <2>1. RadioTypeOK' /\ Rejected'
        BY <1>2 DEF CrcError, RadioTypeOK, Reading, Rejected, MessageWith
    <2> QED BY <1>2, <2>1 DEF CrcError, Reading, MessageOfOneReading
<1>3. ASSUME NEW size \in Lengths, NEW byte \in Bytes, ReadLength(size, byte)
      PROVE  RadioInv'
    <2>1. CASE TooLong(size)
        <3>1. RadioTypeOK' /\ Rejected'
            BY <1>3, <2>1 DEF ReadLength, RadioTypeOK, Reading, Rejected, MessageWith
        <3> QED BY <1>3, <2>1, <3>1 DEF ReadLength, Reading, MessageOfOneReading
    <2>2. CASE ~TooLong(size)
        <3>1. RadioTypeOK'
            <4>1. remPc' \in {"words", "validate"} /\ UNCHANGED lastCount
                BY <1>3, <2>2 DEF ReadLength
            <4>2. /\ remoteCmdLength' \in Lengths
                  /\ packetSize' \in Lengths
                  /\ position' \in Nat
                  /\ remoteCmdBuffer' \in [Places -> Bytes]
                BY <1>3, <2>2 DEF ReadLength, RadioTypeOK
            <4>3. damaged' \in BOOLEAN
                BY <1>3, <2>2 DEF ReadLength
            <4> QED BY <4>1, <4>2, <4>3 DEF RadioTypeOK
        <3>2. CASE 1 < size
            BY <1>3, <2>2, <3>1, <3>2 DEF ReadLength, Reading, BetweenWords, MessageOfOneReading
        <3>3. CASE ~(1 < size)
            BY <1>3, <2>2, <3>1, <3>3 DEF ReadLength, Reading, ReadWhole, MessageOfOneReading
        <3> QED BY <3>2, <3>3
    <2> QED BY <2>1, <2>2
<1>4. ASSUME NEW high \in Bytes, NEW low \in Bytes, ReadWord(high, low)
      PROVE  RadioInv'
    <2> USE <1>4 DEF ReadWord
    <2>1. BetweenWords
        BY DEF Reading
    <2>2. RadioTypeOK'
        <3>1. remoteCmdLength \in Lengths /\ position \in Nat
            BY DEF RadioTypeOK
        <3>2. damaged' \in BOOLEAN
            BY Zenon
        <3>3. remoteCmdLength' \in Lengths
            BY <3>1, Zenon
        <3>4. remoteCmdBuffer' \in [Places -> Bytes]
            BY DEF RadioTypeOK
        <3>5. position' \in Nat
            BY <3>1
        <3>6. /\ remPc' \in {"wait", "read", "words", "validate", "accepted"}
              /\ lastCount' \in Bytes
              /\ packetSize' \in Lengths
            BY DEF RadioTypeOK
        <3> QED BY <3>2, <3>3, <3>4, <3>5, <3>6, Zenon DEF RadioTypeOK
    <2>3. position + 2 <= bufferSize + 1 /\ (position + 2) % 2 = 1
        BY <2>1 DEF BetweenWords, RadioTypeOK
    <2>4. damaged' <=> position' > bufferSize
        BY <2>1, Zenon DEF BetweenWords
    <2>5. ~damaged' => remoteCmdLength' = packetSize
        BY <2>1, Zenon DEF BetweenWords
    <2>6. CASE position + 2 < packetSize
        BY <2>1, <2>2, <2>3, <2>4, <2>5, <2>6 DEF BetweenWords, Reading, RadioTypeOK, MessageOfOneReading
    <2>7. CASE ~(position + 2 < packetSize)
        <3>1. ReadWhole'
            BY <2>1, <2>2, <2>3, <2>4, <2>5, <2>7 DEF BetweenWords, ReadWhole, RadioTypeOK
        <3> QED BY <2>2, <2>7, <3>1 DEF Reading, RadioTypeOK, MessageOfOneReading
    <2> QED BY <2>6, <2>7
<1>5. CASE IsMessageValid
    <2> USE <1>5
    <2>1. PICK around \in [Around -> Bytes] :
            IF /\ WellFormed(MessageWith(around), remoteCmdLength)
               /\ remoteCmdBuffer[1] # lastCount
            THEN remPc' = "accepted" /\ lastCount' = remoteCmdBuffer[1] /\ UNCHANGED readVars
            ELSE Waits /\ UNCHANGED lastCount
        BY DEF IsMessageValid
    <2>2. CASE /\ WellFormed(MessageWith(around), remoteCmdLength)
               /\ remoteCmdBuffer[1] # lastCount
        <3>1. RadioTypeOK'
            BY <2>1, <2>2 DEF IsMessageValid, RadioTypeOK, Places
        <3>2. Rejected'
            BY <2>1, <2>2 DEF IsMessageValid, Rejected
        <3>3. position = 0 => damaged \/ remoteCmdLength < 2
            BY <2>2 DEF IsMessageValid, Reading, Rejected
        <3>4. position = 0 \/ ReadWhole
            BY DEF IsMessageValid, Reading
        <3>5. MessageOfOneReading' /\ (position = 0 \/ ReadWhole)'
            BY <2>1, <2>2, <3>3, <3>4 DEF IsMessageValid, MessageOfOneReading, ReadWhole
        <3> QED BY <2>1, <2>2, <3>1, <3>2, <3>5 DEF Reading
    <2>3. CASE ~(/\ WellFormed(MessageWith(around), remoteCmdLength)
                 /\ remoteCmdBuffer[1] # lastCount)
        <3>1. Rejected
            <4>1. CASE position = 0
                BY <4>1 DEF IsMessageValid, Reading
            <4>2. CASE position # 0
                <5>1. SUFFICES ASSUME ~damaged, remoteCmdLength >= 2,
                                      remoteCmdBuffer[1] # lastCount,
                                      NEW b \in [Around -> Bytes]
                               PROVE  ~WellFormed(MessageWith(b), remoteCmdLength)
                    BY DEF Rejected, RadioTypeOK
                <5>2. remoteCmdLength \in 2..bufferSize
                    BY <4>2, <5>1 DEF IsMessageValid, Reading, ReadWhole, RadioTypeOK
                <5> QED BY <2>3, <5>1, <5>2, OnlyTheBuffer
            <4> QED BY <4>1, <4>2
        <3> QED BY <2>1, <2>3, <3>1, WaitsAfterJudging DEF IsMessageValid
    <2> QED BY <2>2, <2>3
<1> QED BY <1>1, <1>2, <1>3, <1>4, <1>5 DEF RadioNext

LEMMA RadioInvStep == RadioInv /\ [Next]_vars => RadioInv'
<1> SUFFICES ASSUME RadioInv, [Next]_vars PROVE RadioInv'
    OBVIOUS
<1>1. ASSUME UNCHANGED radioVars PROVE RadioInv'
    BY <1>1 DEF radioVars, readVars, RadioInv, RadioTypeOK, Reading, Rejected, BetweenWords,
                ReadWhole, MessageOfOneReading, MessageWith
<1>2. CASE Radio
    BY <1>2, RadioStep DEF Radio
<1>3. CASE NoCommand \/ SendCommand
    <2>1. Rejected
        BY <1>3 DEF NoCommand, SendCommand, RadioInv, Reading
    <2> QED BY <1>3, <2>1, WaitsAfterJudging DEF NoCommand, SendCommand
<1>4. CASE TakeRequest \/ Receive \/ FreeCommand \/ UNCHANGED vars
    BY <1>1, <1>4 DEF TakeRequest, Receive, FreeCommand, vars
<1> QED BY <1>2, <1>3, <1>4 DEF Next

LEMMA RadioInvAlways == Spec => []RadioInv
<1>1. Init => RadioInv
    BY RadioInvInit DEF Init
<1> QED BY <1>1, RadioInvStep, PTL DEF Spec

\* Whatever length a packet has, LT89XX_Read stores at most one byte behind the
\* buffer, for every size the buffer may have.
THEOREM ReadingStaysNear == Spec => []AtMostOneBehind
<1>1. RadioInv => AtMostOneBehind
    BY BufferAssumption DEF RadioInv, RadioTypeOK, Reading, BetweenWords, ReadWhole, AtMostOneBehind
<1> QED BY <1>1, RadioInvAlways, PTL

\* No command comes from a reading that failed, nor from parts of two packets,
\* but for the lengths that the check of a message does not exclude.
THEOREM MessagesAreOfOneReading == Spec => []MessageOfOneReading
<1>1. RadioInv => MessageOfOneReading
    BY DEF RadioInv, Reading, MessageOfOneReading
<1> QED BY <1>1, RadioInvAlways, PTL

-----------------------------------------------------------------------------
(* The heap.                                                                 *)

\* The commands on their way are distinct blocks that are allocated.
CommandsOwned ==
    /\ prgCmd \in heap.owned \cup {NULL}
    /\ queue \in Seq(Nat)
    /\ \A i \in DOMAIN queue : queue[i] \in heap.owned /\ queue[i] # prgCmd
    /\ \A i, j \in DOMAIN queue : queue[i] = queue[j] => i = j

HeapInv ==
    /\ Sound(heap)
    /\ requests \in Seq(Seq(Nat) \ {<< >>})
    /\ CommandsOwned

LEMMA HeapInvInit == Init => HeapInv
<1> SUFFICES ASSUME Init PROVE HeapInv
    OBVIOUS
<1>1. PICK l \in Layouts : heap = HeapInit(l.bytes, l.offset) /\ requests = l.startUp
    BY DEF Init
<1>2. /\ l.bytes \in Nat /\ l.bytes >= 3 * portBYTE_ALIGNMENT
      /\ l.offset \in 0..(portBYTE_ALIGNMENT - 1)
      /\ l.startUp \in Seq(Seq(Nat) \ {<< >>})
    BY LayoutAssumption
<1>3. Sound(heap)
    BY <1>1, <1>2, InitSound
<1>4. CommandsOwned
    BY DEF Init, CommandsOwned
<1> QED BY <1>1, <1>2, <1>3, <1>4 DEF Init, HeapInv

LEMMA OwnedBlocks ==
    ASSUME NEW h, Sound(h)
    PROVE  /\ FreeBlocks(h) \subseteq Nat /\ h.owned \subseteq Nat \ {NULL}
           /\ FreeBlocks(h) \cap h.owned = {}
BY DEF Sound, WellFormedBut, Tiling, FreeBlocks, Blocks, xStart, Base, NULL, portBYTE_ALIGNMENT

\* The commands stay theirs when more is allocated.
LEMMA StillOwned ==
    ASSUME CommandsOwned, heap.owned \subseteq heap'.owned, UNCHANGED <<queue, prgCmd>>
    PROVE  CommandsOwned'
BY DEF CommandsOwned

\* The start-up takes an object, or a stack and a TCB.
LEMMA TakeKeepsHeap == HeapInv /\ TakeRequest => HeapInv'
<1> SUFFICES ASSUME HeapInv, TakeRequest PROVE HeapInv'
    OBVIOUS
<1> DEFINE sizes == Head(requests)
           first == Malloc(heap, sizes[1])
           second == Malloc(first.heap, sizes[Len(sizes)])
<1>1. /\ sizes[1] \in Nat /\ sizes[Len(sizes)] \in Nat
      /\ requests' \in Seq(Seq(Nat) \ {<< >>})
    <2>1. sizes \in Seq(Nat) /\ sizes # << >>
        BY DEF HeapInv, TakeRequest
    <2>2. Len(sizes) \in Nat \ {0}
        BY <2>1
    <2> HIDE DEF sizes
    <2>3. sizes[1] \in Nat /\ sizes[Len(sizes)] \in Nat
        BY <2>1, <2>2
    <2> QED BY <2>3 DEF HeapInv, TakeRequest
<1>2. /\ IF Len(sizes) = 1 \/ first.block = NULL
         THEN heap' = first.heap
         ELSE heap' = IF second.block = NULL THEN Free(first.heap, first.block)
                                             ELSE second.heap
      /\ UNCHANGED <<queue, prgCmd>>
    BY DEF TakeRequest
<1> HIDE DEF sizes
<1>3. Sound(heap) /\ CommandsOwned
    BY DEF HeapInv
<1>4. /\ Sound(first.heap)
      /\ \/ first.block = NULL /\ first.heap = heap
         \/ /\ first.block \in FreeBlocks(heap) /\ first.block # NULL
            /\ first.heap.owned = heap.owned \cup {first.block}
    BY <1>1, <1>3, MallocSound
<1> HIDE DEF first
<1>5. /\ Sound(second.heap)
      /\ \/ second.block = NULL /\ second.heap = first.heap
         \/ /\ second.block \in FreeBlocks(first.heap) /\ second.block # NULL
            /\ second.heap.owned = first.heap.owned \cup {second.block}
    BY <1>1, <1>4, MallocSound
<1> HIDE DEF second
<1>6. CASE Len(sizes) = 1 \/ first.block = NULL
    <2>1. heap' = first.heap
        BY <1>2, <1>6
    <2>2. heap.owned \subseteq heap'.owned
        BY <1>4, <2>1
    <2> QED BY <1>1, <1>2, <1>3, <1>4, <2>1, <2>2, StillOwned DEF HeapInv
<1>7. CASE Len(sizes) # 1 /\ first.block # NULL /\ second.block # NULL
    <2>1. heap' = second.heap
        BY <1>2, <1>7
    <2>2. heap.owned \subseteq heap'.owned
        BY <1>4, <1>5, <2>1
    <2> QED BY <1>1, <1>2, <1>3, <1>5, <2>1, <2>2, StillOwned DEF HeapInv
<1>8. CASE Len(sizes) # 1 /\ first.block # NULL /\ second.block = NULL
    <2>1. heap' = Free(first.heap, first.block)
        BY <1>2, <1>8
    <2>2. first.block \in first.heap.owned /\ first.block \in FreeBlocks(heap)
          /\ first.heap.owned = heap.owned \cup {first.block}
        BY <1>4, <1>8
    <2>3. Sound(heap') /\ heap'.owned = first.heap.owned \ {first.block}
        BY <1>4, <2>1, <2>2, FreeSound
    <2>4. heap.owned \subseteq heap'.owned
        BY <1>3, <2>2, <2>3, OwnedBlocks
    <2> QED BY <1>1, <1>2, <1>3, <2>3, <2>4, StillOwned DEF HeapInv
<1> QED BY <1>6, <1>7, <1>8

\* Recv_Remote_Task allocates a command and sends it.
LEMMA SendKeepsHeap == HeapInv /\ SendCommand => HeapInv'
<1> SUFFICES ASSUME HeapInv, SendCommand PROVE HeapInv'
    OBVIOUS
<1> DEFINE got == Malloc(heap, sizeofRemoteCmd)
<1>1. /\ heap' = got.heap
      /\ queue' = IF got.block = NULL THEN queue ELSE Append(queue, got.block)
      /\ UNCHANGED <<requests, prgCmd>>
    BY DEF SendCommand
<1>2. Sound(heap) /\ CommandsOwned
    BY DEF HeapInv
<1>3. /\ Sound(got.heap)
      /\ \/ got.block = NULL /\ got.heap = heap
         \/ /\ got.block \in FreeBlocks(heap) /\ got.block # NULL
            /\ got.heap.owned = heap.owned \cup {got.block}
    BY <1>2, MallocSound DEF sizeofRemoteCmd
<1> HIDE DEF got
<1>4. CASE got.block = NULL
    <2>1. heap' = heap /\ UNCHANGED <<queue, prgCmd>>
        BY <1>1, <1>3, <1>4
    <2> QED BY <1>1, <1>2, <2>1, StillOwned DEF HeapInv
<1>5. CASE got.block # NULL
    <2> DEFINE block == got.block
    <2>1. /\ block \in Nat /\ block \notin heap.owned
          /\ heap'.owned = heap.owned \cup {block} /\ queue' = Append(queue, block)
        BY <1>1, <1>2, <1>3, <1>5, OwnedBlocks
    <2> HIDE DEF block
    <2>2. /\ queue \in Seq(Nat) /\ Len(queue) \in Nat /\ DOMAIN queue = 1..Len(queue)
          /\ \A i \in DOMAIN queue : queue[i] \in heap.owned /\ queue[i] # prgCmd
          /\ \A i, j \in DOMAIN queue : queue[i] = queue[j] => i = j
        BY <1>2 DEF CommandsOwned
    <2>3. /\ queue' \in Seq(Nat) /\ DOMAIN queue' = 1..(Len(queue) + 1)
          /\ queue'[Len(queue) + 1] = block
          /\ \A i \in DOMAIN queue : queue'[i] = queue[i]
        BY <2>1, <2>2
    <2>4. \A i \in DOMAIN queue' : i \in DOMAIN queue \/ i = Len(queue) + 1
        BY <2>2, <2>3
    <2>5. block # prgCmd /\ prgCmd \in heap'.owned \cup {NULL}
        BY <1>2, <1>5, <2>1 DEF CommandsOwned, block
    <2>6. \A i \in DOMAIN queue' : queue'[i] \in heap'.owned /\ queue'[i] # prgCmd
        BY <2>1, <2>2, <2>3, <2>4, <2>5
    <2>7. \A i, j \in DOMAIN queue' : queue'[i] = queue'[j] => i = j
        <3> SUFFICES ASSUME NEW i \in DOMAIN queue', NEW j \in DOMAIN queue',
                            queue'[i] = queue'[j]
                     PROVE  i = j
            OBVIOUS
        <3>1. \A k \in DOMAIN queue : queue'[k] # block
            BY <2>1, <2>2, <2>3
        <3> QED BY <2>2, <2>3, <2>4, <3>1
    <2>8. CommandsOwned'
        BY <1>1, <2>3, <2>5, <2>6, <2>7 DEF CommandsOwned
    <2> QED BY <1>1, <1>3, <2>8 DEF HeapInv
<1> QED BY <1>4, <1>5

\* Programs_Task takes a command, and frees it.
LEMMA ReceiveKeepsHeap == HeapInv /\ Receive => HeapInv'
<1> SUFFICES ASSUME HeapInv, Receive PROVE HeapInv'
    OBVIOUS
<1>1. /\ queue \in Seq(Nat) /\ queue # << >>
      /\ queue' = Tail(queue) /\ prgCmd' = Head(queue) /\ UNCHANGED <<heap, requests>>
      /\ \A i \in DOMAIN queue : queue[i] \in heap.owned
      /\ \A i, j \in DOMAIN queue : queue[i] = queue[j] => i = j
    BY DEF HeapInv, CommandsOwned, Receive, heapVars
<1>2. /\ Len(queue) \in Nat \ {0} /\ DOMAIN queue = 1..Len(queue)
      /\ queue' \in Seq(Nat) /\ DOMAIN queue' = 1..(Len(queue) - 1)
      /\ \A i \in DOMAIN queue' : i + 1 \in DOMAIN queue /\ queue'[i] = queue[i + 1]
      /\ 1 \in DOMAIN queue /\ prgCmd' = queue[1]
    BY <1>1
<1>3. \A i \in DOMAIN queue' : queue'[i] \in heap.owned /\ queue'[i] # prgCmd'
    <2> SUFFICES ASSUME NEW i \in DOMAIN queue'
                 PROVE  queue'[i] \in heap.owned /\ queue'[i] # prgCmd'
        OBVIOUS
    <2>1. i \in Nat /\ i # 0 /\ i + 1 \in DOMAIN queue /\ i + 1 # 1
        BY <1>2
    <2> QED BY <1>1, <1>2, <2>1
<1>4. \A i, j \in DOMAIN queue' : queue'[i] = queue'[j] => i = j
    <2> SUFFICES ASSUME NEW i \in DOMAIN queue', NEW j \in DOMAIN queue', queue'[i] = queue'[j]
                 PROVE  i = j
        OBVIOUS
    <2>1. i \in Nat /\ j \in Nat /\ i + 1 = j + 1
        BY <1>1, <1>2
    <2> QED BY <2>1
<1>5. CommandsOwned'
    BY <1>1, <1>2, <1>3, <1>4 DEF CommandsOwned
<1> QED BY <1>1, <1>5 DEF HeapInv

LEMMA FreeKeepsHeap == HeapInv /\ FreeCommand => HeapInv'
<1> SUFFICES ASSUME HeapInv, FreeCommand PROVE HeapInv'
    OBVIOUS
<1>1. /\ Sound(heap) /\ CommandsOwned /\ prgCmd # NULL
      /\ heap' = Free(heap, prgCmd) /\ prgCmd' = NULL /\ UNCHANGED <<requests, queue>>
    BY DEF HeapInv, FreeCommand
<1>2. prgCmd \in heap.owned
    BY <1>1 DEF CommandsOwned
<1>3. Sound(heap') /\ heap'.owned = heap.owned \ {prgCmd}
    BY <1>1, <1>2, FreeSound
<1>4. \A i \in DOMAIN queue : queue[i] \in heap'.owned /\ queue[i] # NULL
    BY <1>1, <1>3, OwnedBlocks DEF CommandsOwned
<1>5. CommandsOwned'
    BY <1>1, <1>4 DEF CommandsOwned
<1> QED BY <1>1, <1>3, <1>5 DEF HeapInv

LEMMA HeapInvStep == HeapInv /\ [Next]_vars => HeapInv'
<1> SUFFICES ASSUME HeapInv, [Next]_vars PROVE HeapInv'
    OBVIOUS
<1>1. ASSUME UNCHANGED <<heap, requests, queue, prgCmd>> PROVE HeapInv'
    BY <1>1 DEF HeapInv, CommandsOwned
<1>2. CASE Radio \/ NoCommand \/ UNCHANGED vars
    BY <1>1, <1>2 DEF Radio, NoCommand, vars, heapVars
<1> QED BY <1>2, TakeKeepsHeap, SendKeepsHeap, ReceiveKeepsHeap, FreeKeepsHeap DEF Next

LEMMA HeapInvAlways == Spec => []HeapInv
BY HeapInvInit, HeapInvStep, PTL DEF Spec

\* After its start and after every allocation and release, in whatever order the
\* tasks make them, the heap's blocks fill it without gap or overlap, its list
\* visits exactly the free ones in the order of their addresses, none beside
\* another, and its count of free bytes is theirs.  No command is freed twice.
THEOREM HeapStaysWellFormed == Spec => []HeapWellFormed
<1>1. HeapInv => HeapWellFormed
    <2> SUFFICES ASSUME HeapInv PROVE HeapWellFormed
        OBVIOUS
    <2> USE DEF xStart, Base, NULL, portBYTE_ALIGNMENT
    <2> DEFINE free == FreeBlocks(heap)
               size == heap.xBlockSize
               end == heap.pxEnd
               Ends(b) == b + size[b]
    <2>1. /\ Tiling(size, end) /\ Blocks(heap) = Tiles(size, end)
          /\ Listed(heap, {}) = free /\ free \subseteq Blocks(heap)
          /\ Sorted(heap.pxNextFreeBlock, free, end)
          /\ \A b \in free : Ends(b) \notin free
          /\ heap.xFreeBytesRemaining = end - Base
               - MapThenSumSet(LAMBDA b : size[b], heap.owned)
        BY DEF HeapInv, Sound, WellFormedBut, Accounted, BytesIn, Blocks, Tiles, Listed,
               FreeBlocks
    <2>2. {Base} \cup {Ends(b) : b \in Blocks(heap)} = Blocks(heap) \cup {end}
        <3>1. \A b \in Blocks(heap) : Ends(b) \in Blocks(heap) \cup {end}
            BY <2>1 DEF Tiling, Tiles
        <3>2. \A c \in Blocks(heap) \cup {end} :
                c = Base \/ \E b \in Blocks(heap) : Ends(b) = c
            BY <2>1 DEF Tiling, Tiles
        <3>3. Base \in Blocks(heap)
            BY <2>1 DEF Tiling, Tiles
        <3> HIDE DEF Ends
        <3> QED BY <3>1, <3>2, <3>3
    <2>3. \A b, c \in Blocks(heap) : b < c => Ends(b) <= c
        BY <2>1 DEF Tiling
    <2>4. \A b \in free \cup {xStart} :
            heap.pxNextFreeBlock[b] = Min({f \in free \cup {end} : f > b})
        <3> SUFFICES ASSUME NEW b \in free \cup {xStart}
                     PROVE  heap.pxNextFreeBlock[b] = Min({f \in free \cup {end} : f > b})
            OBVIOUS
        <3> DEFINE behind == {f \in free \cup {end} : f > b}
                   next == heap.pxNextFreeBlock[b]
        <3>1. next \in behind /\ \A f \in behind : f \in Nat /\ next <= f
            BY <2>1 DEF Sorted, Tiling, Tiles
        <3> HIDE DEF behind, next
        <3>2. \A f \in behind : (\A g \in behind : f <= g) => f = next
            BY <3>1
        <3>3. Min(behind) = next
            BY <3>1, <3>2 DEF Min
        <3> QED BY <3>3 DEF behind, next
    <2> QED BY <2>1, <2>2, <2>3, <2>4 DEF HeapWellFormed
<1> QED BY <1>1, HeapInvAlways, PTL
-----------------------------------------------------------------------------
(* The room in the heap.                                                     *)

\* The blocks of the commands on their way.
Commands == {queue[i] : i \in DOMAIN queue} \cup ({prgCmd} \ {NULL})

\* The bytes of the blocks for each request of the start-up.
Taken(l) == [i \in DOMAIN l.startUp |-> BytesOf(l.startUp[i])]

\* The start-up has taken k requests, and what is free, or will be when the commands
\* are applied, is enough for the others and for the commands to come.
RoomAfter(l, k) ==
    /\ Len(requests) = Len(l.startUp) - k
    /\ \A i \in 1..Len(requests) : requests[i] = l.startUp[k + i]
    /\ heap.xFreeBytesRemaining + BytesIn(heap.xBlockSize, Commands)
         > BytesIn(Taken(l), (k + 1)..Len(l.startUp)) + 32 * QUEUE_LENGTH

OneFree(h) == \E f \in FreeBlocks(h) : FreeBlocks(h) = {f}

RoomInv ==
    /\ ~starved
    /\ NoneTiny(heap)
    /\ Len(queue) <= QUEUE_LENGTH
    /\ \A c \in Commands : heap.xBlockSize[c] <= 32
    /\ requests # << >> => Commands = {} /\ OneFree(heap)
    /\ \E l \in Layouts : \E k \in 0..Len(l.startUp) : RoomAfter(l, k)

USE DEF RoomAssumption

LEMMA CountUpTo ==
    ASSUME NEW n \in Nat
    PROVE  IsFiniteSet(1..n) /\ Cardinality(1..n) = n
<1>1. /\ IsFiniteSet(1..n)
      /\ Cardinality(1..n) = IF 1 > n THEN 0 ELSE n - 1 + 1
    BY FS_Interval
<1>2. (IF 1 > n THEN 0 ELSE n - 1 + 1) = n
    OBVIOUS
<1> QED BY <1>1, <1>2

LEMMA CountWith ==
    ASSUME NEW S, IsFiniteSet(S), NEW x
    PROVE  IsFiniteSet(S \cup {x}) /\ Cardinality(S \cup {x}) <= Cardinality(S) + 1
<1>1. Cardinality(S) \in Nat
    BY FS_CardinalityType
<1>2. /\ IsFiniteSet(S \cup {x})
      /\ Cardinality(S \cup {x}) = IF x \in S THEN Cardinality(S) ELSE Cardinality(S) + 1
    BY FS_AddElement
<1> QED BY <1>1, <1>2

LEMMA CommandsAre ==
    ASSUME HeapInv
    PROVE  /\ Commands \subseteq heap.owned
           /\ Sized(heap.xBlockSize, heap.owned) /\ Sized(heap.xBlockSize, Commands)
           /\ Cardinality(Commands) \in Nat /\ Len(queue) \in Nat
           /\ Cardinality(Commands) <= Len(queue) + 1
<1>1. /\ Sound(heap) /\ CommandsOwned
      /\ queue \in Seq(Nat) /\ Len(queue) \in Nat /\ DOMAIN queue = 1..Len(queue)
    BY DEF HeapInv, CommandsOwned
<1>2. Commands \subseteq heap.owned
    BY <1>1 DEF CommandsOwned, Commands
<1>3. Sized(heap.xBlockSize, heap.owned)
    BY <1>1, OwnedSized DEF Sound
<1>4. IsFiniteSet(1..Len(queue)) /\ Cardinality(1..Len(queue)) = Len(queue)
    BY <1>1, CountUpTo
<1> DEFINE queued == {queue[i] : i \in DOMAIN queue}
<1>5. /\ IsFiniteSet(queued) /\ Cardinality(queued) \in Nat
      /\ Cardinality(queued) <= Len(queue)
    <2>1. queue \in Surjection(DOMAIN queue, queued)
        BY <1>1 DEF Surjection
    <2> HIDE DEF queued
    <2>2. IsFiniteSet(queued) /\ Cardinality(queued) <= Len(queue)
        BY <1>1, <1>4, <2>1, FS_Surjection
    <2> QED BY <2>2, FS_CardinalityType
<1>6. IsFiniteSet(Commands) /\ Cardinality(Commands) <= Cardinality(queued) + 1
    <2>1. Commands = queued \/ Commands = queued \cup {prgCmd}
        BY DEF Commands
    <2> HIDE DEF queued
    <2>2. /\ IsFiniteSet(queued \cup {prgCmd})
          /\ Cardinality(queued \cup {prgCmd}) <= Cardinality(queued) + 1
        BY <1>5, CountWith
    <2>3. Cardinality(queued) <= Cardinality(queued) + 1
        BY <1>5
    <2> QED BY <1>5, <2>1, <2>2, <2>3, Zenon
<1> HIDE DEF queued
<1>7. Cardinality(Commands) \in Nat
    BY <1>6, FS_CardinalityType
<1>8. Cardinality(Commands) <= Len(queue) + 1
    BY <1>1, <1>5, <1>6, <1>7
<1> QED BY <1>1, <1>2, <1>3, <1>6, <1>7, <1>8 DEF Sized

\* A step that takes nothing of the room.
LEMMA RoomKept ==
    ASSUME RoomInv, UNCHANGED requests,
           heap'.xFreeBytesRemaining + BytesIn(heap'.xBlockSize, Commands')
             = heap.xFreeBytesRemaining + BytesIn(heap.xBlockSize, Commands)
    PROVE  \E l \in Layouts : \E k \in 0..Len(l.startUp) : RoomAfter(l, k)'
<1>1. PICK l \in Layouts : \E k \in 0..Len(l.startUp) : RoomAfter(l, k)
    BY DEF RoomInv
<1>2. PICK k \in 0..Len(l.startUp) : RoomAfter(l, k)
    BY <1>1
<1>3. RoomAfter(l, k)'
    BY <1>2 DEF RoomAfter
<1> QED BY <1>3

\* What a request of the start-up takes.
LEMMA RequestBytes ==
    ASSUME NEW l \in Layouts
    PROVE  /\ Len(l.startUp) \in Nat
           /\ \A i \in 1..Len(l.startUp) :
                /\ Taken(l)[i] = BytesOf(l.startUp[i]) /\ Taken(l)[i] \in Nat
                /\ \A j \in {1, Len(l.startUp[i])} :
                    l.startUp[i][j] \in Nat /\ l.startUp[i][j] > 0
<1>1. l.startUp \in Seq(Seq(Nat) \ {<< >>})
    BY LayoutAssumption
<1>2. Len(l.startUp) \in Nat /\ DOMAIN l.startUp = 1..Len(l.startUp)
    BY <1>1
<1>3. SUFFICES ASSUME NEW i \in 1..Len(l.startUp)
               PROVE  /\ Taken(l)[i] = BytesOf(l.startUp[i]) /\ Taken(l)[i] \in Nat
                      /\ \A j \in {1, Len(l.startUp[i])} :
                            l.startUp[i][j] \in Nat /\ l.startUp[i][j] > 0
    BY <1>2
<1> DEFINE sizes == l.startUp[i]
<1>4. sizes \in Seq(Nat) /\ sizes # << >>
    BY <1>1, <1>2
<1>5. \A j \in DOMAIN sizes : sizes[j] > 0
    BY <1>2, RoomAssumption
<1>6. Taken(l)[i] = BytesOf(sizes)
    BY <1>2 DEF Taken
<1> HIDE DEF sizes
<1>7. Len(sizes) \in Nat \ {0} /\ DOMAIN sizes = 1..Len(sizes)
    BY <1>4
<1>8. \A j \in {1, Len(sizes)} : sizes[j] \in Nat /\ sizes[j] > 0
    <2>1. {1, Len(sizes)} \subseteq DOMAIN sizes
        BY <1>7
    <2>2. \A j \in DOMAIN sizes : sizes[j] \in Nat
        BY <1>4
    <2> QED BY <1>5, <2>1, <2>2
<1>9. BlockFor(sizes[1]) \in Nat /\ BlockFor(sizes[Len(sizes)]) \in Nat
    BY <1>8, BlockForBytes
<1>10. BytesOf(sizes) \in Nat
    BY <1>9 DEF BytesOf
<1> QED BY <1>6, <1>8, <1>10 DEF sizes

\* What some of the requests take.
LEMMA RequestsBytes ==
    ASSUME NEW l \in Layouts, NEW k \in Nat
    PROVE  /\ BytesIn(Taken(l), (k + 1)..Len(l.startUp)) \in Nat
           /\ BytesIn(Taken(l), (k + 2)..Len(l.startUp)) \in Nat
           /\ k < Len(l.startUp) =>
                BytesIn(Taken(l), (k + 1)..Len(l.startUp))
                  = Taken(l)[k + 1] + BytesIn(Taken(l), (k + 2)..Len(l.startUp))
<1> DEFINE size == Taken(l)
           n == Len(l.startUp)
           rest == (k + 1)..n
<1>1. n \in Nat /\ \A i \in 1..n : size[i] \in Nat
    BY RequestBytes
<1> HIDE DEF size, n
<1>2. IsFiniteSet(rest)
    BY <1>1, FS_Interval
<1>3. \A i \in rest : size[i] \in Nat
    BY <1>1
<1>4. k < n => k + 1 \in rest /\ rest \ {k + 1} = (k + 2)..n
    BY <1>1
<1> HIDE DEF rest
<1>5. BytesIn(size, rest) \in Nat
    BY <1>2, <1>3, BytesNat
<1>6. Sized(size, rest)
    BY <1>2, <1>3 DEF Sized
<1>8. BytesIn(size, (k + 2)..n) \in Nat
    <2> DEFINE others == (k + 2)..n
    <2>1. IsFiniteSet(others) /\ \A i \in others : size[i] \in Nat
        BY <1>1, FS_Interval
    <2> HIDE DEF others
    <2>2. BytesIn(size, others) \in Nat
        BY <2>1, BytesNat
    <2> QED BY <2>2 DEF others
<1>7. ASSUME k < n
      PROVE  BytesIn(size, rest) = size[k + 1] + BytesIn(size, (k + 2)..n)
    <2>1. BytesIn(size, rest) = size[k + 1] + BytesIn(size, rest \ {k + 1})
        BY <1>4, <1>6, <1>7, BytesWithout
    <2> QED BY <1>4, <1>7, <2>1
<1> QED BY <1>5, <1>7, <1>8 DEF size, n, rest

LEMMA CommandBlock == BlockFor(sizeofRemoteCmd) = heapMINIMUM_BLOCK_SIZE
BY DEF BlockFor, AlignedUp, AlignedDown, sizeofRemoteCmd, xHeapStructSize,
       heapMINIMUM_BLOCK_SIZE, portBYTE_ALIGNMENT

LEMMA RoomInvInit == Init => RoomInv
<1> SUFFICES ASSUME Init PROVE RoomInv
    OBVIOUS
<1>1. PICK l \in Layouts : heap = HeapInit(l.bytes, l.offset) /\ requests = l.startUp
    BY DEF Init
<1>2. /\ l.bytes \in Nat /\ l.bytes >= 3 * portBYTE_ALIGNMENT
      /\ l.offset \in 0..(portBYTE_ALIGNMENT - 1)
      /\ QUEUE_LENGTH \in Nat \ {0}
      /\ l.startUp \in Seq(Seq(Nat) \ {<< >>})
    BY LayoutAssumption
<1>3. Sound(heap) /\ heap.owned = {} /\ Blocks(heap) = {Base}
    BY <1>1, <1>2, InitSound
<1>4. FreeBlocks(heap) = {Base}
    BY <1>3 DEF FreeBlocks
<1>5. /\ heap.xFreeBytesRemaining \in Nat
      /\ heap.xFreeBytesRemaining = heap.xBlockSize[Base]
    BY <1>3, <1>4, FreeBytes
<1>6. Commands = {} /\ Len(queue) = 0
    BY DEF Init, Commands
<1>7. BytesIn(heap.xBlockSize, Commands) = 0
    BY <1>6, NoBytes
<1> DEFINE taken == BytesIn(Taken(l), 1..Len(l.startUp))
<1>8. heap.xFreeBytesRemaining > taken + 32 * QUEUE_LENGTH
    <2>1. DOMAIN l.startUp = 1..Len(l.startUp)
        BY <1>2
    <2>2. HeapInit(l.bytes, l.offset).xFreeBytesRemaining
            > BytesIn(Taken(l), DOMAIN l.startUp)
                + 2 * BlockFor(sizeofRemoteCmd) * QUEUE_LENGTH
        BY RoomAssumption, Zenon DEF Taken, BytesIn
    <2>3. 2 * BlockFor(sizeofRemoteCmd) = 32
        BY CommandBlock, BlockForBytes
    <2> QED BY <1>1, <2>1, <2>2, <2>3
<1>9. taken \in Nat
    <2>1. BytesIn(Taken(l), (0 + 1)..Len(l.startUp)) \in Nat
        BY RequestsBytes
    <2>2. 0 + 1 = 1
        OBVIOUS
    <2> QED BY <2>1, <2>2
<1> HIDE DEF taken
<1>10. NoneTiny(heap)
    <2>1. heap.xBlockSize[Base] >= heapMINIMUM_BLOCK_SIZE
        <3>1. 32 * QUEUE_LENGTH >= 32 /\ heapMINIMUM_BLOCK_SIZE = 16
            BY <1>2, BlockForBytes
        <3> QED BY <1>2, <1>5, <1>8, <1>9, <3>1
    <2> QED BY <1>3, <2>1 DEF NoneTiny
<1>11. Len(l.startUp) \in Nat /\ RoomAfter(l, 0)
    <2>1. \A i \in 1..Len(requests) : requests[i] = l.startUp[0 + i]
        BY <1>1, <1>2
    <2>2. heap.xFreeBytesRemaining + 0 > BytesIn(Taken(l), (0 + 1)..Len(l.startUp))
                                           + 32 * QUEUE_LENGTH
        BY <1>5, <1>8 DEF taken
    <2>3. Len(l.startUp) \in Nat /\ Len(requests) = Len(l.startUp) - 0
        BY <1>1, <1>2
    <2> QED BY <1>7, <2>1, <2>2, <2>3 DEF RoomAfter
<1>12. ~starved /\ Len(queue) <= QUEUE_LENGTH
    BY <1>2, <1>6 DEF Init
<1> QED BY <1>4, <1>6, <1>10, <1>11, <1>12 DEF RoomInv, OneFree

\* A request that the only free block is large enough for.
Supplied(h, m, bytes) ==
    /\ m.block # NULL /\ Sound(m.heap) /\ NoneTiny(m.heap) /\ OneFree(m.heap)
    /\ m.heap.xFreeBytesRemaining = h.xFreeBytesRemaining - bytes

LEMMA RoomForBoth ==
    ASSUME NEW free \in Nat, NEW rest \in Nat, NEW first \in Nat, NEW second \in Nat,
           NEW length \in Nat \ {0}, free > first + second + rest + 32 * length
    PROVE  free > first + 16 /\ free - first > second + 16
<1>1. 32 * length >= 32 /\ 32 * length \in Nat
    OBVIOUS
<1> QED BY <1>1

LEMMA OneSupplies ==
    ASSUME NEW h, Sound(h), NoneTiny(h), OneFree(h), NEW wanted \in Nat, wanted > 0,
           h.xFreeBytesRemaining > BlockFor(wanted) + heapMINIMUM_BLOCK_SIZE
    PROVE  Supplied(h, Malloc(h, wanted), BlockFor(wanted))
<1>1. PICK f : FreeBlocks(h) = {f}
    BY DEF OneFree
<1> DEFINE m == Malloc(h, wanted)
<1>2. m = Malloc(h, wanted)
    OBVIOUS
<1> HIDE DEF m
<1>3. /\ m.block # NULL /\ Sound(m.heap) /\ NoneTiny(m.heap)
      /\ m.heap.xFreeBytesRemaining = h.xFreeBytesRemaining - BlockFor(wanted)
      /\ \E e : FreeBlocks(m.heap) = {e}
    BY <1>1, <1>2, MallocFromOne
<1>4. OneFree(m.heap)
    BY <1>3 DEF OneFree
<1> QED BY <1>3, <1>4 DEF Supplied, m

\* While the start-up takes its objects, they come from the one free block.
LEMMA TakeKeepsRoom == RoomInv /\ HeapInv /\ TakeRequest => RoomInv'
<1> SUFFICES ASSUME RoomInv, HeapInv, TakeRequest PROVE RoomInv'
    OBVIOUS
<1>1. PICK l \in Layouts : \E k \in 0..Len(l.startUp) : RoomAfter(l, k)
    BY DEF RoomInv
<1>2. PICK k \in 0..Len(l.startUp) : RoomAfter(l, k)
    BY <1>1
<1> DEFINE n == Len(l.startUp)
           sizes == Head(requests)
           first == Malloc(heap, sizes[1])
           second == Malloc(first.heap, sizes[Len(sizes)])
           last == sizes[Len(sizes)]
           free == heap.xFreeBytesRemaining
           rest == BytesIn(Taken(l), (k + 2)..n)
<1>3. /\ requests \in Seq(Seq(Nat) \ {<< >>}) /\ requests # << >>
      /\ requests' = Tail(requests)
    BY DEF HeapInv, TakeRequest
<1>4. /\ n \in Nat /\ k \in Nat /\ k < n
      /\ Len(requests) = n - k /\ Len(requests') = n - (k + 1)
      /\ sizes = l.startUp[k + 1]
      /\ \A i \in 1..Len(requests') : requests'[i] = l.startUp[(k + 1) + i]
    <2>1. Len(requests) \in Nat /\ Len(requests) > 0 /\ DOMAIN requests = 1..Len(requests)
        BY <1>3
    <2>2. n \in Nat /\ k \in Nat /\ Len(requests) = n - k
        BY <1>2, RequestBytes DEF RoomAfter
    <2>3. \A i \in 1..Len(requests) : requests[i] = l.startUp[k + i]
        BY <1>2 DEF RoomAfter
    <2>4. k < n /\ Len(requests') = Len(requests) - 1
        BY <1>3, <2>1, <2>2
    <2>5. sizes = l.startUp[k + 1]
        BY <1>3, <2>1, <2>3
    <2>6. ASSUME NEW i \in 1..Len(requests')
          PROVE  requests'[i] = l.startUp[(k + 1) + i]
        <3>1. i + 1 \in 1..Len(requests) /\ requests'[i] = requests[i + 1]
            BY <1>3, <2>1, <2>4
        <3>2. k + (i + 1) = (k + 1) + i
            BY <2>2
        <3> QED BY <2>3, <3>1, <3>2
    <2> HIDE DEF n, sizes
    <2>7. Len(requests') = n - (k + 1)
        BY <2>2, <2>4
    <2> QED BY <2>2, <2>4, <2>5, <2>6, <2>7
<1>5. /\ sizes[1] \in Nat /\ sizes[1] > 0 /\ last \in Nat /\ last > 0
      /\ Taken(l)[k + 1] = BytesOf(sizes)
    <2>1. k + 1 \in 1..n
        BY <1>4
    <2>2. /\ Taken(l)[k + 1] = BytesOf(sizes)
          /\ \A j \in {1, Len(sizes)} : sizes[j] \in Nat /\ sizes[j] > 0
        BY <1>4, <2>1, RequestBytes
    <2> HIDE DEF sizes
    <2> QED BY <2>2
<1>6. /\ Sound(heap) /\ NoneTiny(heap) /\ OneFree(heap)
      /\ Commands = {} /\ ~starved
    BY <1>3 DEF HeapInv, RoomInv
<1>8. /\ rest \in Nat /\ free \in Nat
      /\ free > BytesOf(sizes) + rest + 32 * QUEUE_LENGTH
    <2>1. BytesIn(heap.xBlockSize, Commands) = 0
        BY <1>6, NoBytes
    <2>2. free + 0 > BytesIn(Taken(l), (k + 1)..n) + 32 * QUEUE_LENGTH
        BY <1>2, <2>1 DEF RoomAfter
    <2>3. BytesIn(Taken(l), (k + 1)..n) = Taken(l)[k + 1] + rest
        BY <1>4, RequestsBytes
    <2>4. free \in Nat
        BY <1>6, FreeBytes
    <2>5. rest \in Nat
        BY <1>4, RequestsBytes
    <2> QED BY <1>5, <2>2, <2>3, <2>4, <2>5
<1>9. BlockFor(sizes[1]) \in Nat /\ BlockFor(last) \in Nat /\ heapMINIMUM_BLOCK_SIZE = 16
    BY <1>5, BlockForBytes
<1>10. 32 * QUEUE_LENGTH \in Nat /\ 32 * QUEUE_LENGTH >= 32
    BY LayoutAssumption
<1>11. /\ IF Len(sizes) = 1 \/ first.block = NULL
          THEN heap' = first.heap /\ starved' = (first.block = NULL)
          ELSE /\ heap' = IF second.block = NULL THEN Free(first.heap, first.block)
                                                 ELSE second.heap
               /\ starved' = (second.block = NULL)
       /\ UNCHANGED <<queue, prgCmd>>
    BY DEF TakeRequest
<1> HIDE DEF n, sizes, last, free, rest
<1>12. /\ Len(sizes) = 1 => BytesOf(sizes) = BlockFor(sizes[1])
       /\ Len(sizes) # 1 => BytesOf(sizes) = BlockFor(sizes[1]) + BlockFor(last)
    BY <1>9 DEF BytesOf, last
<1>13. free > BlockFor(sizes[1]) + heapMINIMUM_BLOCK_SIZE
    <2>1. CASE Len(sizes) = 1
        <3>1. free > BlockFor(sizes[1]) + 0 + rest + 32 * QUEUE_LENGTH
            BY <1>8, <1>9, <1>12, <2>1
        <3> QED BY <1>8, <1>9, <3>1, RoomForBoth, LayoutAssumption
    <2>2. CASE Len(sizes) # 1
        <3>1. free > BlockFor(sizes[1]) + BlockFor(last) + rest + 32 * QUEUE_LENGTH
            BY <1>8, <1>9, <1>12, <2>2
        <3> QED BY <1>8, <1>9, <3>1, RoomForBoth, LayoutAssumption
    <2> QED BY <2>1, <2>2
<1>14. Supplied(heap, first, BlockFor(sizes[1]))
    BY <1>5, <1>6, <1>13, OneSupplies DEF free
<1>15. /\ NoneTiny(heap') /\ OneFree(heap') /\ ~starved'
       /\ heap'.xFreeBytesRemaining = free - BytesOf(sizes)
    <2> HIDE DEF first
    <2>1. CASE Len(sizes) = 1
        BY <1>11, <1>12, <1>14, <2>1 DEF Supplied, free
    <2>2. CASE Len(sizes) # 1
        <3>1. /\ first.block # NULL /\ Sound(first.heap) /\ NoneTiny(first.heap)
              /\ OneFree(first.heap)
              /\ first.heap.xFreeBytesRemaining = free - BlockFor(sizes[1])
            BY <1>14 DEF Supplied, free
        <3>2. first.heap.xFreeBytesRemaining > BlockFor(last) + heapMINIMUM_BLOCK_SIZE
            <4>1. free > BlockFor(sizes[1]) + BlockFor(last) + rest + 32 * QUEUE_LENGTH
                BY <1>8, <1>9, <1>12, <2>2
            <4> QED BY <1>8, <1>9, <3>1, <4>1, RoomForBoth, LayoutAssumption
        <3>3. Supplied(first.heap, second, BlockFor(last))
            BY <1>5, <3>1, <3>2, OneSupplies DEF last
        <3> HIDE DEF second
        <3>4. heap' = second.heap /\ ~starved'
            BY <1>11, <2>2, <3>1, <3>3 DEF Supplied
        <3>5. free - BlockFor(sizes[1]) - BlockFor(last) = free - BytesOf(sizes)
            BY <1>8, <1>9, <1>12, <2>2
        <3> QED BY <3>1, <3>3, <3>4, <3>5 DEF Supplied
    <2> QED BY <2>1, <2>2
<1> HIDE DEF first, second
<1>16. Commands' = {} /\ Len(queue') <= QUEUE_LENGTH
    BY <1>6, <1>11 DEF Commands, RoomInv
<1>17. k + 1 \in 0..n /\ RoomAfter(l, k + 1)'
    <2>1. BytesIn(heap'.xBlockSize, Commands') = 0
        BY <1>16, NoBytes
    <2>2. BytesOf(sizes) \in Nat
        BY <1>9, <1>12
    <2>3. heap'.xFreeBytesRemaining + 0 > rest + 32 * QUEUE_LENGTH
        BY <1>8, <1>10, <1>15, <2>2
    <2>4. (k + 1) + 1 = k + 2 /\ k + 1 \in 0..n
        BY <1>4
    <2> QED BY <1>4, <2>1, <2>3, <2>4 DEF RoomAfter, rest, n
<1> QED BY <1>15, <1>16, <1>17 DEF RoomInv, n

\* What is free when there is space in the queue, whatever the others have.
LEMMA RoomForCommand ==
    ASSUME RoomInv, HeapInv, Len(queue) < QUEUE_LENGTH
    PROVE  heap.xFreeBytesRemaining > 0
<1>1. PICK l \in Layouts : \E k \in 0..Len(l.startUp) : RoomAfter(l, k)
    BY DEF RoomInv
<1>2. PICK k \in 0..Len(l.startUp) : RoomAfter(l, k)
    BY <1>1
<1> DEFINE free == heap.xFreeBytesRemaining
           bytes == BytesIn(heap.xBlockSize, Commands)
           rest == BytesIn(Taken(l), (k + 1)..Len(l.startUp))
           n == Cardinality(Commands)
<1>3. rest \in Nat /\ free + bytes > rest + 32 * QUEUE_LENGTH
    <2>1. k \in Nat
        BY RequestBytes
    <2> QED BY <1>2, <2>1, RequestsBytes DEF RoomAfter
<1>4. free \in Nat
    BY FreeBytes DEF HeapInv
<1>5. n \in Nat /\ QUEUE_LENGTH \in Nat /\ n <= QUEUE_LENGTH
    BY CommandsAre, LayoutAssumption
<1>6. bytes \in Nat /\ bytes <= 32 * n
    <2>1. IsFiniteSet(Commands)
        BY CommandsAre DEF Sized
    <2>2. \A c \in Commands : heap.xBlockSize[c] \in Nat /\ heap.xBlockSize[c] <= 32
        <3>1. \A c \in heap.owned : heap.xBlockSize[c] \in Nat
            BY DEF HeapInv, Sound, WellFormedBut, Tiling, Blocks
        <3> QED BY <3>1, CommandsAre DEF RoomInv
    <2>3. 32 \in Nat
        OBVIOUS
    <2> QED BY <2>1, <2>2, <2>3, BytesLimited
<1> HIDE DEF free, bytes, rest, n
<1>7. 32 * n <= 32 * QUEUE_LENGTH /\ 32 * n \in Nat /\ 32 * QUEUE_LENGTH \in Nat
    BY <1>5
<1>8. free > 0
    BY <1>3, <1>4, <1>6, <1>7
<1> QED BY <1>8 DEF free

\* A command finds its block, which has twice the size it asked for at most.
LEMMA SendKeepsRoom == RoomInv /\ HeapInv /\ SendCommand => RoomInv'
<1> SUFFICES ASSUME RoomInv, HeapInv, SendCommand PROVE RoomInv'
    OBVIOUS
<1> DEFINE got == Malloc(heap, sizeofRemoteCmd)
           block == got.block
           size == heap.xBlockSize
           newSize == heap'.xBlockSize
<1>1. /\ heap' = got.heap /\ starved' = (block = NULL)
      /\ queue' = IF block = NULL THEN queue ELSE Append(queue, block)
      /\ Len(queue) < QUEUE_LENGTH
      /\ requests = << >> /\ UNCHANGED <<requests, prgCmd>>
    BY DEF SendCommand, Running
<1>2. Sound(heap) /\ NoneTiny(heap) /\ heap.xFreeBytesRemaining > 0
    BY <1>1, RoomForCommand DEF RoomInv, HeapInv
<1>3. BlockFor(sizeofRemoteCmd) = 16 /\ heapMINIMUM_BLOCK_SIZE = 16
    BY CommandBlock, BlockForBytes
<1>4. sizeofRemoteCmd \in Nat
    BY DEF sizeofRemoteCmd
<1>5. ~NoneFits(heap, BlockFor(sizeofRemoteCmd))
    BY <1>2, <1>4, CommandBlock, SmallestFits
<1>6. /\ Sound(heap') /\ block \in FreeBlocks(heap) /\ block # NULL
      /\ heap'.owned = heap.owned \cup {block}
      /\ heap'.xFreeBytesRemaining = heap.xFreeBytesRemaining - newSize[block]
      /\ \A c \in heap.owned : newSize[c] = size[c]
      /\ CutToFit(heap, block, heap', BlockFor(sizeofRemoteCmd))
    <2> DEFINE m == got
    <2>1. m = Malloc(heap, sizeofRemoteCmd)
        OBVIOUS
    <2> HIDE DEF m
    <2>2. /\ Sound(m.heap)
          /\ \/ Refused(heap, m, BlockFor(sizeofRemoteCmd))
             \/ Granted(heap, m, BlockFor(sizeofRemoteCmd))
        BY <1>2, <1>4, <2>1, MallocAccounts
    <2>3. m.heap = heap'
        BY <1>1 DEF m
    <2> QED BY <1>5, <2>2, <2>3, Zenon DEF m, Refused, Granted
<1> HIDE DEF got
<1>7. NoneTiny(heap')
    BY <1>2, <1>3, <1>6, MallocNoneTiny
<1> DEFINE b == block
<1>8. HeapInv'
    BY SendKeepsHeap
<1>9. b \in Nat /\ b \notin heap.owned /\ b # NULL
    BY <1>2, <1>6, OwnedBlocks
<1>10. queue \in Seq(Nat) /\ Len(queue) \in Nat /\ queue' = Append(queue, b)
    BY <1>1, <1>6 DEF HeapInv, CommandsOwned
<1>11. Commands' = Commands \cup {b}
    <2> HIDE DEF b, block
    <2>1. /\ DOMAIN queue = 1..Len(queue) /\ DOMAIN queue' = 1..(Len(queue) + 1)
          /\ queue'[Len(queue) + 1] = b /\ \A i \in DOMAIN queue : queue'[i] = queue[i]
        BY <1>9, <1>10
    <2>2. DOMAIN queue' = DOMAIN queue \cup {Len(queue) + 1}
        BY <1>10, <2>1
    <2>3. {queue'[i] : i \in DOMAIN queue'} = {queue[i] : i \in DOMAIN queue} \cup {b}
        BY <2>1, <2>2
    <2> QED BY <1>1, <2>3 DEF Commands
<1>12. newSize[b] <= 32
    BY <1>3, <1>6, <1>8 DEF CutToFit, HeapInv, Sound, WellFormedBut, Tiling, Blocks
<1>13. heap'.xFreeBytesRemaining + BytesIn(newSize, Commands')
         = heap.xFreeBytesRemaining + BytesIn(size, Commands)
    <2>1. /\ Commands \subseteq heap.owned /\ Sized(size, Commands)
          /\ \A c \in Commands : newSize[c] = size[c]
        BY <1>6, CommandsAre
    <2>2. Sized(newSize, Commands')
        <3>1. Sized(newSize, heap'.owned)
            BY <1>6, OwnedSized DEF Sound
        <3>2. IsFiniteSet(Commands') /\ Commands' \subseteq heap'.owned
            BY <1>6, <1>11, <2>1, FS_AddElement DEF Sized
        <3> QED BY <3>1, <3>2 DEF Sized
    <2> HIDE DEF b, block, size, newSize
    <2>3. Commands' \ {b} = Commands /\ b \in Commands'
        BY <1>9, <1>11, <2>1
    <2>4. /\ BytesIn(newSize, Commands') \in Int /\ BytesIn(newSize, Commands) \in Int
          /\ BytesIn(newSize, Commands') = newSize[b] + BytesIn(newSize, Commands)
        <3> DEFINE new == Commands'
        <3>1. Sized(newSize, new) /\ b \in new /\ new \ {b} = Commands
            BY <2>2, <2>3
        <3> HIDE DEF new
        <3>2. /\ BytesIn(newSize, new) \in Int /\ BytesIn(newSize, new \ {b}) \in Int
              /\ BytesIn(newSize, new) = newSize[b] + BytesIn(newSize, new \ {b})
            BY <3>1, BytesWithout
        <3>3. BytesIn(newSize, new \ {b}) = BytesIn(newSize, Commands)
            BY <3>1
        <3> QED BY <3>2, <3>3 DEF new
    <2>5. BytesIn(newSize, Commands) = BytesIn(size, Commands)
        BY <2>1, BytesSame
    <2>6. heap.xFreeBytesRemaining \in Nat /\ newSize[b] \in Int
        BY <1>2, <2>2, <2>3, FreeBytes DEF Sized
    <2>7. heap'.xFreeBytesRemaining = heap.xFreeBytesRemaining - newSize[b]
        BY <1>6 DEF b, block, newSize
    <2> QED BY <2>4, <2>5, <2>6, <2>7
<1>14. \A c \in Commands' : newSize[c] <= 32
    BY <1>6, <1>11, <1>12, CommandsAre DEF RoomInv
<1>15. ~starved' /\ requests' = << >>
    BY <1>1, <1>6
<1>16. Len(queue') <= QUEUE_LENGTH
    BY <1>1, <1>10, LayoutAssumption
<1>17. \E l \in Layouts : \E k \in 0..Len(l.startUp) : RoomAfter(l, k)'
    BY <1>1, <1>13, RoomKept
<1> QED BY <1>7, <1>14, <1>15, <1>16, <1>17 DEF RoomInv

\* Programs_Task takes a command from the queue: it is still on its way.
LEMMA ReceiveKeepsRoom == RoomInv /\ HeapInv /\ Receive => RoomInv'
<1> SUFFICES ASSUME RoomInv, HeapInv, Receive PROVE RoomInv'
    OBVIOUS
<1>1. /\ prgCmd = NULL /\ queue # << >> /\ prgCmd' = Head(queue) /\ queue' = Tail(queue)
      /\ requests = << >> /\ UNCHANGED <<heap, requests, starved>>
    BY DEF Receive, RemWaits, Running, heapVars
<1>2. /\ queue \in Seq(Nat) /\ Len(queue) \in Nat \ {0}
      /\ DOMAIN queue = 1..Len(queue) /\ DOMAIN queue' = 1..(Len(queue) - 1)
      /\ Len(queue') = Len(queue) - 1 /\ prgCmd' = queue[1]
      /\ \A i \in DOMAIN queue' : queue'[i] = queue[i + 1]
    BY <1>1 DEF HeapInv, CommandsOwned
<1>3. prgCmd' # NULL
    <2>1. queue[1] \in heap.owned
        <3>1. 1 \in DOMAIN queue
            BY <1>2
        <3> QED BY <3>1 DEF HeapInv, CommandsOwned
    <2> QED BY <1>2, <2>1, OwnedBlocks DEF HeapInv
<1>4. Commands' = Commands
    <2>1. Commands = {queue[i] : i \in DOMAIN queue}
        BY <1>1 DEF Commands
    <2>2. Commands' = {queue'[i] : i \in DOMAIN queue'} \cup {queue[1]}
        <3>1. {prgCmd'} \ {NULL} = {queue[1]}
            BY <1>2, <1>3
        <3> QED BY <3>1, Zenon DEF Commands
    <2>3. ASSUME NEW i \in DOMAIN queue, i # 1
          PROVE  i - 1 \in DOMAIN queue' /\ queue'[i - 1] = queue[i]
        <3>1. i - 1 \in DOMAIN queue' /\ (i - 1) + 1 = i
            BY <1>2, <2>3
        <3> QED BY <1>2, <3>1
    <2>4. \A i \in DOMAIN queue' : i + 1 \in DOMAIN queue /\ queue'[i] = queue[i + 1]
        BY <1>2
    <2>5. 1 \in DOMAIN queue
        BY <1>2
    <2> QED BY <2>1, <2>2, <2>3, <2>4, <2>5
<1>5. \E l \in Layouts : \E k \in 0..Len(l.startUp) : RoomAfter(l, k)'
    <2>1. heap'.xFreeBytesRemaining + BytesIn(heap'.xBlockSize, Commands')
            = heap.xFreeBytesRemaining + BytesIn(heap.xBlockSize, Commands)
        BY <1>1, <1>4
    <2> QED BY <1>1, <2>1, RoomKept
<1>6. Len(queue') <= QUEUE_LENGTH
    BY <1>2, LayoutAssumption DEF RoomInv
<1>7. NoneTiny(heap') /\ ~starved' /\ \A c \in Commands' : heap'.xBlockSize[c] <= 32
    BY <1>1, <1>4 DEF RoomInv
<1> QED BY <1>1, <1>5, <1>6, <1>7 DEF RoomInv

\* The room of a command that is freed is free.
LEMMA FreeKeepsRoom == RoomInv /\ HeapInv /\ FreeCommand => RoomInv'
<1> SUFFICES ASSUME RoomInv, HeapInv, FreeCommand PROVE RoomInv'
    OBVIOUS
<1> DEFINE b == prgCmd
           size == heap.xBlockSize
           newSize == heap'.xBlockSize
           others == Commands \ {b}
<1>1. /\ b # NULL /\ heap' = Free(heap, b) /\ prgCmd' = NULL
      /\ requests = << >> /\ UNCHANGED <<requests, starved, queue>>
    BY DEF FreeCommand, RemWaits, Running
<1>2. /\ Sound(heap) /\ b \in heap.owned
      /\ \A i \in DOMAIN queue : queue[i] \in heap.owned /\ queue[i] # b
    BY <1>1 DEF HeapInv, CommandsOwned
<1>3. b \in Commands /\ Commands' = others
    <2>1. Commands = {queue[i] : i \in DOMAIN queue} \cup {b}
        BY <1>1 DEF Commands
    <2>2. Commands' = {queue[i] : i \in DOMAIN queue}
        BY <1>1 DEF Commands
    <2> QED BY <1>2, <2>1, <2>2
<1>4. /\ heap'.owned = heap.owned \ {b}
      /\ heap'.xFreeBytesRemaining = heap.xFreeBytesRemaining + size[b]
      /\ \A c \in heap'.owned : newSize[c] = size[c]
      /\ \A c \in Blocks(heap') : c \in Blocks(heap) /\ newSize[c] >= size[c]
    BY <1>1, <1>2, FreeSound
<1>5. Sound(heap')
    BY <1>1, <1>2, FreeSound
<1>6. NoneTiny(heap')
    <2>1. /\ \A c \in Blocks(heap) : size[c] \in Nat /\ size[c] >= 16
          /\ \A c \in Blocks(heap') : newSize[c] \in Nat
          /\ heapMINIMUM_BLOCK_SIZE = 16
        BY <1>2, <1>5, BlockForBytes
           DEF RoomInv, NoneTiny, Sound, WellFormedBut, Tiling, Blocks
    <2>2. \A c \in Blocks(heap') : newSize[c] >= 16
        BY <1>4, <2>1
    <2> QED BY <2>1, <2>2 DEF NoneTiny
<1>7. /\ others \subseteq heap'.owned /\ Sized(size, Commands)
      /\ \A c \in others : newSize[c] = size[c]
    BY <1>4, CommandsAre
<1>8. \A c \in Commands' : newSize[c] <= 32
    BY <1>3, <1>7 DEF RoomInv
<1>9. heap'.xFreeBytesRemaining + BytesIn(newSize, Commands')
        = heap.xFreeBytesRemaining + BytesIn(size, Commands)
    <2> HIDE DEF b, size, newSize
    <2>1. /\ BytesIn(size, Commands) \in Int /\ BytesIn(size, others) \in Int
          /\ BytesIn(size, Commands) = size[b] + BytesIn(size, others)
        BY <1>3, <1>7, BytesWithout
    <2>2. Sized(size, others)
        BY <1>7, FS_Subset DEF Sized
    <2> HIDE DEF others
    <2>3. BytesIn(size, others) = BytesIn(newSize, others)
        BY <1>7, <2>2, BytesSame
    <2>4. heap.xFreeBytesRemaining \in Nat /\ size[b] \in Int
        BY <1>2, <1>3, <1>7, FreeBytes DEF Sized
    <2>5. heap'.xFreeBytesRemaining = heap.xFreeBytesRemaining + size[b]
        BY <1>4
    <2>6. BytesIn(newSize, Commands') = BytesIn(newSize, others)
        BY <1>3
    <2> QED BY <2>1, <2>3, <2>4, <2>5, <2>6
<1>10. \E l \in Layouts : \E k \in 0..Len(l.startUp) : RoomAfter(l, k)'
    BY <1>1, <1>9, RoomKept
<1>11. ~starved' /\ Len(queue') <= QUEUE_LENGTH /\ requests' = << >>
    BY <1>1 DEF RoomInv
<1> QED BY <1>6, <1>8, <1>10, <1>11 DEF RoomInv

LEMMA RoomInvStep == RoomInv /\ HeapInv /\ [Next]_vars => RoomInv'
<1> SUFFICES ASSUME RoomInv, HeapInv, [Next]_vars PROVE RoomInv'
    OBVIOUS
<1>1. ASSUME UNCHANGED <<heap, requests, starved, queue, prgCmd>> PROVE RoomInv'
    <2>1. Commands' = Commands
        BY <1>1 DEF Commands
    <2>2. heap'.xFreeBytesRemaining + BytesIn(heap'.xBlockSize, Commands')
            = heap.xFreeBytesRemaining + BytesIn(heap.xBlockSize, Commands)
        BY <1>1, <2>1
    <2>3. \E l \in Layouts : \E k \in 0..Len(l.startUp) : RoomAfter(l, k)'
        BY <1>1, <2>2, RoomKept
    <2> QED BY <1>1, <2>1, <2>3 DEF RoomInv
<1>2. CASE Radio \/ NoCommand \/ UNCHANGED vars
    BY <1>1, <1>2 DEF Radio, NoCommand, vars, heapVars
<1> QED BY <1>2, TakeKeepsRoom, SendKeepsRoom, ReceiveKeepsRoom, FreeKeepsRoom DEF Next

\* No allocation fails: neither at the start, whatever the program then takes, nor
\* later for a command, whatever the order in which commands are sent, taken and
\* freed and however the free memory is divided, if ucHeap has the bytes of
\* RoomAssumption.
THEOREM MemoryIsEnough == Spec => []NeverOutOfMemory
<1>1. RoomInv => NeverOutOfMemory
    BY DEF RoomInv, NeverOutOfMemory
<1>2. Spec => []RoomInv
    BY RoomInvInit, RoomInvStep, HeapInvAlways, PTL DEF Spec
<1> QED BY <1>1, <1>2, PTL

=============================================================================
