----------------------------- MODULE RemoteMemory -----------------------------
(***************************************************************************)
(* The memory of the way of a command: the buffer the packet is read into, *)
(* and the heap, from which the start-up takes the objects of the program  *)
(* and Recv_Remote_Task every command, which Programs_Task frees.          *)
(*                                                                         *)
(* Recv_Remote_Task has the highest priority: Programs_Task runs while it  *)
(* waits for a packet or for the debug output, in which it announces an    *)
(* accepted message.  A null pointer from the heap ends the model.         *)
(***************************************************************************)
EXTENDS RadioRead, Sequences, PortHeap

CONSTANTS
    Layouts,        \* sizes of ucHeap, its place, what is taken at start-up
    QUEUE_LENGTH    \* 8 in Taskhost_Start

ASSUME LayoutAssumption ==
    /\ \A l \in Layouts : /\ l.bytes \in Nat /\ l.bytes >= 3 * portBYTE_ALIGNMENT
                          /\ l.offset \in 0..(portBYTE_ALIGNMENT - 1)
                          /\ l.startUp \in Seq(Seq(Nat) \ {<< >>})
    /\ QUEUE_LENGTH \in Nat \ {0}

VARIABLES
    heap,
    requests,       \* what the start-up has still to take
    starved,        \* an allocation has failed
    queue,          \* the commands in the remote command queue
    prgCmd          \* Programs_Task's command, NULL if it has freed it

heapVars == <<heap, requests, starved>>
vars == <<radioVars, heapVars, queue, prgCmd>>

-----------------------------------------------------------------------------
(* What the program takes at its start, in bytes.  A request of two sizes  *)
(* is a task: its stack, then its TCB.                                     *)

sizeofPointer == 4
sizeofStackType == 4
sizeofTCB == 76
sizeofQueue == 76
sizeofEventGroup == 24
sizeofTaskParams == 2 * sizeofPointer
sizeofDaemonTaskMessage == 12
sizeofRemoteCmd == 8

configTOTAL_HEAP_SIZE == 15000
configMINIMAL_STACK_SIZE == 200
configTIMER_TASK_STACK_DEPTH == 80

Task(usStackDepth) == <<usStackDepth * sizeofStackType, sizeofTCB>>
Queue(length, itemSize) == <<sizeofQueue + length * itemSize>>

\* dbg_init, Taskhost_Start and vTaskStartScheduler.
StartUp ==
    <<Queue(1, 0), Queue(1, 0),
      <<sizeofPointer>>, <<sizeofEventGroup>>, <<sizeofPointer>>, Queue(8, sizeofPointer),
      <<sizeofTaskParams>>, Task(configMINIMAL_STACK_SIZE), Task(configMINIMAL_STACK_SIZE),
      Task(1024), Task(512),
      Task(configMINIMAL_STACK_SIZE), Queue(2, sizeofDaemonTaskMessage),
      Task(configTIMER_TASK_STACK_DEPTH)>>

\* The bytes of the blocks for a request.
BytesOf(sizes) ==
    BlockFor(sizes[1]) + IF Len(sizes) = 1 THEN 0 ELSE BlockFor(sizes[Len(sizes)])

\* There is more memory than for the blocks of all these requests and, for every
\* command that is queued or applied while one is built, a block of twice its size.
ASSUME RoomAssumption ==
    \A l \in Layouts :
        LET taken == [i \in DOMAIN l.startUp |-> BytesOf(l.startUp[i])]
        IN  /\ \A i \in DOMAIN l.startUp : \A j \in DOMAIN l.startUp[i] : l.startUp[i][j] > 0
            /\ HeapInit(l.bytes, l.offset).xFreeBytesRemaining
                 > MapThenSumSet(LAMBDA i : taken[i], DOMAIN l.startUp)
                     + 2 * BlockFor(sizeofRemoteCmd) * QUEUE_LENGTH

-----------------------------------------------------------------------------
Init ==
    /\ RadioInit
    /\ \E l \in Layouts : heap = HeapInit(l.bytes, l.offset) /\ requests = l.startUp
    /\ starved = FALSE
    /\ queue = << >>
    /\ prgCmd = NULL

\* An object, or a stack and a TCB; the stack is given back if there is no TCB.
TakeRequest ==
    /\ requests # << >>
    /\ ~starved
    /\ requests' = Tail(requests)
    /\ LET sizes == Head(requests)
           first == Malloc(heap, sizes[1])
           second == Malloc(first.heap, sizes[Len(sizes)])
       IN  IF Len(sizes) = 1 \/ first.block = NULL
           THEN heap' = first.heap /\ starved' = (first.block = NULL)
           ELSE /\ heap' = IF second.block = NULL THEN Free(first.heap, first.block)
                                                  ELSE second.heap
                /\ starved' = (second.block = NULL)
    /\ UNCHANGED <<radioVars, queue, prgCmd>>

Running == requests = << >> /\ ~starved

Radio ==
    /\ Running
    /\ RadioNext
    /\ UNCHANGED <<heapVars, queue, prgCmd>>

\* The message is of another device, has no command, or there is no space.
NoCommand ==
    /\ Running
    /\ remPc = "accepted"
    /\ Waits
    /\ UNCHANGED <<remoteCmdBuffer, remoteCmdLength, lastCount, heapVars, queue, prgCmd>>

\* pvPortMalloc and xQueueSend, after uxQueueSpacesAvailable.
SendCommand ==
    /\ Running
    /\ remPc = "accepted"
    /\ Len(queue) < QUEUE_LENGTH
    /\ LET got == Malloc(heap, sizeofRemoteCmd)
       IN  /\ heap' = got.heap
           /\ starved' = (got.block = NULL)
           /\ queue' = IF got.block = NULL THEN queue ELSE Append(queue, got.block)
    /\ Waits
    /\ UNCHANGED <<remoteCmdBuffer, remoteCmdLength, lastCount, requests, prgCmd>>

\* Programs_Task runs.
RemWaits == Running /\ remPc \in {"wait", "accepted"}

Receive ==
    /\ RemWaits
    /\ prgCmd = NULL
    /\ queue # << >>
    /\ prgCmd' = Head(queue)
    /\ queue' = Tail(queue)
    /\ UNCHANGED <<radioVars, heapVars>>

FreeCommand ==
    /\ RemWaits
    /\ prgCmd # NULL
    /\ heap' = Free(heap, prgCmd)
    /\ prgCmd' = NULL
    /\ UNCHANGED <<radioVars, requests, starved, queue>>

Next == TakeRequest \/ Radio \/ NoCommand \/ SendCommand \/ Receive \/ FreeCommand

Spec == Init /\ [][Next]_vars

-----------------------------------------------------------------------------
\* The blocks of a heap fill it without gap or overlap; the free list holds the
\* free ones, all of them, in the order of their addresses and none beside
\* another; and the bytes said to be free are theirs.
HeapWellFormed ==
    LET free == FreeBlocks(heap)
        Ends(b) == b + heap.xBlockSize[b]
    IN  /\ {Base} \cup {Ends(b) : b \in Blocks(heap)} = Blocks(heap) \cup {heap.pxEnd}
        /\ \A b, c \in Blocks(heap) : b < c => Ends(b) <= c
        /\ \A b \in free \cup {xStart} :
            heap.pxNextFreeBlock[b] = Min({f \in free \cup {heap.pxEnd} : f > b})
        /\ \A b \in free : Ends(b) \notin free
        /\ heap.xFreeBytesRemaining = heap.pxEnd - Base
             - MapThenSumSet(LAMBDA b : heap.xBlockSize[b], heap.owned)

\* The heap is large enough: for everything the program takes at its start,
\* wherever ucHeap lies, and then for the commands, although a command may
\* get a block of twice its size when the rest would be too small to be one.
NeverOutOfMemory == ~starved
=============================================================================
