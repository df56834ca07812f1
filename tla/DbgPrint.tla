------------------------------- MODULE DbgPrint -------------------------------
(***************************************************************************)
(* The debug output: a ring buffer that tasks fill under a mutex and that  *)
(* the transmit interrupt of the USART empties                             *)
(* (ASF/common/services/freertos/dbg_print/dbg_print.c), with the mutex,   *)
(* its priority inheritance and the semaphore of FreeRTOS below it.        *)
(*                                                                         *)
(* A call prints one string; a message of the program is a series of       *)
(* calls.  A byte is known by the task that wrote it and by the number of  *)
(* bytes of its string that follow it.                                     *)
(***************************************************************************)
EXTENDS Integers, Sequences

CONSTANTS
    Tasks,          \* the tasks that print
    Remote,         \* Recv_Remote_Task, whose waits the packet interrupt aborts
    BasePriority,   \* their priorities
    DBG_BUFFER_SIZE,
    Lengths,        \* lengths of the strings
    None            \* no task

ASSUME TasksAssumption ==
    /\ Remote \in Tasks
    /\ None \notin Tasks
    /\ BasePriority \in [Tasks -> Nat]

ASSUME SizeAssumption ==
    /\ DBG_BUFFER_SIZE \in Nat
    /\ DBG_BUFFER_SIZE > 1
    /\ Lengths \subseteq Nat \ {0}

VARIABLES
    buffer,         \* dbg_buffer
    head,           \* buffer_head
    tail,           \* buffer_tail
    requested,      \* requested_space
    sending,        \* the DRE interrupt is enabled
    holder,         \* the task that holds dbg_is_free, or None
    spaceIsFree,    \* count of requested_space_is_free
    pc,             \* where each task is in its call
    length,         \* bytes of its string it still has to write
    writeLength,    \* its write_length
    priority,       \* its current priority
    halted          \* an assertion of the kernel has failed

ring == <<buffer, head, tail>>
uart == <<requested, sending>>
locals == <<length, writeLength>>
vars == <<ring, uart, holder, spaceIsFree, pc, locals, priority, halted>>

DBG_BUFFER_SPACE == DBG_BUFFER_SIZE - 1
Slots == 0..DBG_BUFFER_SPACE

Smaller(m, n) == IF m < n THEN m ELSE n
Larger(m, n) == IF m > n THEN m ELSE n

\* The next index, & DBG_BUFFER_MASK.
Following(i) == IF i = DBG_BUFFER_SPACE THEN 0 ELSE i + 1

Used == IF head >= tail THEN head - tail ELSE head - tail + DBG_BUFFER_SIZE
FreeSpace == DBG_BUFFER_SPACE - Used

Byte(t, n) == [task |-> t, left |-> n]

Init ==
    /\ buffer = [i \in Slots |-> Byte(None, 0)]
    /\ head = 0
    /\ tail = 0
    /\ requested = 0
    /\ sending = FALSE
    /\ holder = None
    /\ spaceIsFree = 0
    /\ pc = [t \in Tasks |-> "elsewhere"]
    /\ length = [t \in Tasks |-> 0]
    /\ writeLength = [t \in Tasks |-> 0]
    /\ priority = BasePriority
    /\ halted = FALSE

-----------------------------------------------------------------------------
(* Scheduling: a ready task with the highest current priority runs.        *)

Waits == {"waitLock", "waitSpace"}
Ready(t) == pc[t] \notin Waits \cup {"elsewhere"}
Runs(t) == Ready(t) /\ \A u \in Tasks : Ready(u) => priority[u] <= priority[t]

At(t, label) == ~halted /\ Runs(t) /\ pc[t] = label
Goes(t, from, to) == At(t, from) /\ pc' = [pc EXCEPT ![t] = to]

\* The task that is woken when what it waits for is given, if there is one.
FirstOf(waiting) == {t \in waiting : \A u \in waiting : priority[u] <= priority[t]}
Waiting(label) == {t \in Tasks : pc[t] = label}

-----------------------------------------------------------------------------
(* Faulty variants of operations below: bugs that could be made here, each *)
(* of which some property has to notice.  No specification uses them.      *)

\* WaitForLock with a block time of 0.
LockNotAwaited(t) ==
    /\ holder # None
    /\ Goes(t, "lock", "stop")
    /\ UNCHANGED <<ring, uart, holder, spaceIsFree, locals, priority, halted>>

\* WaitForLock on a semaphore without priority inheritance.
WaitWithoutInheritance(t) ==
    /\ holder # None
    /\ Goes(t, "lock", "waitLock")
    /\ UNCHANGED <<ring, uart, holder, spaceIsFree, locals, priority, halted>>

\* RequestSpace without the limit to the size of the buffer.
RequestWhole(t) ==
    /\ writeLength[t] = 0
    /\ Goes(t, "write", "start")
    /\ requested' = length[t]
    /\ writeLength' = [writeLength EXCEPT ![t] = requested']
    /\ UNCHANGED <<ring, sending, holder, spaceIsFree, length, priority, halted>>

\* StartUart for the sake of a request only.
StartUartOnRequest(t) ==
    /\ Goes(t, "start", IF length[t] > 0 THEN "takeSpace" ELSE "unlock")
    /\ sending' = (length[t] > 0)
    /\ UNCHANGED <<ring, requested, holder, spaceIsFree, locals, priority, halted>>

\* Unlock without waking a task that waits.
UnlockWakesNobody(t) ==
    /\ Goes(t, "unlock", "elsewhere")
    /\ holder' = IF holder = t THEN None ELSE holder
    /\ priority' = [priority EXCEPT ![t] = BasePriority[t]]
    /\ UNCHANGED <<ring, uart, spaceIsFree, locals, halted>>

\* TransmitInterrupt giving the semaphore one byte too early.
TransmitGivesEarly ==
    /\ sending
    /\ ~halted
    /\ tail' = Following(tail)
    /\ sending' = (tail' # head)
    /\ requested' = IF requested > 2 THEN requested - 1 ELSE 0
    /\ IF requested \in {1, 2}
       THEN /\ spaceIsFree' = 1
            /\ pc' = [u \in Tasks |-> IF pc[u] = "waitSpace" THEN "takeSpace" ELSE pc[u]]
       ELSE UNCHANGED <<spaceIsFree, pc>>
    /\ UNCHANGED <<buffer, head, holder, locals, priority, halted>>

\* TransmitInterrupt without switching itself off.
TransmitNeverStops ==
    /\ sending
    /\ ~halted
    /\ tail' = Following(tail)
    /\ requested' = IF requested > 0 THEN requested - 1 ELSE 0
    /\ IF requested = 1
       THEN /\ spaceIsFree' = 1
            /\ pc' = [u \in Tasks |-> IF pc[u] = "waitSpace" THEN "takeSpace" ELSE pc[u]]
       ELSE UNCHANGED <<spaceIsFree, pc>>
    /\ UNCHANGED <<buffer, head, sending, holder, locals, priority, halted>>

-----------------------------------------------------------------------------
(* dbg_print_str and dbg_print_char: lock, put the string, unlock.         *)

\* The task becomes ready at the beginning of a call.
Call(t, n) ==
    /\ ~halted
    /\ pc[t] = "elsewhere"
    /\ pc' = [pc EXCEPT ![t] = "lock"]
    /\ length' = [length EXCEPT ![t] = n]
    /\ UNCHANGED <<ring, uart, holder, spaceIsFree, writeLength, priority, halted>>

\* xSemaphoreTake(dbg_is_free, portMAX_DELAY): without the mutex the task
\* waits, and the holder inherits its priority.
TakeLock(t) ==
    /\ holder = None
    /\ Goes(t, "lock", "stop")
    /\ holder' = t
    /\ UNCHANGED <<ring, uart, spaceIsFree, locals, priority, halted>>

WaitForLock(t) ==
    /\ holder # None
    /\ Goes(t, "lock", "waitLock")
    /\ priority' = [priority EXCEPT ![holder] = Larger(@, priority[t])]
    /\ UNCHANGED <<ring, uart, holder, spaceIsFree, locals, halted>>

StopUart(t) ==
    /\ \/ Goes(t, "stop", "space")
       \/ Goes(t, "stopAgain", "write")
    /\ sending' = FALSE
    /\ UNCHANGED <<ring, requested, holder, spaceIsFree, locals, priority, halted>>

\* As much of the string as will fit into the buffer.
GetFreeSpace(t) ==
    /\ Goes(t, "space", "write")
    /\ writeLength' = [writeLength EXCEPT ![t] = Smaller(FreeSpace, length[t])]
    /\ UNCHANGED <<ring, uart, holder, spaceIsFree, length, priority, halted>>

WriteByte(t) ==
    /\ writeLength[t] > 0
    /\ At(t, "write")
    /\ buffer' = [buffer EXCEPT ![head] = Byte(t, length[t] - 1)]
    /\ head' = Following(head)
    /\ length' = [length EXCEPT ![t] = @ - 1]
    /\ writeLength' = [writeLength EXCEPT ![t] = @ - 1]
    /\ UNCHANGED <<tail, uart, holder, spaceIsFree, pc, priority, halted>>

RequestSpace(t) ==
    /\ writeLength[t] = 0
    /\ Goes(t, "write", "start")
    /\ requested' = Smaller(DBG_BUFFER_SPACE, length[t])
    /\ writeLength' = [writeLength EXCEPT ![t] = requested']
    /\ UNCHANGED <<ring, sending, holder, spaceIsFree, length, priority, halted>>

StartUart(t) ==
    /\ Goes(t, "start", IF length[t] > 0 THEN "takeSpace" ELSE "unlock")
    /\ sending' = TRUE
    /\ UNCHANGED <<ring, requested, holder, spaceIsFree, locals, priority, halted>>

\* xSemaphoreTake(requested_space_is_free, portMAX_DELAY).
TakeSpace(t) ==
    /\ Goes(t, "takeSpace", IF spaceIsFree = 1 THEN "stopAgain" ELSE "waitSpace")
    /\ spaceIsFree' = 0
    /\ UNCHANGED <<ring, uart, holder, locals, priority, halted>>

\* xSemaphoreGive(dbg_is_free): the kernel asserts that the holder gives, takes
\* the inherited priority back and wakes the first waiting task.  A mutex that
\* is free already is left alone.
Unlock(t) ==
    /\ At(t, "unlock")
    /\ IF holder \in {t, None}
       THEN /\ holder' = None
            /\ priority' = IF holder = t THEN [priority EXCEPT ![t] = BasePriority[t]]
                           ELSE priority
            /\ \E woken \in IF holder = t /\ Waiting("waitLock") # {}
                            THEN FirstOf(Waiting("waitLock")) ELSE {None} :
                pc' = [u \in Tasks |-> IF u = t THEN "elsewhere"
                                       ELSE IF u = woken THEN "lock" ELSE pc[u]]
            /\ UNCHANGED halted
       ELSE halted' = TRUE /\ UNCHANGED <<holder, priority, pc>>
    /\ UNCHANGED <<ring, uart, spaceIsFree, locals>>

Put(t) ==
    \/ TakeLock(t) \/ WaitForLock(t)
    \/ StopUart(t) \/ GetFreeSpace(t) \/ WriteByte(t) \/ RequestSpace(t) \/ StartUart(t)
    \/ TakeSpace(t)
    \/ Unlock(t)

-----------------------------------------------------------------------------
(* The transmit interrupt: it sends one byte, switches itself off after    *)
(* the last one and counts down a request for space.                       *)

TransmitInterrupt ==
    /\ sending
    /\ ~halted
    /\ tail' = Following(tail)
    /\ sending' = (tail' # head)
    /\ requested' = IF requested > 0 THEN requested - 1 ELSE 0
    /\ IF requested = 1
       THEN /\ spaceIsFree' = 1
            /\ \E woken \in IF spaceIsFree = 0 /\ Waiting("waitSpace") # {}
                            THEN FirstOf(Waiting("waitSpace")) ELSE {None} :
                pc' = [u \in Tasks |-> IF u = woken THEN "takeSpace" ELSE pc[u]]
       ELSE UNCHANGED <<spaceIsFree, pc>>
    /\ UNCHANGED <<buffer, head, holder, locals, priority, halted>>

-----------------------------------------------------------------------------
(* xTaskAbortDelay, called by the packet interrupt for Recv_Remote_Task: it *)
(* ends a wait for the mutex or for space as well, although both are waits  *)
(* without a limit.  Their results are not looked at.                       *)

PacketInterrupt ==
    /\ ~halted
    /\ \/ pc[Remote] = "waitLock" /\ pc' = [pc EXCEPT ![Remote] = "lockAborted"]
       \/ pc[Remote] = "waitSpace" /\ pc' = [pc EXCEPT ![Remote] = "spaceAborted"]
    /\ UNCHANGED <<ring, uart, holder, spaceIsFree, locals, priority, halted>>

\* The mutex is taken if it has been given meanwhile.  If not, its holder keeps
\* no more priority than the tasks that still wait for it lend, and the call
\* goes on without the mutex.
LockAborted(t) ==
    /\ Goes(t, "lockAborted", IF holder = None THEN "lock" ELSE "stop")
    /\ priority' =
        [u \in Tasks |->
            IF u # holder THEN priority[u]
            ELSE CHOOSE p \in {BasePriority[u]} \cup {priority[w] : w \in Waiting("waitLock")} :
                    /\ p >= BasePriority[u]
                    /\ \A w \in Waiting("waitLock") : p >= priority[w]]
    /\ UNCHANGED <<ring, uart, holder, spaceIsFree, locals, halted>>

SpaceAborted(t) ==
    /\ Goes(t, "spaceAborted", IF spaceIsFree = 1 THEN "takeSpace" ELSE "stopAgain")
    /\ UNCHANGED <<ring, uart, holder, spaceIsFree, locals, priority, halted>>

-----------------------------------------------------------------------------
\* While no packet arrives.
QuietNext ==
    \/ \E t \in Tasks : Put(t) \/ \E n \in Lengths : Call(t, n)
    \/ TransmitInterrupt

Next ==
    \/ QuietNext
    \/ PacketInterrupt
    \/ \E t \in Tasks : LockAborted(t) \/ SpaceAborted(t)

QuietSpec == Init /\ [][QuietNext]_vars

Spec == Init /\ [][Next]_vars

\* The scheduler runs a ready task of the highest priority, and the USART keeps
\* sending.  Nobody has to call.
QuietFairSpec ==
    /\ QuietSpec
    /\ \A t \in Tasks : WF_vars(Put(t))
    /\ WF_vars(TransmitInterrupt)

-----------------------------------------------------------------------------
(* Properties.                                                             *)

Labels == {"elsewhere", "lock", "waitLock", "lockAborted", "stop", "space", "write",
           "start", "takeSpace", "waitSpace", "spaceAborted", "stopAgain",
           "unlock"}
Bytes == [task : Tasks \cup {None}, left : Nat]

\* Every variable keeps its type.
TypeOK ==
    /\ buffer \in [Slots -> Bytes]
    /\ head \in Slots
    /\ tail \in Slots
    /\ requested \in 0..DBG_BUFFER_SPACE
    /\ sending \in BOOLEAN
    /\ holder \in Tasks \cup {None}
    /\ spaceIsFree \in {0, 1}
    /\ pc \in [Tasks -> Labels]
    /\ length \in [Tasks -> Nat]
    /\ writeLength \in [Tasks -> Slots]
    /\ priority \in [Tasks -> Nat]
    /\ halted \in BOOLEAN

Putting == {"stop", "space", "write", "start", "takeSpace", "waitSpace",
            "spaceAborted", "stopAgain", "unlock"}

\* "Mutex to prevent concurrent writes to print buffer": whoever puts a string
\* holds the mutex, so two tasks never do it together.
HolderPuts == \A t \in Tasks : pc[t] \in Putting => holder = t

\* "This function puts a string into the print buffer, taking care to not
\* exceed the buffer's free space."
FitsInFreeSpace == \A t \in Tasks : pc[t] = "write" => writeLength[t] <= FreeSpace

\* A task waits for space without limit, so its request must be one that the
\* bytes in the buffer can meet ("requesting more buffer space than is
\* currently used in will cause [the wait] to never return"), and no semaphore
\* left over from an earlier request may end the wait too soon.
RequestCanBeMet ==
    \A t \in Tasks : pc[t] \in {"takeSpace", "waitSpace"} =>
        IF requested > 0
        THEN spaceIsFree = 0 /\ requested <= Used /\ sending
        ELSE spaceIsFree = 1 /\ pc[t] = "takeSpace" /\ writeLength[t] <= FreeSpace

\* Priority inheritance: while a task waits for the mutex and its holder could
\* run, no other task with a lower priority than the waiting one does.
NoInversion ==
    [][\A t, u \in Tasks :
        /\ pc[t] = "waitLock"
        /\ holder # None => Ready(holder)
        /\ BasePriority[u] < BasePriority[t]
        /\ Ready(u) /\ holder # u
        => pc'[u] = pc[u] /\ length'[u] = length[u]]_vars

\* xTaskPriorityDisinherit: "if a mutex is given by the holding task then it
\* must be the running state task", configASSERT( pxTCB == pxCurrentTCB ).  A
\* failed assertion disables the interrupts and stops the controller.
AssertionsHold == ~halted

-----------------------------------------------------------------------------
(* The ring buffer, the mutex and the requests implement a stream of bytes. *)

Slot(i) == IF i < DBG_BUFFER_SIZE THEN i ELSE i - DBG_BUFFER_SIZE

InBuffer == [i \in 1..Used |-> buffer[Slot(tail + i - 1)]]
LastPut == buffer[Slot(head + DBG_BUFFER_SPACE)]

StringBytes == {Byte(t, n) : t \in Tasks, n \in UNION {0..(k - 1) : k \in Lengths}}

Stream == INSTANCE ByteStream
    WITH Bytes <- StringBytes, Capacity <- DBG_BUFFER_SPACE,
         pending <- InBuffer, last <- LastPut

\* Whatever the tasks preempt, strings are put and sent whole and in order, and
\* nothing is sent that was not put.
ImplementsByteStream == Stream!StreamSafety

\* And what is put is sent in the end: the interrupt is never left switched off.
ImplementsFairByteStream == Stream!StreamSpec

\* The task with the highest priority gets its strings out, whoever had begun
\* to print before.
RemotePrints == pc[Remote] # "elsewhere" ~> pc[Remote] = "elsewhere"
=============================================================================
