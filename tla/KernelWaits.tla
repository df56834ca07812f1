------------------------------ MODULE KernelWaits ------------------------------
(***************************************************************************)
(* How the kernel lets a task wait: vTaskDelay, vTaskSuspend and the       *)
(* blocking receive of a queue or semaphore, with the tick interrupt and   *)
(* the interrupts of this program, which give a semaphore (debug output),  *)
(* resume a task (output timer) and abort a wait (radio).                  *)
(*                                                                         *)
(* A task or an interrupt is interrupted anywhere but in a critical        *)
(* section, so each of these is one action.  Which of the ready tasks runs *)
(* is left open: whatever the priorities and however late a yield comes,   *)
(* the behaviour is one of these.  A list is the set of the tasks on it;   *)
(* the wake times and the priorities say in which order they stand.        *)
(*                                                                         *)
(* The radio interrupt takes items out of lists that another task may be   *)
(* in the middle of.  That can link an item to the wrong list; from then   *)
(* on the kernel takes one list's entries for another's, and the model     *)
(* ends.                                                                   *)
(***************************************************************************)
EXTENDS Integers, FiniteSets

CONSTANTS
    Tasks,
    configMAX_PRIORITIES,
    Priority,           \* uxPriority, another one for every task
    Delayers,           \* tasks that call vTaskDelay,
    Sleepers,           \* that suspend themselves,
    Receivers,          \* that receive from the queue
    Abortable,          \* tasks the radio interrupt aborts the wait of
    uxLength,           \* of the queue
    Waits,              \* the limited waits asked for
    TickModulus,        \* TickType_t holds 0..TickModulus-1
    OverflowModulus,    \* and xNumOfOverflows 0..OverflowModulus-1
    PendLimit,          \* ticks the scheduler is suspended for at most
    HoldUp              \* ticks a task may be held up after its wait is over

portMAX_DELAY == TickModulus - 1

ASSUME TaskAssumption ==
    /\ IsFiniteSet(Tasks)
    /\ configMAX_PRIORITIES \in Nat \ {0}
    /\ Priority \in [Tasks -> 0..(configMAX_PRIORITIES - 1)]
    /\ \A t, u \in Tasks : Priority[t] = Priority[u] => t = u
    /\ Delayers \subseteq Tasks /\ Sleepers \subseteq Tasks
    /\ Receivers \subseteq Tasks /\ Abortable \subseteq Tasks
    /\ uxLength \in Nat \ {0}

\* No wait, with all that comes after it, takes longer than a round of the tick
\* counter (eight months).
ASSUME TickAssumption ==
    /\ TickModulus \in Nat \ {0}
    /\ OverflowModulus \in Nat \ {0, 1}
    /\ PendLimit \in Nat
    /\ HoldUp \in Nat
    /\ Waits \subseteq 1..(portMAX_DELAY - 1)
    /\ \A n \in Waits : n + HoldUp <= TickModulus

VARIABLES
    xTickCount, xNumOfOverflows, xNextTaskUnblockTime, uxPendedTicks,
    list,               \* the list a task's xStateListItem is in, or "stray"
    wake,               \* and its item value, where that is a wake time
    event,              \* the list its xEventListItem is in
    ucDelayAborted,
    uxMessagesWaiting, cTxLock,
    pc,                 \* where a task is
    xTicksToWait, xTimeOut,     \* of the present receive
    place,              \* where vListInsert is about to link the running task's item
    after,              \* where that task goes on when it resumes the scheduler
    asked,              \* (history) the ticks asked for in the present call
    elapsed             \* (history) and the tick interrupts since it began

tickVars == <<xTickCount, xNumOfOverflows, xNextTaskUnblockTime, uxPendedTicks>>
listVars == <<list, wake, event, ucDelayAborted>>
queueVars == <<uxMessagesWaiting, cTxLock>>
timeoutVars == <<xTicksToWait, xTimeOut>>
placeVars == <<place, after>>
history == <<asked, elapsed>>
vars == <<tickVars, listVars, queueVars, pc, timeoutVars, placeVars, history>>

queueUNLOCKED == -1
queueLOCKED_UNMODIFIED == 0
NoTimeOut == [time |-> 0, overflows |-> 0]
Nowhere == [list |-> "none", members |-> {}]

Init ==
    /\ xTickCount = 0 /\ xNumOfOverflows = 0
    /\ xNextTaskUnblockTime = portMAX_DELAY /\ uxPendedTicks = 0
    /\ list = [t \in Tasks |-> "ready"]
    /\ wake = [t \in Tasks |-> 0]
    /\ event = [t \in Tasks |-> "none"]
    /\ ucDelayAborted = [t \in Tasks |-> FALSE]
    /\ uxMessagesWaiting = 0 /\ cTxLock = queueUNLOCKED
    /\ pc = [t \in Tasks |-> "run"]
    /\ xTicksToWait = [t \in Tasks |-> 0]
    /\ xTimeOut = [t \in Tasks |-> NoTimeOut]
    /\ place = Nowhere /\ after = "run"
    /\ asked = [t \in Tasks |-> 0]
    /\ elapsed = [t \in Tasks |-> 0]

-----------------------------------------------------------------------------
(* The scheduler.                                                          *)

\* The stretch between vTaskSuspendAll and xTaskResumeAll.
SuspendedPcs == {"check", "test", "enlist", "link", "unlock", "waking", "resume", "ticking"}

\* Loops that run with the interrupts off.
InCritical == \E t \in Tasks : pc[t] \in {"waking", "ticking"}

\* uxSchedulerSuspended: one task at a time has suspended it.
SchedulerSuspended == \E t \in Tasks : pc[t] \in SuspendedPcs

Goes(t, from, to) ==
    /\ pc[t] = from
    /\ from \notin SuspendedPcs => list[t] = "ready" /\ ~SchedulerSuspended
    /\ pc' = [pc EXCEPT ![t] = to]

On(l) == {t \in Tasks : list[t] = l}
xTasksWaitingToReceive == {t \in Tasks : event[t] = "queue"}
xPendingReadyList == {t \in Tasks : event[t] = "pending"}

\* The item value of a task's xEventListItem, and the head of the event list.
EventItemValue(t) == configMAX_PRIORITIES - Priority[t]
HighestWaiting ==
    CHOOSE t \in xTasksWaitingToReceive :
        \A u \in xTasksWaitingToReceive : EventItemValue(t) <= EventItemValue(u)

\* prvResetNextTaskUnblockTime: the first wake time among some tasks.
FirstWake(delayed) ==
    IF delayed = {} THEN portMAX_DELAY
    ELSE CHOOSE w \in {wake[t] : t \in delayed} : \A t \in delayed : w <= wake[t]

\* TickType_t arithmetic.
Plus(tick, n) == IF tick + n >= TickModulus THEN tick + n - TickModulus ELSE tick + n
Minus(tick, n) == IF tick < n THEN tick - n + TickModulus ELSE tick - n

\* That of xNumOfOverflows.
OneMore(n) == IF n + 1 = OverflowModulus THEN 0 ELSE n + 1

-----------------------------------------------------------------------------
(* Lists.                                                                  *)

MembersOf(l) == IF l = "queue" THEN xTasksWaitingToReceive ELSE On(l)

\* An item is linked behind one of another list.
Stray == \E t \in Tasks : "stray" \in {list[t], event[t]}

\* The item will be linked into this list, as it is now.
PlaceIn(l) == place' = [list |-> l, members |-> MembersOf(l)]

\* Faulty variant of DelayedListFor: a wake time beyond the overflow not told apart.
DelayedListIgnoringOverflow(timeToWake) == "delayed"

DelayedListFor(timeToWake) == IF timeToWake < xTickCount THEN "overflow" ELSE "delayed"

\* prvAddCurrentTaskToDelayedList up to the search of vListInsert; a receive may
\* wait without limit.
Placing(t, ticks, canBlockIndefinitely) ==
    LET timeToWake == Plus(xTickCount, ticks)
        forever == canBlockIndefinitely /\ ticks = portMAX_DELAY
    IN  /\ list' = [list EXCEPT ![t] = "none"]
        /\ wake' = [wake EXCEPT ![t] = IF forever THEN wake[t] ELSE timeToWake]
        /\ ucDelayAborted' = [ucDelayAborted EXCEPT ![t] = FALSE]
        /\ PlaceIn(IF forever THEN "suspended" ELSE DelayedListFor(timeToWake))

\* Faulty variant of Link: the next unblock time not brought forward.
LinkOnly(t) ==
    /\ Goes(t, "link", IF event[t] = "queue" THEN "unlock" ELSE "resume")
    /\ list' = [list EXCEPT ![t] = place.list]
    /\ place' = Nowhere
    /\ UNCHANGED <<tickVars, wake, event, ucDelayAborted, queueVars, timeoutVars, after,
                   history>>

\* The rest of vListInsert, and of prvAddCurrentTaskToDelayedList.
Link(t) ==
    /\ Goes(t, "link", IF event[t] = "queue" THEN "unlock" ELSE "resume")
    /\ list' = [list EXCEPT ![t] = place.list]
    /\ xNextTaskUnblockTime' =
        IF place.list = "delayed" /\ wake[t] < xNextTaskUnblockTime
        THEN wake[t] ELSE xNextTaskUnblockTime
    /\ place' = Nowhere
    /\ UNCHANGED <<xTickCount, xNumOfOverflows, uxPendedTicks, wake, event, ucDelayAborted,
                   queueVars, timeoutVars, after, history>>

\* An item that the search of vListInsert went over, or a neighbour of the new
\* one, has been taken out of the list since: the new item is linked behind one
\* that is in a ready list now, or between two of different lists, or the number
\* of items comes out wrong.  That the one taken out stood elsewhere in the list
\* and nothing goes wrong is possible too: the task goes on with Enlist or Link.
LinkAstray(t) ==
    /\ pc[t] \in {"enlist", "link"}
    /\ ~(place.members \subseteq MembersOf(place.list))
    /\ IF place.list = "queue"
       THEN event' = [event EXCEPT ![t] = "stray"] /\ list' = list
       ELSE list' = [list EXCEPT ![t] = "stray"] /\ event' = event
    /\ UNCHANGED <<tickVars, wake, ucDelayAborted, queueVars, pc, timeoutVars, placeVars,
                   history>>

\* Some tasks' items go to the ready lists, or out of an event list.
Ready(tasks) ==
    /\ list' = [t \in Tasks |-> IF t \in tasks THEN "ready" ELSE list[t]]
    /\ wake' = [t \in Tasks |-> IF t \in tasks THEN 0 ELSE wake[t]]
Released(tasks) == [t \in Tasks |-> IF t \in tasks THEN "none" ELSE event[t]]

\* xTaskRemoveFromEventList of the queue's list.
WakeReceiver ==
    LET t == HighestWaiting
    IN  IF SchedulerSuspended
        THEN event' = [event EXCEPT ![t] = "pending"] /\ UNCHANGED <<list, wake>>
        ELSE event' = Released({t}) /\ Ready({t})

-----------------------------------------------------------------------------
(* Ticks.                                                                  *)

\* taskSWITCH_DELAYED_LISTS.
Switched(l) ==
    IF l = "delayed" THEN "overflow" ELSE IF l = "overflow" THEN "delayed" ELSE l

\* xTaskIncrementTick while the scheduler is not suspended.
IncrementTick ==
    LET tick == Plus(xTickCount, 1)
        wraps == tick = 0
        lists == [t \in Tasks |-> IF wraps THEN Switched(list[t]) ELSE list[t]]
        delayed == {t \in Tasks : lists[t] = "delayed"}
        next == IF wraps THEN FirstWake(delayed) ELSE xNextTaskUnblockTime
        due == IF tick >= next THEN {t \in delayed : wake[t] <= tick} ELSE {}
    IN  /\ xTickCount' = tick
        /\ xNumOfOverflows' = IF wraps THEN OneMore(xNumOfOverflows) ELSE xNumOfOverflows
        /\ list' = [t \in Tasks |-> IF t \in due THEN "ready" ELSE lists[t]]
        /\ wake' = [t \in Tasks |-> IF t \in due THEN 0 ELSE wake[t]]
        /\ event' = Released(due)
        /\ xNextTaskUnblockTime' = IF tick >= next THEN FirstWake(delayed \ due) ELSE next
        /\ UNCHANGED ucDelayAborted

Limited(t) == asked[t] \in 1..(portMAX_DELAY - 1)

\* The tick interrupt.  It comes while no task is held up for too long.
TickInterrupt ==
    /\ ~InCritical
    /\ \A t \in Tasks : Limited(t) => elapsed[t] < asked[t] + HoldUp
    /\ IF SchedulerSuspended
       THEN /\ uxPendedTicks < PendLimit
            /\ uxPendedTicks' = uxPendedTicks + 1
            /\ UNCHANGED <<xTickCount, xNumOfOverflows, xNextTaskUnblockTime, listVars>>
       ELSE IncrementTick /\ UNCHANGED uxPendedTicks
    /\ elapsed' = [t \in Tasks |-> IF Limited(t) THEN elapsed[t] + 1 ELSE elapsed[t]]
    /\ UNCHANGED <<queueVars, pc, timeoutVars, placeVars, asked>>

\* xTaskResumeAll: what interrupts made ready, then the ticks that were missed.
ResumeAll(t) ==
    /\ Goes(t, "resume", IF uxPendedTicks > 0 THEN "ticking" ELSE after)
    /\ Ready(xPendingReadyList)
    /\ event' = Released(xPendingReadyList)
    /\ xNextTaskUnblockTime' =
        IF xPendingReadyList = {} THEN xNextTaskUnblockTime
        ELSE FirstWake(On("delayed") \ xPendingReadyList)
    /\ after' = IF uxPendedTicks > 0 THEN after ELSE "run"
    /\ UNCHANGED <<xTickCount, xNumOfOverflows, uxPendedTicks, ucDelayAborted, queueVars,
                   timeoutVars, place, history>>

\* One round of its loop over the pended ticks.
CatchUp(t) ==
    /\ Goes(t, "ticking", IF uxPendedTicks > 1 THEN "ticking" ELSE after)
    /\ IncrementTick
    /\ uxPendedTicks' = uxPendedTicks - 1
    /\ after' = IF uxPendedTicks > 1 THEN after ELSE "run"
    /\ UNCHANGED <<queueVars, timeoutVars, place, history>>

-----------------------------------------------------------------------------
(* The other interrupts.                                                   *)

\* xQueueGiveFromISR.
GiveFromISR ==
    /\ ~InCritical
    /\ uxMessagesWaiting < uxLength
    /\ uxMessagesWaiting' = uxMessagesWaiting + 1
    /\ IF cTxLock # queueUNLOCKED
       THEN cTxLock' = cTxLock + 1 /\ UNCHANGED <<list, wake, event>>
       ELSE /\ cTxLock' = cTxLock
            /\ IF xTasksWaitingToReceive = {} THEN UNCHANGED <<list, wake, event>>
               ELSE WakeReceiver
    /\ UNCHANGED <<tickVars, ucDelayAborted, pc, timeoutVars, placeVars, history>>

\* xTaskResumeFromISR.
ResumeFromISR(t) ==
    /\ ~InCritical
    /\ t \in Sleepers /\ list[t] = "suspended" /\ event[t] = "none"
    /\ IF SchedulerSuspended
       THEN event' = [event EXCEPT ![t] = "pending"] /\ UNCHANGED <<list, wake>>
       ELSE Ready({t}) /\ event' = event
    /\ UNCHANGED <<tickVars, ucDelayAborted, queueVars, pc, timeoutVars, placeVars, history>>

\* eTaskGetState says eBlocked; the running task is eRunning, wherever its item is.
Blocked(t) ==
    /\ pc[t] \notin SuspendedPcs
    /\ \/ list[t] \in {"delayed", "overflow"}
       \/ list[t] = "suspended" /\ event[t] # "none"

\* xTaskAbortDelay, called from the radio interrupt.  It resumes the scheduler
\* only as far as it has suspended it.
AbortDelay(t) ==
    /\ ~InCritical
    /\ t \in Abortable /\ Blocked(t)
    /\ Ready({t})
    /\ event' = Released({t})
    /\ ucDelayAborted' = [ucDelayAborted EXCEPT ![t] = @ \/ event[t] # "none"]
    /\ UNCHANGED <<tickVars, queueVars, pc, timeoutVars, placeVars, history>>

-----------------------------------------------------------------------------
(* What tasks call.                                                        *)

\* vTaskSuspendAll and xTaskResumeAll, around an access to the radio.
SuspendAll(t) ==
    /\ Goes(t, "run", "resume")
    /\ after' = "run"
    /\ UNCHANGED <<tickVars, listVars, queueVars, timeoutVars, place, history>>

\* vTaskSuspend(NULL), with the reset of the next unblock time that follows.
Suspend(t) ==
    /\ t \in Sleepers
    /\ Goes(t, "run", "run")
    /\ list' = [list EXCEPT ![t] = "suspended"]
    /\ xNextTaskUnblockTime' = FirstWake(On("delayed"))
    /\ UNCHANGED <<xTickCount, xNumOfOverflows, uxPendedTicks, wake, event, ucDelayAborted,
                   queueVars, timeoutVars, placeVars, history>>

\* A call with a wait begins, or ends.
Asks(t, n) ==
    /\ asked' = [asked EXCEPT ![t] = n]
    /\ elapsed' = [elapsed EXCEPT ![t] = 0]

\* vTaskDelay, with the scheduler suspended until it is resumed.
Delay(t) ==
    /\ t \in Delayers
    /\ Goes(t, "run", "link")
    /\ \E n \in Waits : Placing(t, n, FALSE) /\ Asks(t, n)
    /\ after' = "delaying"
    /\ UNCHANGED <<tickVars, event, queueVars, timeoutVars>>

DelayReturns(t) ==
    /\ Goes(t, "delaying", "run")
    /\ Asks(t, 0)
    /\ UNCHANGED <<tickVars, listVars, queueVars, timeoutVars, placeVars>>

\* xQueueSend without a wait.
Send(t) ==
    /\ Goes(t, "run", "run")
    /\ uxMessagesWaiting < uxLength
    /\ uxMessagesWaiting' = uxMessagesWaiting + 1
    /\ IF xTasksWaitingToReceive = {} THEN UNCHANGED <<list, wake, event>> ELSE WakeReceiver
    /\ UNCHANGED <<tickVars, ucDelayAborted, cTxLock, timeoutVars, placeVars, history>>

\* The local variables of a receive are gone.
ReceiveReturns(t) ==
    /\ Asks(t, 0)
    /\ xTicksToWait' = [xTicksToWait EXCEPT ![t] = 0]
    /\ xTimeOut' = [xTimeOut EXCEPT ![t] = NoTimeOut]

\* xQueueReceive takes a message, at its first attempt or a later one.
Take(t) ==
    /\ t \in Receivers
    /\ uxMessagesWaiting > 0
    /\ Goes(t, "run", "run") \/ Goes(t, "again", "run")
    /\ uxMessagesWaiting' = uxMessagesWaiting - 1
    /\ ReceiveReturns(t)
    /\ UNCHANGED <<tickVars, listVars, cTxLock, placeVars>>

TimeOutNow == [time |-> xTickCount, overflows |-> xNumOfOverflows]

\* There is none: the first attempt notes the time.
ReceiveWaits(t) ==
    /\ t \in Receivers
    /\ uxMessagesWaiting = 0
    /\ Goes(t, "run", "lock")
    /\ \E n \in Waits \cup {portMAX_DELAY} :
        /\ Asks(t, n)
        /\ xTicksToWait' = [xTicksToWait EXCEPT ![t] = n]
    /\ xTimeOut' = [xTimeOut EXCEPT ![t] = TimeOutNow]
    /\ UNCHANGED <<tickVars, listVars, queueVars, placeVars>>

WaitsAgain(t) ==
    /\ Goes(t, "again", "lock")
    /\ uxMessagesWaiting = 0 /\ xTicksToWait[t] > 0
    /\ UNCHANGED <<tickVars, listVars, queueVars, timeoutVars, placeVars, history>>

\* vTaskSuspendAll and prvLockQueue.
Lock(t) ==
    /\ Goes(t, "lock", "check")
    /\ cTxLock' = queueLOCKED_UNMODIFIED
    /\ UNCHANGED <<tickVars, listVars, uxMessagesWaiting, timeoutVars, placeVars, history>>

ElapsedTime(t) == Minus(xTickCount, xTimeOut[t].time)

\* Faulty variant of RoundPassed: any overflow taken for a whole round.
OverflowPassed(t) == xNumOfOverflows # xTimeOut[t].overflows

\* The tick counter has wrapped and gone past the time noted.
RoundPassed(t) ==
    /\ xNumOfOverflows # xTimeOut[t].overflows
    /\ xTickCount >= xTimeOut[t].time

Forever(t) == xTicksToWait[t] = portMAX_DELAY
TimedOut(t) == ~Forever(t) /\ (RoundPassed(t) \/ ElapsedTime(t) >= xTicksToWait[t])
Expired(t) == ucDelayAborted[t] \/ TimedOut(t)

\* xTaskCheckForTimeOut.
CheckForTimeOut(t) ==
    /\ Goes(t, "check", IF Expired(t) THEN "unlock" ELSE "test")
    /\ after' = IF Expired(t) THEN "gaveUp" ELSE "again"
    /\ ucDelayAborted' = [ucDelayAborted EXCEPT ![t] = FALSE]
    /\ xTicksToWait' = [xTicksToWait EXCEPT ![t] =
        IF Forever(t) \/ ucDelayAborted[t] \/ RoundPassed(t) THEN @
        ELSE IF TimedOut(t) THEN 0 ELSE @ - ElapsedTime(t)]
    /\ xTimeOut' = IF Forever(t) \/ Expired(t) THEN xTimeOut
                   ELSE [xTimeOut EXCEPT ![t] = TimeOutNow]
    /\ UNCHANGED <<tickVars, list, wake, event, queueVars, place, history>>

\* Faulty variant of TestEmpty: the test before the queue was locked is relied on.
EnlistUntested(t) ==
    /\ Goes(t, "test", "enlist")
    /\ PlaceIn("queue")
    /\ UNCHANGED <<tickVars, listVars, queueVars, timeoutVars, after, history>>

\* prvIsQueueEmpty, and vTaskPlaceOnEventList up to the search of vListInsert.
TestEmpty(t) ==
    /\ Goes(t, "test", IF uxMessagesWaiting = 0 THEN "enlist" ELSE "unlock")
    /\ IF uxMessagesWaiting = 0 THEN PlaceIn("queue") ELSE UNCHANGED place
    /\ UNCHANGED <<tickVars, listVars, queueVars, timeoutVars, after, history>>

\* It is linked into the event list, and its place among the delayed tasks found.
Enlist(t) ==
    /\ Goes(t, "enlist", "link")
    /\ event' = [event EXCEPT ![t] = "queue"]
    /\ Placing(t, xTicksToWait[t], TRUE)
    /\ UNCHANGED <<tickVars, queueVars, timeoutVars, after, history>>

\* prvUnlockQueue: for every message that came while the queue was locked, a
\* receiver is woken as long as there are any.
Unlock(t) ==
    /\ Goes(t, "unlock", "waking")
    /\ UNCHANGED <<tickVars, listVars, queueVars, timeoutVars, placeVars, history>>

UnlockWakes(t) ==
    /\ Goes(t, "waking", "waking")
    /\ cTxLock > queueLOCKED_UNMODIFIED /\ xTasksWaitingToReceive # {}
    /\ WakeReceiver
    /\ cTxLock' = cTxLock - 1
    /\ UNCHANGED <<tickVars, ucDelayAborted, uxMessagesWaiting, timeoutVars, placeVars,
                   history>>

UnlockEnds(t) ==
    /\ Goes(t, "waking", "resume")
    /\ cTxLock = queueLOCKED_UNMODIFIED \/ xTasksWaitingToReceive = {}
    /\ cTxLock' = queueUNLOCKED
    /\ UNCHANGED <<tickVars, listVars, uxMessagesWaiting, timeoutVars, placeVars, history>>

\* The wait is over: errQUEUE_EMPTY, unless there is a message after all, which
\* another task may take first.
GivesUp(t) ==
    /\ \/ Goes(t, "gaveUp", "run")
       \/ Goes(t, "again", "run") /\ xTicksToWait[t] = 0
    /\ uxMessagesWaiting = 0
    /\ ReceiveReturns(t)
    /\ UNCHANGED <<tickVars, listVars, queueVars, placeVars>>

TriesOnce(t) ==
    /\ Goes(t, "gaveUp", "again")
    /\ uxMessagesWaiting > 0
    /\ UNCHANGED <<tickVars, listVars, queueVars, timeoutVars, placeVars, history>>

-----------------------------------------------------------------------------
Receive(t) ==
    \/ Take(t) \/ ReceiveWaits(t) \/ WaitsAgain(t) \/ Lock(t) \/ CheckForTimeOut(t)
    \/ TestEmpty(t) \/ Enlist(t) \/ Unlock(t) \/ UnlockWakes(t) \/ UnlockEnds(t)
    \/ GivesUp(t) \/ TriesOnce(t)

TaskStep(t) ==
    \/ SuspendAll(t) \/ ResumeAll(t) \/ CatchUp(t) \/ Suspend(t)
    \/ Delay(t) \/ Link(t) \/ DelayReturns(t) \/ Send(t) \/ Receive(t)

Interrupt == TickInterrupt \/ GiveFromISR \/ \E t \in Tasks : ResumeFromISR(t) \/ AbortDelay(t)

Next ==
    /\ ~Stray
    /\ Interrupt \/ \E t \in Tasks : TaskStep(t) \/ LinkAstray(t)

Spec == Init /\ [][Next]_vars

-----------------------------------------------------------------------------
(* Properties.                                                             *)

Pos(n) == IF n > 0 THEN n ELSE 0

\* Receivers that will look into the queue once more before they wait or give up.
OnTheWay ==
    {t \in Tasks : /\ event[t] # "queue"
                   /\ \/ pc[t] \in {"lock", "again", "gaveUp", "check", "test", "unlock", "waking"}
                      \/ pc[t] \in {"resume", "ticking"} /\ after \in {"again", "gaveUp"}}

\* No wake-up is lost: while a task waits for a message, every message in the
\* queue is one that a receiver on its way will take, or one the lock has counted.
\* Like the next three, this holds until an item goes astray.
NoLostWakeup ==
    ~Stray /\ xTasksWaitingToReceive # {} =>
        uxMessagesWaiting <= Cardinality(OnTheWay) + Pos(cTxLock)

\* No wait is late: a waiting task has waited less than it asked for, but for the
\* ticks that are still to be processed.
NeverLate ==
    ~Stray => \A t \in Tasks : list[t] \in {"delayed", "overflow"} =>
                elapsed[t] - uxPendedTicks < asked[t]

\* No wait is cut short, across any overflow of the tick counter: a call that
\* returns without a message has waited as long as it asked for, unless the
\* radio interrupt has aborted it.
NeverEarly ==
    [][~Stray => \A t \in Tasks \ Abortable :
        pc[t] # "run" /\ pc'[t] = "run" /\ uxMessagesWaiting' = uxMessagesWaiting =>
            elapsed[t] >= asked[t]]_vars

\* "The delayed tasks list should be empty when the lists are switched."
SwitchedListEmpty == ~Stray /\ xTickCount = portMAX_DELAY => On("delayed") = {}

\* "An interrupt won't touch the xStateListItem because the scheduler is
\* suspended", and the queue of an event list "is locked, preventing simultaneous
\* access from interrupts": a task links its item into the list it has searched.
\* The radio interrupt breaks this.
PlaceHolds ==
    \A t \in Tasks : pc[t] \in {"enlist", "link"} => MembersOf(place.list) = place.members
=============================================================================
