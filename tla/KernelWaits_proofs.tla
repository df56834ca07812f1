-------------------------- MODULE KernelWaits_proofs --------------------------
(***************************************************************************)
(* Proofs about KernelWaits, for any tasks, priorities, waits, length of   *)
(* the queue and width of the tick counter.                                *)
(*                                                                         *)
(* A step is regular unless it links an item astray, which is the last one *)
(* (UntilAstray).  Structure says who may be where while the scheduler is  *)
(* suspended or the queue locked, and in which lists a task is at each     *)
(* place of its code; every regular step keeps it (the lemmas named        *)
(* ...Structure).  With it every regular step keeps PlaceKept, WakeupsKept *)
(* (...Wakeup) and Waiting, which relates wake times, times noted and      *)
(* ticks spent (...Waits).  The properties follow.                         *)
(***************************************************************************)
EXTENDS KernelWaits, FiniteSetTheorems, WellFoundedInduction, TLAPS

Regular == Interrupt \/ \E t \in Tasks : TaskStep(t)

Pcs == {"run", "link", "delaying", "lock", "check", "test", "enlist", "unlock", "waking",
        "resume", "ticking", "again", "gaveUp"}
Ticks == 0..portMAX_DELAY
Overflows == 0..(OverflowModulus - 1)

Lists == {"ready", "delayed", "overflow", "suspended", "none"}

TypeOK ==
    /\ xTickCount \in Ticks /\ xNumOfOverflows \in Overflows
    /\ xNextTaskUnblockTime \in Ticks /\ uxPendedTicks \in 0..PendLimit
    /\ list \in [Tasks -> Lists]
    /\ wake \in [Tasks -> Ticks]
    /\ event \in [Tasks -> {"none", "queue", "pending"}]
    /\ ucDelayAborted \in [Tasks -> BOOLEAN]
    /\ uxMessagesWaiting \in 0..uxLength
    /\ cTxLock \in Int /\ cTxLock >= queueUNLOCKED
    /\ pc \in [Tasks -> Pcs]
    /\ xTicksToWait \in [Tasks -> Ticks]
    /\ xTimeOut \in [Tasks -> [time : Ticks, overflows : Overflows]]
    /\ place \in [list : {"none", "queue", "delayed", "overflow", "suspended"},
                  members : SUBSET Tasks]
    /\ after \in {"run", "delaying", "again", "gaveUp"}
    /\ asked \in [Tasks -> Ticks]
    /\ elapsed \in [Tasks -> Nat]

\* One task at a time has suspended the scheduler.
OneSuspends == \A t, u \in Tasks : pc[t] \in SuspendedPcs /\ pc[u] \in SuspendedPcs => t = u

\* A task is at this place, or will be when it has unlocked the queue and resumed
\* the scheduler.
At(t, where) ==
    pc[t] = where \/ (pc[t] \in {"unlock", "waking", "resume", "ticking"} /\ after = where)

Receiving(t) ==
    \/ pc[t] \in {"lock", "check", "test", "enlist"}
    \/ At(t, "again") \/ At(t, "gaveUp")
    \/ pc[t] = "link" /\ event[t] = "queue"
Delaying(t) == At(t, "delaying") \/ (pc[t] = "link" /\ event[t] = "none")

\* The lists a task can be in at each place.
Listed(t) ==
    /\ list[t] = "none" <=> pc[t] = "link"
    /\ list[t] = "ready" => event[t] = "none"
    /\ At(t, "run") => list[t] \in {"ready", "suspended"} /\ event[t] # "queue"
    /\ Delaying(t) => list[t] # "suspended" /\ event[t] = "none"
    /\ pc[t] \in {"lock", "check", "test", "enlist"} \/ At(t, "gaveUp") => list[t] = "ready"
    /\ At(t, "again") => (event[t] = "none" <=> list[t] = "ready")
    /\ pc[t] = "link" =>
        /\ event[t] \in {"none", "queue"}
        /\ place.list \in {"delayed", "overflow", "suspended"}
        /\ event[t] = "none" => place.list # "suspended"
        /\ after = IF event[t] = "queue" THEN "again" ELSE "delaying"
    /\ pc[t] \in {"test", "enlist"} => after = "again"
    /\ pc[t] \in {"unlock", "waking"} => after \in {"again", "gaveUp"}
    /\ pc[t] = "enlist" => place.list = "queue"
ListedWell == \A t \in Tasks : Listed(t)

\* The queue is locked by the task that works on it.
LockingPcs == {"check", "test", "enlist", "unlock", "waking"}
Locks(t) == pc[t] \in LockingPcs \/ (pc[t] = "link" /\ event[t] = "queue")
LockHeld ==
    /\ cTxLock # queueUNLOCKED <=> \E t \in Tasks : Locks(t)
    /\ \A t \in Tasks : pc[t] = "enlist" => uxMessagesWaiting <= cTxLock

\* What is left over for a suspended scheduler.
PendingHeld ==
    /\ \A t \in Tasks : event[t] = "pending" =>
        \E u \in Tasks : pc[u] \in SuspendedPcs \ {"ticking"}
    /\ uxPendedTicks > 0 => SchedulerSuspended
    /\ \A t \in Tasks : pc[t] = "ticking" => uxPendedTicks > 0

Structure == TypeOK /\ OneSuspends /\ ListedWell /\ LockHeld /\ PendingHeld

-----------------------------------------------------------------------------
\* The ticks of a wait that have been processed, and those still to come.
Spent(t) == elapsed[t] - uxPendedTicks
ListOf(t) == IF pc[t] = "link" THEN place.list ELSE list[t]
TicksLeft(t) == wake[t] - xTickCount + (IF ListOf(t) = "overflow" THEN TickModulus ELSE 0)

\* A delayed task is in the list of its wake time, and has waited for what is not left.
Delayed(t) ==
    /\ ListOf(t) = "delayed" => xTickCount < wake[t]
    /\ ListOf(t) = "overflow" => wake[t] < xTickCount
    /\ list[t] = "delayed" => xNextTaskUnblockTime <= wake[t]
    /\ ListOf(t) \in {"delayed", "overflow"} =>
        Limited(t) /\ Spent(t) + TicksLeft(t) = asked[t]

\* Ticks since xTimeOut was noted.
Since(t) == Spent(t) - (asked[t] - xTicksToWait[t])

\* The time noted is the present one less those ticks.
NotedThen(t) ==
    LET sum == xTimeOut[t].time + Since(t)
    IN  /\ Since(t) \in 0..TickModulus
        /\ IF sum < TickModulus
           THEN xTickCount = sum /\ xNumOfOverflows = xTimeOut[t].overflows
           ELSE xTickCount = sum - TickModulus /\ xNumOfOverflows = OneMore(xTimeOut[t].overflows)

Noted(t) ==
    /\ At(t, "run") => asked[t] = 0
    /\ Delaying(t) => Limited(t)
    /\ Limited(t) => elapsed[t] <= TickModulus /\ asked[t] + HoldUp <= TickModulus
    /\ Receiving(t) =>
        \/ Limited(t) /\ xTicksToWait[t] <= asked[t]
        \/ asked[t] = portMAX_DELAY /\ xTicksToWait[t] = portMAX_DELAY
    /\ Receiving(t) /\ Limited(t) /\ xTicksToWait[t] > 0 => NotedThen(t)
    /\ pc[t] \in {"test", "enlist"} /\ Limited(t) =>
        xTicksToWait[t] > 0 /\ xTicksToWait[t] + Spent(t) = asked[t]

\* A wait that is over has lasted long enough, unless it was aborted.
Over(t) ==
    t \notin Abortable =>
        /\ ~ucDelayAborted[t]
        /\ At(t, "delaying") /\ list[t] = "ready" => elapsed[t] >= asked[t]
        /\ At(t, "gaveUp") => Limited(t) /\ elapsed[t] >= asked[t]
        /\ Receiving(t) /\ xTicksToWait[t] = 0 => elapsed[t] >= asked[t]

WaitsWell(t) == Delayed(t) /\ Noted(t) /\ Over(t)
Waiting == \A t \in Tasks : WaitsWell(t)

-----------------------------------------------------------------------------
(* The least of some numbers, and what rests on it.                        *)

LEMMA NatHasMinimum ==
    ASSUME NEW S \in SUBSET Nat, S # {}
    PROVE  \E m \in S : \A n \in S : m <= n
<1>1. PICK m \in S : \A n \in S : ~(<<n, m>> \in OpToRel(<, Nat))
  BY WFMin, NatLessThanWellFounded, Zenon
<1>2. \A n \in S : ~(n < m)
  BY <1>1, Zenon DEF OpToRel
<1>3. QED
  BY <1>2

LEMMA FirstWakeIsFirst ==
    ASSUME wake \in [Tasks -> Ticks], NEW delayed \in SUBSET Tasks
    PROVE  /\ FirstWake(delayed) \in Ticks
           /\ \A t \in delayed : FirstWake(delayed) <= wake[t]
<1>1. CASE delayed = {}
  BY <1>1, TickAssumption DEF FirstWake, Ticks, portMAX_DELAY
<1>2. CASE delayed # {}
  <2> DEFINE W == {wake[t] : t \in delayed}
  <2>1. W \subseteq Ticks /\ W # {} /\ W \subseteq Nat
    BY <1>2, TickAssumption DEF Ticks, portMAX_DELAY
  <2>2. \E w \in W : \A n \in W : w <= n
    BY <2>1, NatHasMinimum
  <2>3. \E w \in W : \A t \in delayed : w <= wake[t]
    BY <2>2
  <2>4. FirstWake(delayed) = CHOOSE w \in W : \A t \in delayed : w <= wake[t]
    BY <1>2 DEF FirstWake
  <2> HIDE DEF W
  <2>5. FirstWake(delayed) \in W /\ \A t \in delayed : FirstWake(delayed) <= wake[t]
    BY <2>3, <2>4
  <2>6. QED
    BY <2>1, <2>5
<1>3. QED
  BY <1>1, <1>2

LEMMA HighestWaitingWaits ==
    ASSUME xTasksWaitingToReceive # {}
    PROVE  HighestWaiting \in xTasksWaitingToReceive
<1> DEFINE V == {EventItemValue(t) : t \in xTasksWaitingToReceive}
<1>1. \A t \in Tasks : EventItemValue(t) \in Nat
  BY TaskAssumption DEF EventItemValue
<1>2. V \in SUBSET Nat /\ V # {}
  BY <1>1 DEF xTasksWaitingToReceive
<1>3. \E v \in V : \A n \in V : v <= n
  BY <1>2, NatHasMinimum
<1>4. \E t \in xTasksWaitingToReceive :
        \A u \in xTasksWaitingToReceive : EventItemValue(t) <= EventItemValue(u)
  BY <1>3
<1>5. QED
  BY <1>4 DEF HighestWaiting

-----------------------------------------------------------------------------
(* What the steps have in common.                                          *)

\* While a task has suspended the scheduler no other one moves; otherwise nothing
\* is left over.
Moved(t, from, to) ==
    /\ pc[t] = from /\ pc' = [pc EXCEPT ![t] = to]
    /\ \A u \in Tasks \ {t} : pc[u] \notin SuspendedPcs /\ pc'[u] = pc[u]
    /\ from \notin SuspendedPcs =>
        /\ list[t] = "ready" /\ ~SchedulerSuspended
        /\ \A u \in Tasks : pc[u] \notin SuspendedPcs /\ event[u] # "pending"
        /\ cTxLock = queueUNLOCKED /\ uxPendedTicks = 0

LEMMA MovesAlone ==
    ASSUME Structure, NEW t \in Tasks, NEW from \in Pcs, NEW to \in Pcs, Goes(t, from, to)
    PROVE  Moved(t, from, to)
<1> USE DEF Structure
<1>1. pc[t] = from /\ pc' = [pc EXCEPT ![t] = to]
  BY DEF Goes
<1>2. \A u \in Tasks \ {t} : pc[u] \notin SuspendedPcs
  BY <1>1 DEF Goes, SchedulerSuspended, OneSuspends
<1>3. \A u \in Tasks \ {t} : pc'[u] = pc[u]
  BY <1>1 DEF TypeOK
<1>4. ASSUME from \notin SuspendedPcs
      PROVE  /\ list[t] = "ready" /\ ~SchedulerSuspended
             /\ \A u \in Tasks : pc[u] \notin SuspendedPcs /\ event[u] # "pending"
             /\ cTxLock = queueUNLOCKED /\ uxPendedTicks = 0
  <2>1. list[t] = "ready" /\ \A u \in Tasks : pc[u] \notin SuspendedPcs
    BY <1>4 DEF Goes, SchedulerSuspended
  <2>2. \A u \in Tasks : event[u] # "pending"
    BY <2>1 DEF PendingHeld
  <2>3. cTxLock = queueUNLOCKED
    BY <2>1 DEF LockHeld, Locks, LockingPcs, SuspendedPcs
  <2>4. uxPendedTicks = 0
    BY <2>1 DEF PendingHeld, SchedulerSuspended, TypeOK
  <2>5. QED
    BY <2>1, <2>2, <2>3, <2>4 DEF SchedulerSuspended
<1>5. QED
  BY <1>1, <1>2, <1>3, <1>4 DEF Moved

\* The list a task is in when the tick counter has been increased.
SwitchedList(t) == IF xTickCount = portMAX_DELAY THEN Switched(list[t]) ELSE list[t]

LEMMA TicksPassed ==
    ASSUME TypeOK, IncrementTick
    PROVE  /\ xTickCount' = IF xTickCount = portMAX_DELAY THEN 0 ELSE xTickCount + 1
           /\ xNumOfOverflows' = IF xTickCount = portMAX_DELAY
                                 THEN OneMore(xNumOfOverflows) ELSE xNumOfOverflows
           /\ xNextTaskUnblockTime' \in Ticks
           /\ list' \in [Tasks -> Lists]
           /\ wake' \in [Tasks -> Ticks]
           /\ event' \in [Tasks -> {"none", "queue", "pending"}]
           /\ ucDelayAborted' = ucDelayAborted
           /\ \A t \in Tasks :
                \/ /\ SwitchedList(t) = "delayed" /\ wake[t] <= xTickCount'
                   /\ list'[t] = "ready" /\ event'[t] = "none"
                \/ /\ list'[t] = SwitchedList(t)
                   /\ wake'[t] = wake[t] /\ event'[t] = event[t]
           /\ (\A t \in Tasks : list[t] = "delayed" => xNextTaskUnblockTime <= wake[t]) =>
                \A t \in Tasks : list'[t] = "delayed" =>
                    xTickCount' < wake'[t] /\ xNextTaskUnblockTime' <= wake'[t]
<1> DEFINE tick == Plus(xTickCount, 1)
           wraps == tick = 0
           lists == [t \in Tasks |-> IF wraps THEN Switched(list[t]) ELSE list[t]]
           delayed == {t \in Tasks : lists[t] = "delayed"}
           next == IF wraps THEN FirstWake(delayed) ELSE xNextTaskUnblockTime
           due == IF tick >= next THEN {t \in delayed : wake[t] <= tick} ELSE {}
<1>1. /\ xTickCount' = tick
      /\ xNumOfOverflows' = IF wraps THEN OneMore(xNumOfOverflows) ELSE xNumOfOverflows
      /\ list' = [t \in Tasks |-> IF t \in due THEN "ready" ELSE lists[t]]
      /\ wake' = [t \in Tasks |-> IF t \in due THEN 0 ELSE wake[t]]
      /\ event' = [t \in Tasks |-> IF t \in due THEN "none" ELSE event[t]]
      /\ xNextTaskUnblockTime' = IF tick >= next THEN FirstWake(delayed \ due) ELSE next
      /\ ucDelayAborted' = ucDelayAborted
  BY DEF IncrementTick, Released
<1>2. /\ tick = IF xTickCount = portMAX_DELAY THEN 0 ELSE xTickCount + 1
      /\ wraps <=> xTickCount = portMAX_DELAY
      /\ tick \in Ticks /\ 0 \in Ticks
  BY TickAssumption DEF Plus, TypeOK, Ticks, portMAX_DELAY
<1>3. delayed \in SUBSET Tasks /\ due \in SUBSET delayed /\ delayed \ due \in SUBSET Tasks
  OBVIOUS
<1>4. /\ next \in Ticks
      /\ wraps => \A t \in delayed : next <= wake[t]
  BY <1>3, FirstWakeIsFirst DEF TypeOK
<1>5. /\ FirstWake(delayed \ due) \in Ticks
      /\ \A t \in delayed \ due : FirstWake(delayed \ due) <= wake[t]
  BY <1>3, FirstWakeIsFirst DEF TypeOK
<1>6. \A t \in Tasks : lists[t] = SwitchedList(t) /\ lists[t] \in Lists
  BY <1>2 DEF SwitchedList, Switched, TypeOK, Lists
<1>7. \A t \in Tasks : wake[t] \in Ticks
  BY DEF TypeOK
<1>8. \A t \in due : SwitchedList(t) = "delayed" /\ wake[t] <= tick
  BY <1>6
<1>9. \A t \in delayed : t \in due \/ tick < next \/ tick < wake[t]
  BY <1>2, <1>4, <1>7, TickAssumption DEF Ticks, portMAX_DELAY
<1> HIDE DEF tick, wraps, lists, delayed, next, due
<1>10. xNextTaskUnblockTime' \in Ticks
  BY <1>1, <1>4, <1>5
<1>11. /\ list' \in [Tasks -> Lists]
       /\ wake' \in [Tasks -> Ticks]
       /\ event' \in [Tasks -> {"none", "queue", "pending"}]
  BY <1>1, <1>2, <1>6, <1>7 DEF TypeOK, Lists
<1>12. \A t \in Tasks :
         \/ /\ SwitchedList(t) = "delayed" /\ wake[t] <= xTickCount'
            /\ list'[t] = "ready" /\ event'[t] = "none"
         \/ /\ list'[t] = SwitchedList(t)
            /\ wake'[t] = wake[t] /\ event'[t] = event[t]
  BY <1>1, <1>6, <1>8
<1>13. ASSUME \A t \in Tasks : list[t] = "delayed" => xNextTaskUnblockTime <= wake[t],
              NEW t \in Tasks, list'[t] = "delayed"
       PROVE  xTickCount' < wake'[t] /\ xNextTaskUnblockTime' <= wake'[t]
  <2>1. t \in delayed \ due /\ wake'[t] = wake[t]
    BY <1>1, <1>13 DEF delayed
  <2>2. next <= wake[t]
    <3>1. CASE wraps
      BY <1>4, <2>1, <3>1
    <3>2. CASE ~wraps
      <4>1. list[t] = "delayed"
        BY <1>6, <2>1, <3>2 DEF delayed, lists
      <4>2. QED
        BY <1>13, <3>2, <4>1 DEF next
    <3>3. QED
      BY <3>1, <3>2
  <2>3. tick < wake[t]
    BY <1>2, <1>4, <1>7, <1>9, <2>1, <2>2, TickAssumption DEF Ticks, portMAX_DELAY
  <2>4. QED
    BY <1>1, <1>5, <2>1, <2>2, <2>3
<1>14. QED
  BY <1>1, <1>2, <1>10, <1>11, <1>12, <1>13

\* What may become of the lists a task is in while it does not move.
Relisted(t) ==
    \/ list'[t] = list[t] /\ event'[t] = event[t]
    \/ pc[t] # "link" /\ list'[t] = "ready" /\ event'[t] = "none"
    \/ pc[t] # "link" /\ list'[t] = Switched(list[t]) /\ event'[t] = event[t]
    \/ /\ pc[t] # "link" /\ list'[t] = list[t] /\ event'[t] = "pending"
       /\ event[t] = "queue" \/ (event[t] = "none" /\ list[t] = "suspended")

LEMMA RelistedIsListed ==
    ASSUME TypeOK, NEW t \in Tasks, Listed(t), Relisted(t), pc'[t] = pc[t],
           pc[t] \in SuspendedPcs => after' = after /\ place' = place
    PROVE  Listed(t)'
<1>1. pc[t] \in Pcs /\ list[t] \in Lists /\ event[t] \in {"none", "queue", "pending"}
  BY DEF TypeOK
<1>2. CASE pc[t] \in SuspendedPcs
  BY <1>1, <1>2 DEF Listed, At, Delaying, Relisted, Switched, Lists
<1>3. CASE pc[t] \notin SuspendedPcs
  BY <1>1, <1>3 DEF Listed, At, Delaying, Relisted, Switched, SuspendedPcs, Lists
<1>4. QED
  BY <1>2, <1>3

LEMMA StructureKeptByTask ==
    ASSUME Structure, NEW t \in Tasks, NEW from \in Pcs, NEW to \in Pcs, Moved(t, from, to),
           TypeOK', Listed(t)', \A u \in Tasks \ {t} : Relisted(u),
           cTxLock' # queueUNLOCKED <=> Locks(t)',
           to = "enlist" => uxMessagesWaiting' <= cTxLock',
           \A u \in Tasks : event'[u] = "pending" => to \in SuspendedPcs \ {"ticking"},
           uxPendedTicks' > 0 => to \in SuspendedPcs,
           to = "ticking" => uxPendedTicks' > 0
    PROVE  Structure'
<1> USE DEF Structure
<1>1. pc'[t] = to /\ \A u \in Tasks \ {t} : pc'[u] = pc[u] /\ pc'[u] \notin SuspendedPcs
  BY DEF Moved, TypeOK
<1>2. OneSuspends'
  BY <1>1 DEF OneSuspends
<1>3. ListedWell'
  <2>1. \A u \in Tasks \ {t} : Listed(u)'
    BY <1>1, RelistedIsListed DEF ListedWell
  <2>2. QED
    BY <2>1 DEF ListedWell
<1>4. LockHeld'
  BY <1>1 DEF LockHeld, Locks, LockingPcs, SuspendedPcs
<1>5. PendingHeld'
  BY <1>1 DEF PendingHeld, SchedulerSuspended, SuspendedPcs
<1>6. QED
  BY <1>2, <1>3, <1>4, <1>5

LEMMA StructureKeptByInterrupt ==
    ASSUME Structure, UNCHANGED <<pc, after, place>>,
           TypeOK', \A t \in Tasks : Relisted(t),
           cTxLock' # queueUNLOCKED <=> cTxLock # queueUNLOCKED,
           cTxLock # queueUNLOCKED /\ uxMessagesWaiting <= cTxLock =>
                uxMessagesWaiting' <= cTxLock',
           \A t \in Tasks : event'[t] = "pending" => event[t] = "pending" \/ SchedulerSuspended,
           ~InCritical,
           uxPendedTicks > 0 => uxPendedTicks' > 0,
           uxPendedTicks' > 0 => uxPendedTicks > 0 \/ SchedulerSuspended
    PROVE  Structure'
<1> USE DEF Structure
<1>1. \A t \in Tasks : pc[t] \in SuspendedPcs => pc[t] # "ticking"
  BY DEF InCritical
<1>2. OneSuspends'
  BY DEF OneSuspends
<1>3. ListedWell'
  BY RelistedIsListed DEF ListedWell
<1>4. LockHeld'
  <2>1. ASSUME NEW t \in Tasks PROVE Locks(t)' <=> Locks(t)
    <3>1. pc'[t] = pc[t] /\ (pc[t] = "link" => event'[t] = event[t])
      BY DEF Relisted
    <3>2. QED
      BY <3>1 DEF Locks, LockingPcs
  <2>2. ASSUME NEW t \in Tasks, pc'[t] = "enlist" PROVE uxMessagesWaiting' <= cTxLock'
    <3>1. pc[t] = "enlist" /\ cTxLock # queueUNLOCKED /\ uxMessagesWaiting <= cTxLock
      BY <2>2 DEF LockHeld, Locks, LockingPcs
    <3>2. QED
      BY <3>1
  <2>3. QED
    BY <2>1, <2>2 DEF LockHeld
<1>5. PendingHeld'
  <2>1. (\E t \in Tasks : pc'[t] \in SuspendedPcs \ {"ticking"}) <=> SchedulerSuspended
    BY <1>1 DEF SchedulerSuspended
  <2>2. SchedulerSuspended' <=> SchedulerSuspended
    BY DEF SchedulerSuspended
  <2>3. (\E t \in Tasks : event[t] = "pending") => SchedulerSuspended
    BY DEF PendingHeld, SchedulerSuspended
  <2>4. QED
    BY <2>1, <2>2, <2>3 DEF PendingHeld
<1>6. QED
  BY <1>2, <1>3, <1>4, <1>5

-----------------------------------------------------------------------------
(* The steps of the tasks.                                                 *)

USE DEF tickVars, listVars, queueVars, timeoutVars, placeVars, history

LEMMA SuspendAllStructure ==
    ASSUME Structure, NEW t \in Tasks, SuspendAll(t)
    PROVE  Structure'
<1> DEFINE to == "resume"
<1>1. Moved(t, "run", to) /\ to \in Pcs
  BY MovesAlone DEF SuspendAll, Pcs
<1>2. Structure /\ TypeOK /\ Listed(t)
  BY DEF Structure, ListedWell
<1>3. TypeOK'
  BY <1>1, <1>2 DEF SuspendAll, Moved, TypeOK, Pcs, SuspendedPcs
<1>4. Listed(t)'
  BY <1>1, <1>2, <1>3 DEF SuspendAll, Moved, TypeOK, Listed, At, Delaying, SuspendedPcs
<1>5. \A u \in Tasks \ {t} : Relisted(u)
  BY <1>1, <1>2 DEF SuspendAll, Moved, Relisted, TypeOK
<1>6. cTxLock' # queueUNLOCKED <=> Locks(t)'
  BY <1>1, <1>2
     DEF SuspendAll, Moved, TypeOK, Structure, LockHeld, Locks, LockingPcs, SuspendedPcs,
         queueUNLOCKED, queueLOCKED_UNMODIFIED
<1>7. to = "enlist" => uxMessagesWaiting' <= cTxLock'
  BY <1>1, <1>2
     DEF SuspendAll, Moved, TypeOK, Structure, LockHeld, Locks, LockingPcs, SuspendedPcs,
         queueUNLOCKED
<1>8. /\ \A u \in Tasks : event'[u] = "pending" => to \in SuspendedPcs \ {"ticking"}
      /\ uxPendedTicks' > 0 => to \in SuspendedPcs
      /\ to = "ticking" => uxPendedTicks' > 0
  BY <1>1, <1>2 DEF SuspendAll, Moved, TypeOK, Structure, PendingHeld, SuspendedPcs
<1>9. QED
  BY <1>1, <1>2, <1>3, <1>4, <1>5, <1>6, <1>7, <1>8, StructureKeptByTask DEF Pcs

LEMMA DelayReturnsStructure ==
    ASSUME Structure, NEW t \in Tasks, DelayReturns(t)
    PROVE  Structure'
<1> DEFINE to == "run"
<1>1. Moved(t, "delaying", to) /\ to \in Pcs
  BY MovesAlone DEF DelayReturns, Pcs
<1>2. Structure /\ TypeOK /\ Listed(t)
  BY DEF Structure, ListedWell
<1>3. TypeOK'
  BY <1>1, <1>2, TickAssumption
     DEF DelayReturns, Moved, TypeOK, Pcs, SuspendedPcs, Asks, Ticks, portMAX_DELAY
<1>4. Listed(t)'
  BY <1>1, <1>2, <1>3 DEF DelayReturns, Moved, TypeOK, Listed, At, Delaying, SuspendedPcs
<1>5. \A u \in Tasks \ {t} : Relisted(u)
  BY <1>1, <1>2 DEF DelayReturns, Moved, Relisted, TypeOK
<1>6. cTxLock' # queueUNLOCKED <=> Locks(t)'
  BY <1>1, <1>2
     DEF DelayReturns, Moved, TypeOK, Structure, LockHeld, Locks, LockingPcs,
         SuspendedPcs, queueUNLOCKED, queueLOCKED_UNMODIFIED
<1>7. to = "enlist" => uxMessagesWaiting' <= cTxLock'
  BY <1>1, <1>2
     DEF DelayReturns, Moved, TypeOK, Structure, LockHeld, Locks, LockingPcs,
         SuspendedPcs, queueUNLOCKED
<1>8. /\ \A u \in Tasks : event'[u] = "pending" => to \in SuspendedPcs \ {"ticking"}
      /\ uxPendedTicks' > 0 => to \in SuspendedPcs
      /\ to = "ticking" => uxPendedTicks' > 0
  BY <1>1, <1>2 DEF DelayReturns, Moved, TypeOK, Structure, PendingHeld, SuspendedPcs
<1>9. QED
  BY <1>1, <1>2, <1>3, <1>4, <1>5, <1>6, <1>7, <1>8, StructureKeptByTask DEF Pcs

LEMMA ReceiveWaitsStructure ==
    ASSUME Structure, NEW t \in Tasks, ReceiveWaits(t)
    PROVE  Structure'
<1> DEFINE to == "lock"
<1>1. Moved(t, "run", to) /\ to \in Pcs
  BY MovesAlone DEF ReceiveWaits, Pcs
<1>2. Structure /\ TypeOK /\ Listed(t)
  BY DEF Structure, ListedWell
<1>3. TypeOK'
  BY <1>1, <1>2, TickAssumption
     DEF ReceiveWaits, Moved, TypeOK, Pcs, SuspendedPcs, Asks, Ticks, portMAX_DELAY,
         TimeOutNow
<1>4. Listed(t)'
  BY <1>1, <1>2, <1>3 DEF ReceiveWaits, Moved, TypeOK, Listed, At, Delaying, SuspendedPcs
<1>5. \A u \in Tasks \ {t} : Relisted(u)
  BY <1>1, <1>2 DEF ReceiveWaits, Moved, Relisted, TypeOK
<1>6. cTxLock' # queueUNLOCKED <=> Locks(t)'
  BY <1>1, <1>2
     DEF ReceiveWaits, Moved, TypeOK, Structure, LockHeld, Locks, LockingPcs,
         SuspendedPcs, queueUNLOCKED, queueLOCKED_UNMODIFIED
<1>7. to = "enlist" => uxMessagesWaiting' <= cTxLock'
  BY <1>1, <1>2
     DEF ReceiveWaits, Moved, TypeOK, Structure, LockHeld, Locks, LockingPcs,
         SuspendedPcs, queueUNLOCKED
<1>8. /\ \A u \in Tasks : event'[u] = "pending" => to \in SuspendedPcs \ {"ticking"}
      /\ uxPendedTicks' > 0 => to \in SuspendedPcs
      /\ to = "ticking" => uxPendedTicks' > 0
  BY <1>1, <1>2 DEF ReceiveWaits, Moved, TypeOK, Structure, PendingHeld, SuspendedPcs
<1>9. QED
  BY <1>1, <1>2, <1>3, <1>4, <1>5, <1>6, <1>7, <1>8, StructureKeptByTask DEF Pcs

LEMMA WaitsAgainStructure ==
    ASSUME Structure, NEW t \in Tasks, WaitsAgain(t)
    PROVE  Structure'
<1> DEFINE to == "lock"
<1>1. Moved(t, "again", to) /\ to \in Pcs
  BY MovesAlone DEF WaitsAgain, Pcs
<1>2. Structure /\ TypeOK /\ Listed(t)
  BY DEF Structure, ListedWell
<1>3. TypeOK'
  BY <1>1, <1>2 DEF WaitsAgain, Moved, TypeOK, Pcs, SuspendedPcs
<1>4. Listed(t)'
  BY <1>1, <1>2, <1>3 DEF WaitsAgain, Moved, TypeOK, Listed, At, Delaying, SuspendedPcs
<1>5. \A u \in Tasks \ {t} : Relisted(u)
  BY <1>1, <1>2 DEF WaitsAgain, Moved, Relisted, TypeOK
<1>6. cTxLock' # queueUNLOCKED <=> Locks(t)'
  BY <1>1, <1>2
     DEF WaitsAgain, Moved, TypeOK, Structure, LockHeld, Locks, LockingPcs, SuspendedPcs,
         queueUNLOCKED, queueLOCKED_UNMODIFIED
<1>7. to = "enlist" => uxMessagesWaiting' <= cTxLock'
  BY <1>1, <1>2
     DEF WaitsAgain, Moved, TypeOK, Structure, LockHeld, Locks, LockingPcs, SuspendedPcs,
         queueUNLOCKED
<1>8. /\ \A u \in Tasks : event'[u] = "pending" => to \in SuspendedPcs \ {"ticking"}
      /\ uxPendedTicks' > 0 => to \in SuspendedPcs
      /\ to = "ticking" => uxPendedTicks' > 0
  BY <1>1, <1>2 DEF WaitsAgain, Moved, TypeOK, Structure, PendingHeld, SuspendedPcs
<1>9. QED
  BY <1>1, <1>2, <1>3, <1>4, <1>5, <1>6, <1>7, <1>8, StructureKeptByTask DEF Pcs

LEMMA LockStructure ==
    ASSUME Structure, NEW t \in Tasks, Lock(t)
    PROVE  Structure'
<1> DEFINE to == "check"
<1>1. Moved(t, "lock", to) /\ to \in Pcs
  BY MovesAlone DEF Lock, Pcs
<1>2. Structure /\ TypeOK /\ Listed(t)
  BY DEF Structure, ListedWell
<1>3. TypeOK'
  BY <1>1, <1>2
     DEF Lock, Moved, TypeOK, Pcs, SuspendedPcs, queueLOCKED_UNMODIFIED, queueUNLOCKED
<1>4. Listed(t)'
  BY <1>1, <1>2, <1>3 DEF Lock, Moved, TypeOK, Listed, At, Delaying, SuspendedPcs
<1>5. \A u \in Tasks \ {t} : Relisted(u)
  BY <1>1, <1>2 DEF Lock, Moved, Relisted, TypeOK
<1>6. cTxLock' # queueUNLOCKED <=> Locks(t)'
  BY <1>1, <1>2
     DEF Lock, Moved, TypeOK, Structure, LockHeld, Locks, LockingPcs, SuspendedPcs,
         queueUNLOCKED, queueLOCKED_UNMODIFIED
<1>7. to = "enlist" => uxMessagesWaiting' <= cTxLock'
  BY <1>1, <1>2
     DEF Lock, Moved, TypeOK, Structure, LockHeld, Locks, LockingPcs, SuspendedPcs,
         queueUNLOCKED
<1>8. /\ \A u \in Tasks : event'[u] = "pending" => to \in SuspendedPcs \ {"ticking"}
      /\ uxPendedTicks' > 0 => to \in SuspendedPcs
      /\ to = "ticking" => uxPendedTicks' > 0
  BY <1>1, <1>2 DEF Lock, Moved, TypeOK, Structure, PendingHeld, SuspendedPcs
<1>9. QED
  BY <1>1, <1>2, <1>3, <1>4, <1>5, <1>6, <1>7, <1>8, StructureKeptByTask DEF Pcs

LEMMA UnlockStructure ==
    ASSUME Structure, NEW t \in Tasks, Unlock(t)
    PROVE  Structure'
<1> DEFINE to == "waking"
<1>1. Moved(t, "unlock", to) /\ to \in Pcs
  BY MovesAlone DEF Unlock, Pcs
<1>2. Structure /\ TypeOK /\ Listed(t)
  BY DEF Structure, ListedWell
<1>3. TypeOK'
  BY <1>1, <1>2 DEF Unlock, Moved, TypeOK, Pcs, SuspendedPcs
<1>4. Listed(t)'
  BY <1>1, <1>2, <1>3 DEF Unlock, Moved, TypeOK, Listed, At, Delaying, SuspendedPcs
<1>5. \A u \in Tasks \ {t} : Relisted(u)
  BY <1>1, <1>2 DEF Unlock, Moved, Relisted, TypeOK
<1>6. cTxLock' # queueUNLOCKED <=> Locks(t)'
  BY <1>1, <1>2
     DEF Unlock, Moved, TypeOK, Structure, LockHeld, Locks, LockingPcs, SuspendedPcs,
         queueUNLOCKED, queueLOCKED_UNMODIFIED
<1>7. to = "enlist" => uxMessagesWaiting' <= cTxLock'
  BY <1>1, <1>2
     DEF Unlock, Moved, TypeOK, Structure, LockHeld, Locks, LockingPcs, SuspendedPcs,
         queueUNLOCKED
<1>8. /\ \A u \in Tasks : event'[u] = "pending" => to \in SuspendedPcs \ {"ticking"}
      /\ uxPendedTicks' > 0 => to \in SuspendedPcs
      /\ to = "ticking" => uxPendedTicks' > 0
  BY <1>1, <1>2 DEF Unlock, Moved, TypeOK, Structure, PendingHeld, SuspendedPcs
<1>9. QED
  BY <1>1, <1>2, <1>3, <1>4, <1>5, <1>6, <1>7, <1>8, StructureKeptByTask DEF Pcs

LEMMA TriesOnceStructure ==
    ASSUME Structure, NEW t \in Tasks, TriesOnce(t)
    PROVE  Structure'
<1> DEFINE to == "again"
<1>1. Moved(t, "gaveUp", to) /\ to \in Pcs
  BY MovesAlone DEF TriesOnce, Pcs
<1>2. Structure /\ TypeOK /\ Listed(t)
  BY DEF Structure, ListedWell
<1>3. TypeOK'
  BY <1>1, <1>2 DEF TriesOnce, Moved, TypeOK, Pcs, SuspendedPcs
<1>4. Listed(t)'
  BY <1>1, <1>2, <1>3 DEF TriesOnce, Moved, TypeOK, Listed, At, Delaying, SuspendedPcs
<1>5. \A u \in Tasks \ {t} : Relisted(u)
  BY <1>1, <1>2 DEF TriesOnce, Moved, Relisted, TypeOK
<1>6. cTxLock' # queueUNLOCKED <=> Locks(t)'
  BY <1>1, <1>2
     DEF TriesOnce, Moved, TypeOK, Structure, LockHeld, Locks, LockingPcs, SuspendedPcs,
         queueUNLOCKED, queueLOCKED_UNMODIFIED
<1>7. to = "enlist" => uxMessagesWaiting' <= cTxLock'
  BY <1>1, <1>2
     DEF TriesOnce, Moved, TypeOK, Structure, LockHeld, Locks, LockingPcs, SuspendedPcs,
         queueUNLOCKED
<1>8. /\ \A u \in Tasks : event'[u] = "pending" => to \in SuspendedPcs \ {"ticking"}
      /\ uxPendedTicks' > 0 => to \in SuspendedPcs
      /\ to = "ticking" => uxPendedTicks' > 0
  BY <1>1, <1>2 DEF TriesOnce, Moved, TypeOK, Structure, PendingHeld, SuspendedPcs
<1>9. QED
  BY <1>1, <1>2, <1>3, <1>4, <1>5, <1>6, <1>7, <1>8, StructureKeptByTask DEF Pcs


-----------------------------------------------------------------------------
LEMMA ReceiverWoken ==
    ASSUME TypeOK, xTasksWaitingToReceive # {}, WakeReceiver,
           \A t \in xTasksWaitingToReceive : pc[t] # "link"
    PROVE  /\ list' \in [Tasks -> Lists] /\ wake' \in [Tasks -> Ticks]
           /\ event' \in [Tasks -> {"none", "queue", "pending"}]
           /\ \A t \in Tasks : Relisted(t)
           /\ \A t \in Tasks :
                event'[t] = "pending" => event[t] = "pending" \/ SchedulerSuspended
<1>1. /\ HighestWaiting \in Tasks /\ event[HighestWaiting] = "queue"
      /\ pc[HighestWaiting] # "link"
  BY HighestWaitingWaits DEF xTasksWaitingToReceive
<1>2. 0 \in Ticks
  BY TickAssumption DEF Ticks, portMAX_DELAY
<1>3. CASE SchedulerSuspended
  BY <1>1, <1>3 DEF WakeReceiver, Relisted, TypeOK
<1>4. CASE ~SchedulerSuspended
  BY <1>1, <1>2, <1>4 DEF WakeReceiver, Relisted, TypeOK, Ready, Released, Lists
<1>5. QED
  BY <1>3, <1>4

LEMMA SuspendStructure ==
    ASSUME Structure, NEW t \in Tasks, Suspend(t)
    PROVE  Structure'
<1> DEFINE to == "run"
<1>1. Structure /\ TypeOK /\ Listed(t)
  BY DEF Structure, ListedWell
<1>2. Moved(t, "run", to) /\ to \in Pcs
  BY MovesAlone DEF Suspend, Pcs
<1>a. FirstWake(On("delayed")) \in Ticks
  BY <1>1, <1>2, FirstWakeIsFirst DEF On, TypeOK
<1>3. TypeOK'
  BY <1>1, <1>2, <1>a DEF Suspend, Moved, TypeOK, Pcs, SuspendedPcs, Lists
<1>4. Listed(t)'
  BY <1>1, <1>2, <1>3 DEF Suspend, Moved, TypeOK, Listed, At, Delaying, SuspendedPcs
<1>5. \A u \in Tasks \ {t} : Relisted(u)
  BY <1>1, <1>2 DEF Suspend, Moved, Relisted, TypeOK
<1>6. cTxLock' # queueUNLOCKED <=> Locks(t)'
  BY <1>1, <1>2
     DEF Suspend, Moved, TypeOK, Structure, LockHeld, Locks, LockingPcs, SuspendedPcs,
         queueUNLOCKED, queueLOCKED_UNMODIFIED
<1>7. to = "enlist" => uxMessagesWaiting' <= cTxLock'
  BY <1>1, <1>2
     DEF Suspend, Moved, TypeOK, Structure, LockHeld, Locks, LockingPcs, SuspendedPcs,
         queueUNLOCKED, queueLOCKED_UNMODIFIED
<1>8. /\ \A u \in Tasks : event'[u] = "pending" => to \in SuspendedPcs \ {"ticking"}
      /\ uxPendedTicks' > 0 => to \in SuspendedPcs
      /\ to = "ticking" => uxPendedTicks' > 0
  BY <1>1, <1>2 DEF Suspend, Moved, TypeOK, Structure, PendingHeld, SuspendedPcs
<1>9. QED
  BY <1>1, <1>2, <1>3, <1>4, <1>5, <1>6, <1>7, <1>8, StructureKeptByTask DEF Pcs

LEMMA DelayStructure ==
    ASSUME Structure, NEW t \in Tasks, Delay(t)
    PROVE  Structure'
<1> DEFINE to == "link"
<1>1. Structure /\ TypeOK /\ Listed(t)
  BY DEF Structure, ListedWell
<1>2. Moved(t, "run", to) /\ to \in Pcs
  BY MovesAlone DEF Delay, Pcs
<1>a. \A n \in Ticks : Plus(xTickCount, n) \in Ticks
  BY <1>1, <1>2, TickAssumption DEF Plus, TypeOK, Ticks, portMAX_DELAY
<1>b. Waits \subseteq Ticks /\ 0 \in Ticks
  BY TickAssumption DEF Ticks, portMAX_DELAY
<1>3. TypeOK'
  BY <1>1, <1>2, <1>a, <1>b
     DEF Delay, Moved, TypeOK, Pcs, SuspendedPcs, Placing, PlaceIn, MembersOf,
         DelayedListFor, On, xTasksWaitingToReceive, Lists, Asks
<1>4. Listed(t)'
  BY <1>1, <1>2, <1>3
     DEF Delay, Moved, TypeOK, Listed, At, Delaying, SuspendedPcs, Placing, PlaceIn,
         MembersOf, DelayedListFor, On, xTasksWaitingToReceive
<1>5. \A u \in Tasks \ {t} : Relisted(u)
  BY <1>1, <1>2
     DEF Delay, Moved, Relisted, TypeOK, Placing, PlaceIn, MembersOf, DelayedListFor, On,
         xTasksWaitingToReceive
<1>6. cTxLock' # queueUNLOCKED <=> Locks(t)'
  BY <1>1, <1>2
     DEF Delay, Moved, TypeOK, Structure, LockHeld, Locks, LockingPcs, SuspendedPcs,
         queueUNLOCKED, queueLOCKED_UNMODIFIED, Placing, PlaceIn, MembersOf,
         DelayedListFor, On, xTasksWaitingToReceive, Listed, At
<1>7. to = "enlist" => uxMessagesWaiting' <= cTxLock'
  BY <1>1, <1>2
     DEF Delay, Moved, TypeOK, Structure, LockHeld, Locks, LockingPcs, SuspendedPcs,
         queueUNLOCKED, queueLOCKED_UNMODIFIED
<1>8. /\ \A u \in Tasks : event'[u] = "pending" => to \in SuspendedPcs \ {"ticking"}
      /\ uxPendedTicks' > 0 => to \in SuspendedPcs
      /\ to = "ticking" => uxPendedTicks' > 0
  BY <1>1, <1>2 DEF Delay, Moved, TypeOK, Structure, PendingHeld, SuspendedPcs
<1>9. QED
  BY <1>1, <1>2, <1>3, <1>4, <1>5, <1>6, <1>7, <1>8, StructureKeptByTask DEF Pcs

LEMMA SendStructure ==
    ASSUME Structure, NEW t \in Tasks, Send(t)
    PROVE  Structure'
<1> DEFINE to == "run"
<1>1. Structure /\ TypeOK /\ Listed(t)
  BY DEF Structure, ListedWell
<1>2. Moved(t, "run", to) /\ to \in Pcs
  BY MovesAlone DEF Send, Pcs
<1>a. /\ xTasksWaitingToReceive # {} =>
            /\ list' \in [Tasks -> Lists] /\ wake' \in [Tasks -> Ticks]
            /\ event' \in [Tasks -> {"none", "queue", "pending"}]
            /\ \A u \in Tasks : Relisted(u)
      /\ xTasksWaitingToReceive # {} /\ ~SchedulerSuspended =>
            \A u \in Tasks : event'[u] # "pending"
  BY <1>1, <1>2, ReceiverWoken
     DEF Send, Moved, SuspendedPcs, SchedulerSuspended, xTasksWaitingToReceive
<1>3. TypeOK'
  BY <1>1, <1>2, <1>a, TaskAssumption DEF Send, Moved, TypeOK, Pcs, SuspendedPcs
<1>4. Listed(t)'
  BY <1>1, <1>2, <1>3, <1>a
     DEF Send, Moved, TypeOK, Listed, At, Delaying, SuspendedPcs, Relisted, Switched,
         Lists
<1>5. \A u \in Tasks \ {t} : Relisted(u)
  BY <1>1, <1>2, <1>a DEF Send, Moved, Relisted, TypeOK
<1>6. cTxLock' # queueUNLOCKED <=> Locks(t)'
  BY <1>1, <1>2
     DEF Send, Moved, TypeOK, Structure, LockHeld, Locks, LockingPcs, SuspendedPcs,
         queueUNLOCKED, queueLOCKED_UNMODIFIED
<1>7. to = "enlist" => uxMessagesWaiting' <= cTxLock'
  BY <1>1, <1>2
     DEF Send, Moved, TypeOK, Structure, LockHeld, Locks, LockingPcs, SuspendedPcs,
         queueUNLOCKED, queueLOCKED_UNMODIFIED
<1>8. /\ \A u \in Tasks : event'[u] = "pending" => to \in SuspendedPcs \ {"ticking"}
      /\ uxPendedTicks' > 0 => to \in SuspendedPcs
      /\ to = "ticking" => uxPendedTicks' > 0
  BY <1>1, <1>2, <1>a DEF Send, Moved, TypeOK, Structure, PendingHeld, SuspendedPcs
<1>9. QED
  BY <1>1, <1>2, <1>3, <1>4, <1>5, <1>6, <1>7, <1>8, StructureKeptByTask DEF Pcs

LEMMA UnlockWakesStructure ==
    ASSUME Structure, NEW t \in Tasks, UnlockWakes(t)
    PROVE  Structure'
<1> DEFINE to == "waking"
<1>1. Structure /\ TypeOK /\ Listed(t)
  BY DEF Structure, ListedWell
<1>2. Moved(t, "waking", to) /\ to \in Pcs
  BY MovesAlone DEF UnlockWakes, Pcs
<1>a. /\ xTasksWaitingToReceive # {} =>
            /\ list' \in [Tasks -> Lists] /\ wake' \in [Tasks -> Ticks]
            /\ event' \in [Tasks -> {"none", "queue", "pending"}]
            /\ \A u \in Tasks : Relisted(u)
      /\ xTasksWaitingToReceive # {} /\ ~SchedulerSuspended =>
            \A u \in Tasks : event'[u] # "pending"
  BY <1>1, <1>2, ReceiverWoken
     DEF UnlockWakes, Moved, SuspendedPcs, SchedulerSuspended, xTasksWaitingToReceive
<1>3. TypeOK'
  BY <1>1, <1>2, <1>a
     DEF UnlockWakes, Moved, TypeOK, Pcs, SuspendedPcs, queueLOCKED_UNMODIFIED,
         queueUNLOCKED
<1>4. Listed(t)'
  BY <1>1, <1>2, <1>3, RelistedIsListed, <1>a DEF UnlockWakes, Moved, placeVars
<1>5. \A u \in Tasks \ {t} : Relisted(u)
  BY <1>1, <1>2, <1>a DEF UnlockWakes, Moved, Relisted, TypeOK
<1>6. cTxLock' # queueUNLOCKED <=> Locks(t)'
  BY <1>1, <1>2
     DEF UnlockWakes, Moved, TypeOK, Structure, LockHeld, Locks, LockingPcs, SuspendedPcs,
         queueUNLOCKED, queueLOCKED_UNMODIFIED
<1>7. to = "enlist" => uxMessagesWaiting' <= cTxLock'
  BY <1>1, <1>2
     DEF UnlockWakes, Moved, TypeOK, Structure, LockHeld, Locks, LockingPcs, SuspendedPcs,
         queueUNLOCKED, queueLOCKED_UNMODIFIED
<1>8. /\ \A u \in Tasks : event'[u] = "pending" => to \in SuspendedPcs \ {"ticking"}
      /\ uxPendedTicks' > 0 => to \in SuspendedPcs
      /\ to = "ticking" => uxPendedTicks' > 0
  BY <1>1, <1>2 DEF UnlockWakes, Moved, TypeOK, Structure, PendingHeld, SuspendedPcs
<1>9. QED
  BY <1>1, <1>2, <1>3, <1>4, <1>5, <1>6, <1>7, <1>8, StructureKeptByTask DEF Pcs

LEMMA UnlockEndsStructure ==
    ASSUME Structure, NEW t \in Tasks, UnlockEnds(t)
    PROVE  Structure'
<1> DEFINE to == "resume"
<1>1. Structure /\ TypeOK /\ Listed(t)
  BY DEF Structure, ListedWell
<1>2. Moved(t, "waking", to) /\ to \in Pcs
  BY MovesAlone DEF UnlockEnds, Pcs
<1>3. TypeOK'
  BY <1>1, <1>2 DEF UnlockEnds, Moved, TypeOK, Pcs, SuspendedPcs, queueUNLOCKED
<1>4. Listed(t)'
  BY <1>1, <1>2, <1>3 DEF UnlockEnds, Moved, TypeOK, Listed, At, Delaying, SuspendedPcs
<1>5. \A u \in Tasks \ {t} : Relisted(u)
  BY <1>1, <1>2 DEF UnlockEnds, Moved, Relisted, TypeOK
<1>6. cTxLock' # queueUNLOCKED <=> Locks(t)'
  BY <1>1, <1>2
     DEF UnlockEnds, Moved, TypeOK, Structure, LockHeld, Locks, LockingPcs, SuspendedPcs,
         queueUNLOCKED, queueLOCKED_UNMODIFIED
<1>7. to = "enlist" => uxMessagesWaiting' <= cTxLock'
  BY <1>1, <1>2
     DEF UnlockEnds, Moved, TypeOK, Structure, LockHeld, Locks, LockingPcs, SuspendedPcs,
         queueUNLOCKED, queueLOCKED_UNMODIFIED
<1>8. /\ \A u \in Tasks : event'[u] = "pending" => to \in SuspendedPcs \ {"ticking"}
      /\ uxPendedTicks' > 0 => to \in SuspendedPcs
      /\ to = "ticking" => uxPendedTicks' > 0
  BY <1>1, <1>2 DEF UnlockEnds, Moved, TypeOK, Structure, PendingHeld, SuspendedPcs
<1>9. QED
  BY <1>1, <1>2, <1>3, <1>4, <1>5, <1>6, <1>7, <1>8, StructureKeptByTask DEF Pcs

LEMMA TakeStructure ==
    ASSUME Structure, NEW t \in Tasks, Take(t)
    PROVE  Structure'
<1> DEFINE to == "run"
<1>1. Structure /\ TypeOK /\ Listed(t)
  BY DEF Structure, ListedWell
<1>2. Moved(t, pc[t], to) /\ pc[t] \in Pcs /\ to \in Pcs
  BY MovesAlone DEF Take, Pcs, Goes
<1>a. pc[t] \in {"run", "again"}
  BY DEF Take, Goes
<1>3. TypeOK'
  BY <1>1, <1>2, TickAssumption, TaskAssumption
     DEF Take, Moved, TypeOK, Pcs, SuspendedPcs, ReceiveReturns, Asks, Ticks,
         portMAX_DELAY, NoTimeOut, Overflows
<1>4. Listed(t)'
  BY <1>1, <1>2, <1>3, <1>a DEF Take, Moved, TypeOK, Listed, At, Delaying, SuspendedPcs
<1>5. \A u \in Tasks \ {t} : Relisted(u)
  BY <1>1, <1>2 DEF Take, Moved, Relisted, TypeOK
<1>6. cTxLock' # queueUNLOCKED <=> Locks(t)'
  BY <1>1, <1>2, <1>a
     DEF Take, Moved, TypeOK, Structure, LockHeld, Locks, LockingPcs, SuspendedPcs,
         queueUNLOCKED, queueLOCKED_UNMODIFIED
<1>7. to = "enlist" => uxMessagesWaiting' <= cTxLock'
  BY <1>1, <1>2
     DEF Take, Moved, TypeOK, Structure, LockHeld, Locks, LockingPcs, SuspendedPcs,
         queueUNLOCKED, queueLOCKED_UNMODIFIED
<1>8. /\ \A u \in Tasks : event'[u] = "pending" => to \in SuspendedPcs \ {"ticking"}
      /\ uxPendedTicks' > 0 => to \in SuspendedPcs
      /\ to = "ticking" => uxPendedTicks' > 0
  BY <1>1, <1>2, <1>a DEF Take, Moved, TypeOK, Structure, PendingHeld, SuspendedPcs
<1>9. QED
  BY <1>1, <1>2, <1>3, <1>4, <1>5, <1>6, <1>7, <1>8, StructureKeptByTask DEF Pcs

LEMMA GivesUpStructure ==
    ASSUME Structure, NEW t \in Tasks, GivesUp(t)
    PROVE  Structure'
<1> DEFINE to == "run"
<1>1. Structure /\ TypeOK /\ Listed(t)
  BY DEF Structure, ListedWell
<1>2. Moved(t, pc[t], to) /\ pc[t] \in Pcs /\ to \in Pcs
  BY MovesAlone DEF GivesUp, Pcs, Goes
<1>a. pc[t] \in {"gaveUp", "again"}
  BY DEF GivesUp, Goes
<1>3. TypeOK'
  BY <1>1, <1>2, TickAssumption, TaskAssumption
     DEF GivesUp, Moved, TypeOK, Pcs, SuspendedPcs, ReceiveReturns, Asks, Ticks,
         portMAX_DELAY, NoTimeOut, Overflows
<1>4. Listed(t)'
  BY <1>1, <1>2, <1>3, <1>a DEF GivesUp, Moved, TypeOK, Listed, At, Delaying, SuspendedPcs
<1>5. \A u \in Tasks \ {t} : Relisted(u)
  BY <1>1, <1>2 DEF GivesUp, Moved, Relisted, TypeOK
<1>6. cTxLock' # queueUNLOCKED <=> Locks(t)'
  BY <1>1, <1>2, <1>a
     DEF GivesUp, Moved, TypeOK, Structure, LockHeld, Locks, LockingPcs, SuspendedPcs,
         queueUNLOCKED, queueLOCKED_UNMODIFIED
<1>7. to = "enlist" => uxMessagesWaiting' <= cTxLock'
  BY <1>1, <1>2
     DEF GivesUp, Moved, TypeOK, Structure, LockHeld, Locks, LockingPcs, SuspendedPcs,
         queueUNLOCKED, queueLOCKED_UNMODIFIED
<1>8. /\ \A u \in Tasks : event'[u] = "pending" => to \in SuspendedPcs \ {"ticking"}
      /\ uxPendedTicks' > 0 => to \in SuspendedPcs
      /\ to = "ticking" => uxPendedTicks' > 0
  BY <1>1, <1>2, <1>a DEF GivesUp, Moved, TypeOK, Structure, PendingHeld, SuspendedPcs
<1>9. QED
  BY <1>1, <1>2, <1>3, <1>4, <1>5, <1>6, <1>7, <1>8, StructureKeptByTask DEF Pcs

LEMMA CheckForTimeOutStructure ==
    ASSUME Structure, NEW t \in Tasks, CheckForTimeOut(t)
    PROVE  Structure'
<1> DEFINE to == IF Expired(t) THEN "unlock" ELSE "test"
<1>1. Structure /\ TypeOK /\ Listed(t)
  BY DEF Structure, ListedWell
<1>2. Moved(t, "check", to) /\ to \in Pcs
  BY MovesAlone DEF CheckForTimeOut, Pcs
<1>a. ElapsedTime(t) \in Nat /\ TimeOutNow \in [time : Ticks, overflows : Overflows]
  BY <1>1, <1>2, TickAssumption
     DEF ElapsedTime, Minus, TimeOutNow, TypeOK, Ticks, portMAX_DELAY
<1>b. /\ ucDelayAborted' \in [Tasks -> BOOLEAN]
      /\ xTimeOut' \in [Tasks -> [time : Ticks, overflows : Overflows]]
  BY <1>a, <1>1, <1>2 DEF CheckForTimeOut, TypeOK
<1>c. xTicksToWait' \in [Tasks -> Ticks]
  <2> DEFINE n == IF Forever(t) \/ ucDelayAborted[t] \/ RoundPassed(t) THEN xTicksToWait[t]
                  ELSE IF TimedOut(t) THEN 0 ELSE xTicksToWait[t] - ElapsedTime(t)
  <2>1. n \in Ticks
    BY <1>a, <1>1, TickAssumption DEF TimedOut, TypeOK, Ticks, portMAX_DELAY
  <2>3. xTicksToWait' = [xTicksToWait EXCEPT ![t] = n]
    BY DEF CheckForTimeOut
  <2>2. QED
    BY <2>1, <2>3, <1>1 DEF TypeOK
<1>3. TypeOK'
  BY <1>1, <1>2, <1>a, <1>b, <1>c DEF CheckForTimeOut, Moved, TypeOK, Pcs, SuspendedPcs
<1>4. Listed(t)'
  BY <1>1, <1>2, <1>3 DEF CheckForTimeOut, Moved, TypeOK, Listed, At, Delaying, SuspendedPcs
<1>5. \A u \in Tasks \ {t} : Relisted(u)
  BY <1>1, <1>2 DEF CheckForTimeOut, Moved, Relisted, TypeOK
<1>6. cTxLock' # queueUNLOCKED <=> Locks(t)'
  BY <1>1, <1>2
     DEF CheckForTimeOut, Moved, TypeOK, Structure, LockHeld, Locks, LockingPcs,
         SuspendedPcs, queueUNLOCKED, queueLOCKED_UNMODIFIED
<1>7. to = "enlist" => uxMessagesWaiting' <= cTxLock'
  BY <1>1, <1>2
     DEF CheckForTimeOut, Moved, TypeOK, Structure, LockHeld, Locks, LockingPcs,
         SuspendedPcs, queueUNLOCKED, queueLOCKED_UNMODIFIED
<1>8. /\ \A u \in Tasks : event'[u] = "pending" => to \in SuspendedPcs \ {"ticking"}
      /\ uxPendedTicks' > 0 => to \in SuspendedPcs
      /\ to = "ticking" => uxPendedTicks' > 0
  BY <1>1, <1>2 DEF CheckForTimeOut, Moved, TypeOK, Structure, PendingHeld, SuspendedPcs
<1>9. QED
  BY <1>1, <1>2, <1>3, <1>4, <1>5, <1>6, <1>7, <1>8, StructureKeptByTask DEF Pcs

LEMMA TestEmptyStructure ==
    ASSUME Structure, NEW t \in Tasks, TestEmpty(t)
    PROVE  Structure'
<1> DEFINE to == IF uxMessagesWaiting = 0 THEN "enlist" ELSE "unlock"
<1>1. Structure /\ TypeOK /\ Listed(t)
  BY DEF Structure, ListedWell
<1>2. Moved(t, "test", to) /\ to \in Pcs
  BY MovesAlone DEF TestEmpty, Pcs
<1>3. TypeOK'
  BY <1>1, <1>2
     DEF TestEmpty, Moved, TypeOK, Pcs, SuspendedPcs, PlaceIn, MembersOf,
         xTasksWaitingToReceive, On
<1>4. Listed(t)'
  BY <1>1, <1>2, <1>3
     DEF TestEmpty, Moved, TypeOK, Listed, At, Delaying, SuspendedPcs, PlaceIn
<1>5. \A u \in Tasks \ {t} : Relisted(u)
  BY <1>1, <1>2 DEF TestEmpty, Moved, Relisted, TypeOK, PlaceIn
<1>6. cTxLock' # queueUNLOCKED <=> Locks(t)'
  BY <1>1, <1>2
     DEF TestEmpty, Moved, TypeOK, Structure, LockHeld, Locks, LockingPcs, SuspendedPcs,
         queueUNLOCKED, queueLOCKED_UNMODIFIED, PlaceIn
<1>7. to = "enlist" => uxMessagesWaiting' <= cTxLock'
  BY <1>1, <1>2
     DEF TestEmpty, Moved, TypeOK, Structure, LockHeld, Locks, LockingPcs, SuspendedPcs,
         queueUNLOCKED, queueLOCKED_UNMODIFIED
<1>8. /\ \A u \in Tasks : event'[u] = "pending" => to \in SuspendedPcs \ {"ticking"}
      /\ uxPendedTicks' > 0 => to \in SuspendedPcs
      /\ to = "ticking" => uxPendedTicks' > 0
  BY <1>1, <1>2 DEF TestEmpty, Moved, TypeOK, Structure, PendingHeld, SuspendedPcs
<1>9. QED
  BY <1>1, <1>2, <1>3, <1>4, <1>5, <1>6, <1>7, <1>8, StructureKeptByTask DEF Pcs

LEMMA EnlistStructure ==
    ASSUME Structure, NEW t \in Tasks, Enlist(t)
    PROVE  Structure'
<1> DEFINE to == "link"
<1>1. Structure /\ TypeOK /\ Listed(t)
  BY DEF Structure, ListedWell
<1>2. Moved(t, "enlist", to) /\ to \in Pcs
  BY MovesAlone DEF Enlist, Pcs
<1>a. \A n \in Ticks : Plus(xTickCount, n) \in Ticks
  BY <1>1, <1>2, TickAssumption DEF Plus, TypeOK, Ticks, portMAX_DELAY
<1>b. Waits \subseteq Ticks /\ 0 \in Ticks
  BY TickAssumption DEF Ticks, portMAX_DELAY
<1>3. TypeOK'
  BY <1>1, <1>2, <1>a, <1>b
     DEF Enlist, Moved, TypeOK, Pcs, SuspendedPcs, Placing, PlaceIn, MembersOf,
         DelayedListFor, On, xTasksWaitingToReceive, Lists
<1>4. Listed(t)'
  BY <1>1, <1>2, <1>3
     DEF Enlist, Moved, TypeOK, Listed, At, Delaying, SuspendedPcs, Placing, PlaceIn,
         MembersOf, DelayedListFor, On, xTasksWaitingToReceive
<1>5. \A u \in Tasks \ {t} : Relisted(u)
  BY <1>1, <1>2
     DEF Enlist, Moved, Relisted, TypeOK, Placing, PlaceIn, MembersOf, DelayedListFor, On,
         xTasksWaitingToReceive
<1>6. cTxLock' # queueUNLOCKED <=> Locks(t)'
  BY <1>1, <1>2
     DEF Enlist, Moved, TypeOK, Structure, LockHeld, Locks, LockingPcs, SuspendedPcs,
         queueUNLOCKED, queueLOCKED_UNMODIFIED, Placing, PlaceIn, MembersOf,
         DelayedListFor, On, xTasksWaitingToReceive
<1>7. to = "enlist" => uxMessagesWaiting' <= cTxLock'
  BY <1>1, <1>2
     DEF Enlist, Moved, TypeOK, Structure, LockHeld, Locks, LockingPcs, SuspendedPcs,
         queueUNLOCKED, queueLOCKED_UNMODIFIED, Placing, PlaceIn, MembersOf,
         DelayedListFor, On, xTasksWaitingToReceive
<1>8. /\ \A u \in Tasks : event'[u] = "pending" => to \in SuspendedPcs \ {"ticking"}
      /\ uxPendedTicks' > 0 => to \in SuspendedPcs
      /\ to = "ticking" => uxPendedTicks' > 0
  BY <1>1, <1>2
     DEF Enlist, Moved, TypeOK, Structure, PendingHeld, SuspendedPcs, Placing, PlaceIn,
         MembersOf, DelayedListFor, On, xTasksWaitingToReceive
<1>9. QED
  BY <1>1, <1>2, <1>3, <1>4, <1>5, <1>6, <1>7, <1>8, StructureKeptByTask DEF Pcs

LEMMA LinkStructure ==
    ASSUME Structure, NEW t \in Tasks, Link(t)
    PROVE  Structure'
<1> DEFINE to == IF event[t] = "queue" THEN "unlock" ELSE "resume"
<1>1. Structure /\ TypeOK /\ Listed(t)
  BY DEF Structure, ListedWell
<1>2. Moved(t, "link", to) /\ to \in Pcs
  BY MovesAlone DEF Link, Pcs
<1>3. TypeOK'
  BY <1>1, <1>2, TickAssumption
     DEF Link, Moved, TypeOK, Pcs, SuspendedPcs, Lists, Nowhere, Listed, Ticks,
         portMAX_DELAY
<1>4. Listed(t)'
  BY <1>1, <1>2, <1>3 DEF Link, Moved, TypeOK, Listed, At, Delaying, SuspendedPcs, Nowhere
<1>5. \A u \in Tasks \ {t} : Relisted(u)
  BY <1>1, <1>2 DEF Link, Moved, Relisted, TypeOK
<1>6. cTxLock' # queueUNLOCKED <=> Locks(t)'
  BY <1>1, <1>2
     DEF Link, Moved, TypeOK, Structure, LockHeld, Locks, LockingPcs, SuspendedPcs,
         queueUNLOCKED, queueLOCKED_UNMODIFIED
<1>7. to = "enlist" => uxMessagesWaiting' <= cTxLock'
  BY <1>1, <1>2
     DEF Link, Moved, TypeOK, Structure, LockHeld, Locks, LockingPcs, SuspendedPcs,
         queueUNLOCKED, queueLOCKED_UNMODIFIED
<1>8. /\ \A u \in Tasks : event'[u] = "pending" => to \in SuspendedPcs \ {"ticking"}
      /\ uxPendedTicks' > 0 => to \in SuspendedPcs
      /\ to = "ticking" => uxPendedTicks' > 0
  BY <1>1, <1>2 DEF Link, Moved, TypeOK, Structure, PendingHeld, SuspendedPcs
<1>9. QED
  BY <1>1, <1>2, <1>3, <1>4, <1>5, <1>6, <1>7, <1>8, StructureKeptByTask DEF Pcs

LEMMA ResumeAllStructure ==
    ASSUME Structure, NEW t \in Tasks, ResumeAll(t)
    PROVE  Structure'
<1> DEFINE to == IF uxPendedTicks > 0 THEN "ticking" ELSE after
<1>1. Structure /\ TypeOK /\ Listed(t)
  BY DEF Structure, ListedWell
<1>2. Moved(t, "resume", to) /\ to \in Pcs
  BY MovesAlone, <1>1 DEF ResumeAll, Pcs, TypeOK
<1>a. FirstWake(On("delayed") \ xPendingReadyList) \in Ticks
  BY <1>1, <1>2, FirstWakeIsFirst DEF On, TypeOK
<1>3. TypeOK'
  BY <1>1, <1>2, <1>a, TickAssumption
     DEF ResumeAll, Moved, TypeOK, Pcs, SuspendedPcs, Lists, Ready, Released, Ticks,
         portMAX_DELAY
<1>4. Listed(t)'
  BY <1>1, <1>2, <1>3
     DEF ResumeAll, Moved, TypeOK, Listed, At, Delaying, SuspendedPcs, Ready, Released,
         xPendingReadyList
<1>5. \A u \in Tasks \ {t} : Relisted(u)
  BY <1>1, <1>2
     DEF ResumeAll, Moved, Relisted, TypeOK, Ready, Released, xPendingReadyList,
         SuspendedPcs
<1>6. cTxLock' # queueUNLOCKED <=> Locks(t)'
  BY <1>1, <1>2
     DEF ResumeAll, Moved, TypeOK, Structure, LockHeld, Locks, LockingPcs, SuspendedPcs,
         queueUNLOCKED, queueLOCKED_UNMODIFIED, Released
<1>7. to = "enlist" => uxMessagesWaiting' <= cTxLock'
  BY <1>1, <1>2
     DEF ResumeAll, Moved, TypeOK, Structure, LockHeld, Locks, LockingPcs, SuspendedPcs,
         queueUNLOCKED, queueLOCKED_UNMODIFIED
<1>8. /\ \A u \in Tasks : event'[u] = "pending" => to \in SuspendedPcs \ {"ticking"}
      /\ uxPendedTicks' > 0 => to \in SuspendedPcs
      /\ to = "ticking" => uxPendedTicks' > 0
  BY <1>1, <1>2
     DEF ResumeAll, Moved, TypeOK, Structure, PendingHeld, SuspendedPcs, Released,
         xPendingReadyList
<1>9. QED
  BY <1>1, <1>2, <1>3, <1>4, <1>5, <1>6, <1>7, <1>8, StructureKeptByTask DEF Pcs

LEMMA CatchUpStructure ==
    ASSUME Structure, NEW t \in Tasks, CatchUp(t)
    PROVE  Structure'
<1> DEFINE to == IF uxPendedTicks > 1 THEN "ticking" ELSE after
<1>1. Structure /\ TypeOK /\ Listed(t)
  BY DEF Structure, ListedWell
<1>2. Moved(t, "ticking", to) /\ to \in Pcs
  BY MovesAlone, <1>1 DEF CatchUp, Pcs, TypeOK
<1>a. /\ list' \in [Tasks -> Lists] /\ wake' \in [Tasks -> Ticks]
      /\ event' \in [Tasks -> {"none", "queue", "pending"}]
      /\ xTickCount' \in Ticks /\ xNumOfOverflows' \in Overflows
      /\ xNextTaskUnblockTime' \in Ticks /\ ucDelayAborted' = ucDelayAborted
  BY <1>1, <1>2, TicksPassed, TickAssumption
     DEF CatchUp, TypeOK, Ticks, Overflows, OneMore, portMAX_DELAY
<1>b. uxPendedTicks > 0 /\ \A u \in Tasks : event[u] # "pending" /\ pc[u] # "link"
  BY <1>1, <1>2 DEF Structure, PendingHeld, Moved, SuspendedPcs
<1>d. /\ uxPendedTicks' \in 0..PendLimit
      /\ after' \in {"run", "delaying", "again", "gaveUp"} /\ pc' \in [Tasks -> Pcs]
  BY <1>1, <1>2, <1>b, TickAssumption DEF CatchUp, TypeOK, Moved
<1>c. \A u \in Tasks : Relisted(u) /\ event'[u] # "pending"
  BY <1>1, <1>2, <1>b, TicksPassed DEF CatchUp, Relisted, SwitchedList
<1>3. TypeOK'
  BY <1>1, <1>2, <1>a, <1>d DEF CatchUp, Moved, TypeOK, Pcs, SuspendedPcs
<1>4. Listed(t)'
  BY <1>1, <1>2, <1>3, <1>c
     DEF CatchUp, Moved, TypeOK, Listed, At, Delaying, SuspendedPcs, Relisted, Switched,
         Lists
<1>5. \A u \in Tasks \ {t} : Relisted(u)
  BY <1>1, <1>2, <1>c DEF CatchUp, Moved, Relisted, TypeOK
<1>6. cTxLock' # queueUNLOCKED <=> Locks(t)'
  BY <1>1, <1>2
     DEF CatchUp, Moved, TypeOK, Structure, LockHeld, Locks, LockingPcs, SuspendedPcs,
         queueUNLOCKED, queueLOCKED_UNMODIFIED
<1>7. to = "enlist" => uxMessagesWaiting' <= cTxLock'
  BY <1>1, <1>2
     DEF CatchUp, Moved, TypeOK, Structure, LockHeld, Locks, LockingPcs, SuspendedPcs,
         queueUNLOCKED, queueLOCKED_UNMODIFIED
<1>8. /\ \A u \in Tasks : event'[u] = "pending" => to \in SuspendedPcs \ {"ticking"}
      /\ uxPendedTicks' > 0 => to \in SuspendedPcs
      /\ to = "ticking" => uxPendedTicks' > 0
  BY <1>1, <1>2, <1>b, <1>c DEF CatchUp, Moved, TypeOK, Structure, PendingHeld, SuspendedPcs
<1>9. QED
  BY <1>1, <1>2, <1>3, <1>4, <1>5, <1>6, <1>7, <1>8, StructureKeptByTask DEF Pcs

-----------------------------------------------------------------------------
(* The interrupts.                                                         *)

LEMMA TickInterruptStructure ==
    ASSUME Structure, TickInterrupt
    PROVE  Structure'
<1>1. TypeOK /\ ~InCritical /\ elapsed' \in [Tasks -> Nat]
  BY DEF Structure, TypeOK, TickInterrupt
<1>2. CASE SchedulerSuspended
  <2>1. TypeOK' /\ \A t \in Tasks : Relisted(t)
    BY <1>1, <1>2, TickAssumption
       DEF TickInterrupt, TypeOK, Relisted, listVars, queueVars, timeoutVars, placeVars
  <2>2. QED
    BY <1>1, <1>2, <2>1, StructureKeptByInterrupt
       DEF TickInterrupt, TypeOK, listVars, queueVars, placeVars
<1>3. CASE ~SchedulerSuspended
  <2>1. \A t \in Tasks : pc[t] # "link" /\ event[t] # "pending"
    BY <1>3 DEF SchedulerSuspended, SuspendedPcs, Structure, PendingHeld
  <2>2. IncrementTick /\ uxPendedTicks' = uxPendedTicks
    BY <1>3 DEF TickInterrupt
  <2>3. /\ list' \in [Tasks -> Lists] /\ wake' \in [Tasks -> Ticks]
        /\ event' \in [Tasks -> {"none", "queue", "pending"}]
        /\ xTickCount' \in Ticks /\ xNumOfOverflows' \in Overflows
        /\ xNextTaskUnblockTime' \in Ticks /\ ucDelayAborted' = ucDelayAborted
    BY <1>1, <2>2, TicksPassed, TickAssumption DEF TypeOK, Ticks, Overflows, OneMore,
                                                  portMAX_DELAY
  <2>4. \A t \in Tasks : Relisted(t) /\ event'[t] # "pending"
    BY <1>1, <2>1, <2>2, TicksPassed DEF Relisted, SwitchedList
  <2>5. TypeOK'
    BY <1>1, <2>2, <2>3 DEF TickInterrupt, TypeOK, queueVars, timeoutVars, placeVars
  <2>6. QED
    BY <1>1, <2>2, <2>4, <2>5, StructureKeptByInterrupt
       DEF TickInterrupt, queueVars, placeVars
<1>4. QED
  BY <1>2, <1>3

LEMMA GiveFromISRStructure ==
    ASSUME Structure, GiveFromISR
    PROVE  Structure'
<1>1. TypeOK /\ ~InCritical /\ uxMessagesWaiting' \in 0..uxLength
  BY TaskAssumption DEF Structure, TypeOK, GiveFromISR
<1>2. CASE cTxLock = queueUNLOCKED /\ xTasksWaitingToReceive # {}
  <2>1. \A t \in xTasksWaitingToReceive : pc[t] # "link"
    BY <1>2 DEF Structure, LockHeld, Locks, xTasksWaitingToReceive
  <2>2. WakeReceiver /\ cTxLock' = cTxLock
    BY <1>2 DEF GiveFromISR
  <2>3. /\ list' \in [Tasks -> Lists] /\ wake' \in [Tasks -> Ticks]
        /\ event' \in [Tasks -> {"none", "queue", "pending"}]
        /\ \A t \in Tasks : Relisted(t)
        /\ \A t \in Tasks :
             event'[t] = "pending" => event[t] = "pending" \/ SchedulerSuspended
    BY <1>1, <1>2, <2>1, <2>2, ReceiverWoken
  <2>4. TypeOK'
    BY <1>1, <2>2, <2>3 DEF GiveFromISR, TypeOK, tickVars, timeoutVars, placeVars, history
  <2>5. QED
    BY <1>1, <1>2, <2>2, <2>3, <2>4, StructureKeptByInterrupt
       DEF GiveFromISR, tickVars, placeVars
<1>3. CASE ~(cTxLock = queueUNLOCKED /\ xTasksWaitingToReceive # {})
  <2>1. TypeOK' /\ \A t \in Tasks : Relisted(t) /\ event'[t] = event[t]
    BY <1>1, <1>3 DEF GiveFromISR, TypeOK, Relisted, queueUNLOCKED, tickVars, timeoutVars,
                      placeVars, history
  <2>2. IF cTxLock # queueUNLOCKED THEN cTxLock' = cTxLock + 1 ELSE cTxLock' = cTxLock
    BY DEF GiveFromISR
  <2>3. uxMessagesWaiting' = uxMessagesWaiting + 1 /\ cTxLock \in Int /\ cTxLock >= -1
    BY <1>1 DEF GiveFromISR, TypeOK, queueUNLOCKED
  <2>4. /\ cTxLock' # queueUNLOCKED <=> cTxLock # queueUNLOCKED
        /\ cTxLock # queueUNLOCKED /\ uxMessagesWaiting <= cTxLock =>
             uxMessagesWaiting' <= cTxLock'
    BY <1>1, <2>2, <2>3 DEF queueUNLOCKED, TypeOK
  <2>5. QED
    BY <1>1, <2>1, <2>4, StructureKeptByInterrupt DEF GiveFromISR, tickVars, placeVars
<1>4. QED
  BY <1>2, <1>3

LEMMA ResumeFromISRStructure ==
    ASSUME Structure, NEW t \in Tasks, ResumeFromISR(t)
    PROVE  Structure'
<1>1. TypeOK /\ ~InCritical /\ list[t] = "suspended" /\ event[t] = "none" /\ Listed(t)
  BY DEF Structure, ListedWell, ResumeFromISR
<1>2. pc[t] # "link" /\ 0 \in Ticks
  BY <1>1, TickAssumption DEF Listed, Ticks, portMAX_DELAY
<1>3. /\ TypeOK' /\ \A u \in Tasks : Relisted(u)
      /\ \A u \in Tasks : event'[u] = "pending" => event[u] = "pending" \/ SchedulerSuspended
  BY <1>1, <1>2, SMTT(30) DEF ResumeFromISR, TypeOK, Relisted, Ready, Lists, tickVars, queueVars,
                    timeoutVars, placeVars, history
<1>4. QED
  BY <1>1, <1>3, StructureKeptByInterrupt DEF ResumeFromISR, tickVars, queueVars, placeVars

LEMMA AbortDelayStructure ==
    ASSUME Structure, NEW t \in Tasks, AbortDelay(t)
    PROVE  Structure'
<1>1. TypeOK /\ ~InCritical /\ pc[t] # "link" /\ 0 \in Ticks
  BY TickAssumption DEF Structure, AbortDelay, Blocked, SuspendedPcs, Ticks, portMAX_DELAY
<1>2. TypeOK' /\ \A u \in Tasks : Relisted(u) /\ (event'[u] = "pending" => event[u] = "pending")
  BY <1>1 DEF AbortDelay, TypeOK, Relisted, Ready, Released, Lists, tickVars, queueVars,
              timeoutVars, placeVars, history
<1>3. QED
  BY <1>1, <1>2, StructureKeptByInterrupt DEF AbortDelay, tickVars, queueVars, placeVars

-----------------------------------------------------------------------------
LEMMA InitStructure == Init => Structure
<1> SUFFICES ASSUME Init PROVE Structure
  OBVIOUS
<1>1. TypeOK
  BY TickAssumption, TaskAssumption
     DEF Init, TypeOK, Ticks, Overflows, Lists, Pcs, portMAX_DELAY, queueUNLOCKED, NoTimeOut,
         Nowhere
<1>2. OneSuspends /\ PendingHeld
  BY DEF Init, OneSuspends, PendingHeld, SuspendedPcs
<1>3. ListedWell
  BY DEF Init, ListedWell, Listed, At, Delaying
<1>4. LockHeld
  BY DEF Init, LockHeld, Locks, LockingPcs
<1>5. QED
  BY <1>1, <1>2, <1>3, <1>4 DEF Structure

LEMMA StutterStructure == Structure /\ UNCHANGED vars => Structure'
BY DEF Structure, TypeOK, OneSuspends, ListedWell, Listed, At, Delaying, LockHeld, Locks,
       PendingHeld, SchedulerSuspended, vars, tickVars, listVars, queueVars, timeoutVars,
       placeVars, history

LEMMA NextStructure == Structure /\ [Regular]_vars => Structure'
<1> SUFFICES ASSUME Structure, [Regular]_vars PROVE Structure'
  OBVIOUS
<1>1. CASE Interrupt
  BY <1>1, TickInterruptStructure, GiveFromISRStructure, ResumeFromISRStructure,
     AbortDelayStructure DEF Interrupt
<1>2. ASSUME NEW t \in Tasks, Receive(t) PROVE Structure'
  BY <1>2, TakeStructure, ReceiveWaitsStructure, WaitsAgainStructure, LockStructure,
     CheckForTimeOutStructure, TestEmptyStructure, EnlistStructure, UnlockStructure,
     UnlockWakesStructure, UnlockEndsStructure, GivesUpStructure, TriesOnceStructure
     DEF Receive
<1>3. ASSUME NEW t \in Tasks, TaskStep(t) PROVE Structure'
  BY <1>2, <1>3, SuspendAllStructure, ResumeAllStructure, CatchUpStructure,
     SuspendStructure,
     DelayStructure, LinkStructure, DelayReturnsStructure, SendStructure DEF TaskStep
<1>4. CASE UNCHANGED vars
  BY <1>4, StutterStructure
<1>5. QED
  BY <1>1, <1>3, <1>4 DEF Regular

-----------------------------------------------------------------------------
(* The place where an item is linked: the list is the one that was         *)
(* searched, but for tasks whose wait the radio interrupt has aborted.     *)

PlaceKept ==
    \A t \in Tasks : pc[t] \in {"enlist", "link"} =>
        LET now == MembersOf(place.list)
        IN  now \subseteq place.members /\ place.members \ now \subseteq Abortable

LEMMA WhoPlaces ==
    ASSUME TypeOK, NEW t \in Tasks, TaskStep(t), ~Delay(t), ~TestEmpty(t), ~Enlist(t)
    PROVE  Goes(t, pc[t], pc'[t]) /\ pc'[t] \in Pcs \ {"enlist", "link"}
<1>1. after \in Pcs \ {"enlist", "link"}
  BY DEF TypeOK, Pcs
<1>2. CASE Receive(t)
  BY <1>2 DEF Receive, Take, ReceiveWaits, WaitsAgain, Lock, CheckForTimeOut, Unlock,
              UnlockWakes, UnlockEnds, GivesUp, TriesOnce, Goes, TypeOK, Pcs
<1>3. CASE ~Receive(t)
  BY <1>1, <1>3
     DEF TaskStep, SuspendAll, ResumeAll, CatchUp, Suspend, Link, DelayReturns, Send,
              Goes, TypeOK, Pcs
<1>4. QED
  BY <1>2, <1>3

LEMMA PlaceLeft ==
    ASSUME TypeOK, NEW t \in Tasks, NEW from, NEW to, Moved(t, from, to),
           to \notin {"enlist", "link"}
    PROVE  PlaceKept'
BY DEF Moved, PlaceKept, TypeOK, SuspendedPcs

LEMMA PlaceStep == Structure /\ PlaceKept /\ [Regular]_vars => PlaceKept'
<1> SUFFICES ASSUME Structure, PlaceKept, [Regular]_vars PROVE PlaceKept'
  OBVIOUS
<1>1. TypeOK /\ \A t \in Tasks : Listed(t)
  BY DEF Structure, ListedWell
<1>2. ASSUME NEW t \in Tasks, TaskStep(t) PROVE PlaceKept'
  <2>1. CASE ~Delay(t) /\ ~TestEmpty(t) /\ ~Enlist(t)
    BY <1>1, <1>2, <2>1, WhoPlaces, MovesAlone, PlaceLeft DEF TypeOK
  <2>2. CASE Delay(t)
    <3>1. Moved(t, "run", "link")
      BY <2>2, MovesAlone DEF Delay, Pcs
    <3>2. PICK l \in {"delayed", "overflow"} :
            place'.list = l /\ place'.members = On(l) /\ list' = [list EXCEPT ![t] = "none"]
      BY <2>2 DEF Delay, Placing, PlaceIn, MembersOf, DelayedListFor
    <3>3. MembersOf(l)' \subseteq On(l) /\ On(l) \subseteq MembersOf(l)'
      BY <1>1, <3>1, <3>2 DEF Moved, MembersOf, On, TypeOK, SuspendedPcs
    <3>4. \A u \in Tasks : pc'[u] \in {"enlist", "link"} => u = t
      BY <3>1 DEF Moved, SuspendedPcs
    <3>5. QED
      BY <3>2, <3>3, <3>4 DEF PlaceKept
  <2>3. CASE TestEmpty(t) /\ uxMessagesWaiting # 0
    <3>1. Moved(t, "test", "unlock")
      BY <2>3, MovesAlone DEF TestEmpty, Pcs
    <3>2. QED
      BY <1>1, <3>1, PlaceLeft
  <2>4. CASE TestEmpty(t) /\ uxMessagesWaiting = 0
    <3>1. Moved(t, "test", "enlist")
      BY <2>4, MovesAlone DEF TestEmpty, Pcs
    <3>2. /\ place'.list = "queue" /\ place'.members = xTasksWaitingToReceive
          /\ xTasksWaitingToReceive' = xTasksWaitingToReceive
      BY <2>4 DEF TestEmpty, PlaceIn, MembersOf, listVars, xTasksWaitingToReceive
    <3>3. QED
      BY <3>2 DEF PlaceKept, MembersOf
  <2>5. CASE Enlist(t)
    <3>1. Moved(t, "enlist", "link")
      BY <2>5, MovesAlone DEF Enlist, Pcs
    <3>2. PICK l \in {"delayed", "overflow", "suspended"} :
            place'.list = l /\ place'.members = On(l) /\ list' = [list EXCEPT ![t] = "none"]
      BY <2>5 DEF Enlist, Placing, PlaceIn, MembersOf, DelayedListFor
    <3>3. list[t] = "ready"
      BY <1>1, <3>1 DEF Moved, Listed
    <3>4. MembersOf(l)' \subseteq On(l) /\ On(l) \subseteq MembersOf(l)'
      BY <1>1, <3>2, <3>3 DEF MembersOf, On, TypeOK
    <3>5. \A u \in Tasks : pc'[u] \in {"enlist", "link"} => u = t
      BY <3>1 DEF Moved, SuspendedPcs
    <3>6. QED
      BY <3>2, <3>4, <3>5 DEF PlaceKept
  <2>6. QED
    BY <2>1, <2>2, <2>3, <2>4, <2>5
<1>3. ASSUME Interrupt PROVE PlaceKept'
  <2> SUFFICES ASSUME NEW t \in Tasks, pc'[t] \in {"enlist", "link"}
               PROVE  /\ MembersOf(place.list)' \subseteq place'.members
                      /\ place'.members \ MembersOf(place.list)' \subseteq Abortable
    BY DEF PlaceKept
  <2>1. pc' = pc /\ place' = place
    BY <1>3 DEF Interrupt, TickInterrupt, GiveFromISR, ResumeFromISR, AbortDelay, placeVars
  <2>2. SchedulerSuspended
    BY <2>1 DEF SchedulerSuspended, SuspendedPcs
  <2>3. /\ MembersOf(place.list) \subseteq place.members
        /\ place.members \ MembersOf(place.list) \subseteq Abortable
    BY <2>1 DEF PlaceKept
  <2>4. place.list \in {"queue", "delayed", "overflow", "suspended"}
    BY <1>1, <2>1 DEF Listed
  <2>5. ASSUME xTasksWaitingToReceive' = xTasksWaitingToReceive, list' = list
        PROVE  MembersOf(place.list)' = MembersOf(place.list)
    BY <2>1, <2>5 DEF MembersOf, On
  <2>6. CASE TickInterrupt
    BY <2>1, <2>2, <2>3, <2>5, <2>6 DEF TickInterrupt, listVars, xTasksWaitingToReceive
  <2>7. CASE GiveFromISR
    <3>1. list' = list /\ event' \in [Tasks -> {"none", "queue", "pending"}]
      BY <1>1, <2>2, <2>7, HighestWaitingWaits
         DEF GiveFromISR, WakeReceiver, TypeOK, xTasksWaitingToReceive
    <3>2. CASE pc[t] = "link"
      BY <1>1, <2>1, <2>3, <3>1, <3>2 DEF Listed, MembersOf, On
    <3>3. CASE pc[t] = "enlist"
      <4>1. cTxLock # queueUNLOCKED
        BY <3>3 DEF Structure, LockHeld, Locks, LockingPcs
      <4>2. event' = event
        BY <2>7, <4>1 DEF GiveFromISR
      <4>3. QED
        BY <2>1, <2>3, <2>5, <3>1, <4>2 DEF xTasksWaitingToReceive
    <3>4. QED
      BY <2>1, <3>2, <3>3
  <2>8. ASSUME NEW u \in Tasks, ResumeFromISR(u)
        PROVE  /\ MembersOf(place.list)' \subseteq place'.members
               /\ place'.members \ MembersOf(place.list)' \subseteq Abortable
    BY <1>1, <2>1, <2>2, <2>3, <2>5, <2>8 DEF ResumeFromISR, xTasksWaitingToReceive, TypeOK
  <2>9. ASSUME NEW u \in Tasks, AbortDelay(u)
        PROVE  /\ MembersOf(place.list)' \subseteq place'.members
               /\ place'.members \ MembersOf(place.list)' \subseteq Abortable
    <3>1. /\ u \in Abortable
          /\ \A v \in Tasks \ {u} : list'[v] = list[v] /\ event'[v] = event[v]
          /\ list'[u] = "ready" /\ event'[u] = "none"
      BY <2>9 DEF AbortDelay, Ready, Released
    <3>2. /\ MembersOf(place.list)' \subseteq MembersOf(place.list)
          /\ MembersOf(place.list) \ MembersOf(place.list)' \subseteq {u}
      BY <2>1, <2>4, <3>1 DEF MembersOf, On, xTasksWaitingToReceive
    <3>3. QED
      BY <2>1, <2>3, <3>1, <3>2
  <2>10. QED
    BY <1>3, <2>6, <2>7, <2>8, <2>9 DEF Interrupt
<1>4. CASE UNCHANGED vars
  BY <1>4 DEF vars, placeVars, listVars, PlaceKept, MembersOf, On, xTasksWaitingToReceive
<1>5. QED
  BY <1>2, <1>3, <1>4 DEF Regular

-----------------------------------------------------------------------------
(* Wake-ups.                                                               *)

WakeupsKept ==
    xTasksWaitingToReceive # {} =>
        uxMessagesWaiting <= Cardinality(OnTheWay) + Pos(cTxLock)

LEMMA OnTheWayIsFinite == Cardinality(OnTheWay) \in Nat /\ IsFiniteSet(OnTheWay)
<1>1. OnTheWay \subseteq Tasks /\ IsFiniteSet(Tasks)
  BY TaskAssumption DEF OnTheWay
<1>2. QED
  BY <1>1, FS_Subset, FS_CardinalityType

\* No more messages, no one else waits, and those on their way still are.
LEMMA NoMoreMessages ==
    ASSUME TypeOK, WakeupsKept, OnTheWay \subseteq OnTheWay',
           xTasksWaitingToReceive' # {} =>
                /\ xTasksWaitingToReceive # {}
                /\ uxMessagesWaiting' - Pos(cTxLock)' <= uxMessagesWaiting - Pos(cTxLock),
           uxMessagesWaiting' \in Nat, cTxLock' \in Int
    PROVE  WakeupsKept'
<1>1. IsFiniteSet(OnTheWay') /\ Cardinality(OnTheWay') \in Nat /\ Cardinality(OnTheWay) \in Nat
  <2>1. OnTheWay' \subseteq Tasks
    BY DEF OnTheWay
  <2>2. QED
    BY <2>1, TaskAssumption, OnTheWayIsFinite, FS_Subset, FS_CardinalityType
<1>2. Cardinality(OnTheWay) <= Cardinality(OnTheWay')
  BY <1>1, FS_Subset
<1>3. Cardinality(OnTheWay)' = Cardinality(OnTheWay')
  OBVIOUS
<1>4. Pos(cTxLock) \in Nat /\ Pos(cTxLock)' \in Nat /\ uxMessagesWaiting \in Nat
  BY TaskAssumption DEF Pos, TypeOK
<1>5. QED
  BY <1>1, <1>2, <1>4 DEF WakeupsKept

\* One message more, and the task it wakes comes to the queue.
LEMMA OneWoken ==
    ASSUME TypeOK, WakeupsKept, NEW h \in xTasksWaitingToReceive, h \in OnTheWay',
           OnTheWay \subseteq OnTheWay',
           uxMessagesWaiting' - Pos(cTxLock)' <= uxMessagesWaiting - Pos(cTxLock) + 1,
           uxMessagesWaiting' \in Nat, cTxLock' \in Int
    PROVE  WakeupsKept'
<1>1. IsFiniteSet(OnTheWay') /\ Cardinality(OnTheWay') \in Nat /\ Cardinality(OnTheWay) \in Nat
  <2>1. OnTheWay' \subseteq Tasks
    BY DEF OnTheWay
  <2>2. QED
    BY <2>1, TaskAssumption, OnTheWayIsFinite, FS_Subset, FS_CardinalityType
<1>2. Cardinality(OnTheWay) + 1 <= Cardinality(OnTheWay')
  <2>1. h \notin OnTheWay
    BY DEF OnTheWay, xTasksWaitingToReceive
  <2>2. Cardinality(OnTheWay \cup {h}) = Cardinality(OnTheWay) + 1
    BY <2>1, OnTheWayIsFinite, FS_AddElement
  <2>3. Cardinality(OnTheWay \cup {h}) <= Cardinality(OnTheWay')
    BY <1>1, FS_Subset
  <2>4. QED
    BY <2>2, <2>3
<1>3. Pos(cTxLock) \in Nat /\ Pos(cTxLock)' \in Nat /\ uxMessagesWaiting \in Nat
  BY TaskAssumption DEF Pos, TypeOK
<1>4. uxMessagesWaiting <= Cardinality(OnTheWay) + Pos(cTxLock)
  BY DEF WakeupsKept
<1>5. QED
  BY <1>1, <1>2, <1>3, <1>4 DEF WakeupsKept

\* A receiver takes one and is gone.
LEMMA OneTaken ==
    ASSUME TypeOK, WakeupsKept, NEW t \in Tasks, OnTheWay \ {t} \subseteq OnTheWay',
           uxMessagesWaiting' = uxMessagesWaiting - 1,
           uxMessagesWaiting' \in Nat, cTxLock' = cTxLock,
           xTasksWaitingToReceive' = xTasksWaitingToReceive
    PROVE  WakeupsKept'
<1>1. IsFiniteSet(OnTheWay') /\ Cardinality(OnTheWay') \in Nat /\ Cardinality(OnTheWay) \in Nat
  <2>1. OnTheWay' \subseteq Tasks
    BY DEF OnTheWay
  <2>2. QED
    BY <2>1, TaskAssumption, OnTheWayIsFinite, FS_Subset, FS_CardinalityType
<1>2. Cardinality(OnTheWay) - 1 <= Cardinality(OnTheWay')
  <2>1. /\ IsFiniteSet(OnTheWay \ {t})
        /\ Cardinality(OnTheWay \ {t}) =
             IF t \in OnTheWay THEN Cardinality(OnTheWay) - 1 ELSE Cardinality(OnTheWay)
    BY OnTheWayIsFinite, FS_RemoveElement
  <2>2. Cardinality(OnTheWay \ {t}) <= Cardinality(OnTheWay')
    BY <1>1, FS_Subset
  <2>3. QED
    BY <1>1, <2>1, <2>2
<1>3. Pos(cTxLock) \in Nat /\ Pos(cTxLock)' = Pos(cTxLock) /\ uxMessagesWaiting \in Nat
  BY TaskAssumption DEF Pos, TypeOK
<1>4. QED
  BY <1>1, <1>2, <1>3 DEF WakeupsKept

\* A task that waits for a message is on its way as soon as it waits no longer.
LEMMA WaitingAgain ==
    ASSUME Structure, NEW t \in xTasksWaitingToReceive
    PROVE  At(t, "again") \/ pc[t] = "link"
BY DEF Structure, TypeOK, ListedWell, Listed, xTasksWaitingToReceive, At, Delaying, Pcs

LEMMA WokenIsOnTheWay ==
    ASSUME Structure, xTasksWaitingToReceive # {}, WakeReceiver, after' = after, pc' = pc,
           pc[HighestWaiting] # "link"
    PROVE  /\ HighestWaiting \in xTasksWaitingToReceive
           /\ HighestWaiting \in OnTheWay' /\ OnTheWay \subseteq OnTheWay'
<1>1. HighestWaiting \in xTasksWaitingToReceive /\ HighestWaiting \in Tasks
  BY HighestWaitingWaits DEF xTasksWaitingToReceive
<1>2. At(HighestWaiting, "again")
  BY <1>1, WaitingAgain
<1>3. /\ event'[HighestWaiting] # "queue"
      /\ \A u \in Tasks : event[u] # "queue" => event'[u] # "queue"
  BY <1>1 DEF WakeReceiver, Released, Structure, TypeOK
<1>4. QED
  BY <1>1, <1>2, <1>3 DEF OnTheWay, At

LEMMA OthersStayOnTheWay ==
    ASSUME Structure, NEW t \in Tasks, NEW from, NEW to, Moved(t, from, to),
           \A u \in Tasks : event'[u] = "queue" => event[u] = "queue",
           t \in OnTheWay => t \in OnTheWay'
    PROVE  OnTheWay \subseteq OnTheWay'
BY DEF Moved, OnTheWay, SuspendedPcs, Structure, TypeOK

LEMMA SuspendAllWakeup ==
    ASSUME Structure, TypeOK', WakeupsKept, NEW t \in Tasks, SuspendAll(t)
    PROVE  WakeupsKept'
<1>1. TypeOK /\ Listed(t)
  BY DEF Structure, ListedWell
<1>2. Moved(t, "run", "resume")
  BY <1>1, MovesAlone DEF SuspendAll, Pcs, TypeOK
<1>3. \A u \in Tasks : event'[u] = "queue" => event[u] = "queue"
  BY <1>1 DEF SuspendAll, TypeOK, listVars
<1>4. t \in OnTheWay => t \in OnTheWay'
  BY <1>1, <1>2, <1>3
     DEF SuspendAll, Moved, OnTheWay, Listed, At, Delaying, TypeOK, placeVars, listVars
<1>5. xTasksWaitingToReceive' # {} =>
        /\ xTasksWaitingToReceive # {}
        /\ uxMessagesWaiting' - Pos(cTxLock)' <= uxMessagesWaiting - Pos(cTxLock)
  BY <1>1, <1>3
     DEF SuspendAll, TypeOK, queueVars, xTasksWaitingToReceive, Pos, queueUNLOCKED,
         queueLOCKED_UNMODIFIED
<1>6. QED
  BY <1>1, <1>2, <1>3, <1>4, <1>5, NoMoreMessages, OthersStayOnTheWay DEF TypeOK

LEMMA ResumeAllWakeup ==
    ASSUME Structure, TypeOK', WakeupsKept, NEW t \in Tasks, ResumeAll(t)
    PROVE  WakeupsKept'
<1>1. TypeOK /\ Listed(t)
  BY DEF Structure, ListedWell
<1>2. Moved(t, "resume", IF uxPendedTicks > 0 THEN "ticking" ELSE after)
  BY <1>1, MovesAlone DEF ResumeAll, Pcs, TypeOK
<1>3. \A u \in Tasks : event'[u] = "queue" => event[u] = "queue"
  BY <1>1 DEF ResumeAll, TypeOK, listVars, Ready, Released, xPendingReadyList
<1>4. t \in OnTheWay => t \in OnTheWay'
  BY <1>1, <1>2, <1>3
     DEF ResumeAll, Moved, OnTheWay, Listed, At, Delaying, TypeOK, placeVars, listVars,
         Ready, Released, xPendingReadyList
<1>5. xTasksWaitingToReceive' # {} =>
        /\ xTasksWaitingToReceive # {}
        /\ uxMessagesWaiting' - Pos(cTxLock)' <= uxMessagesWaiting - Pos(cTxLock)
  BY <1>1, <1>3
     DEF ResumeAll, TypeOK, queueVars, xTasksWaitingToReceive, Pos, queueUNLOCKED,
         queueLOCKED_UNMODIFIED
<1>6. QED
  BY <1>1, <1>2, <1>3, <1>4, <1>5, NoMoreMessages, OthersStayOnTheWay DEF TypeOK

LEMMA CatchUpWakeup ==
    ASSUME Structure, TypeOK', WakeupsKept, NEW t \in Tasks, CatchUp(t)
    PROVE  WakeupsKept'
<1>1. TypeOK /\ Listed(t)
  BY DEF Structure, ListedWell
<1>2. Moved(t, "ticking", IF uxPendedTicks > 1 THEN "ticking" ELSE after)
  BY <1>1, MovesAlone DEF CatchUp, Pcs, TypeOK
<1>3. \A u \in Tasks : event'[u] = "queue" => event[u] = "queue"
  BY <1>1, TicksPassed DEF CatchUp, TypeOK, listVars
<1>4. t \in OnTheWay => t \in OnTheWay'
  BY <1>1, <1>2, <1>3, TicksPassed
     DEF CatchUp, Moved, OnTheWay, Listed, At, Delaying, TypeOK, placeVars, listVars
<1>5. xTasksWaitingToReceive' # {} =>
        /\ xTasksWaitingToReceive # {}
        /\ uxMessagesWaiting' - Pos(cTxLock)' <= uxMessagesWaiting - Pos(cTxLock)
  BY <1>1, <1>3
     DEF CatchUp, TypeOK, queueVars, xTasksWaitingToReceive, Pos, queueUNLOCKED,
         queueLOCKED_UNMODIFIED
<1>6. QED
  BY <1>1, <1>2, <1>3, <1>4, <1>5, NoMoreMessages, OthersStayOnTheWay DEF TypeOK

LEMMA SuspendWakeup ==
    ASSUME Structure, TypeOK', WakeupsKept, NEW t \in Tasks, Suspend(t)
    PROVE  WakeupsKept'
<1>1. TypeOK /\ Listed(t)
  BY DEF Structure, ListedWell
<1>2. Moved(t, "run", "run")
  BY <1>1, MovesAlone DEF Suspend, Pcs, TypeOK
<1>3. \A u \in Tasks : event'[u] = "queue" => event[u] = "queue"
  BY <1>1 DEF Suspend, TypeOK, listVars
<1>4. t \in OnTheWay => t \in OnTheWay'
  BY <1>1, <1>2, <1>3
     DEF Suspend, Moved, OnTheWay, Listed, At, Delaying, TypeOK, placeVars, listVars
<1>5. xTasksWaitingToReceive' # {} =>
        /\ xTasksWaitingToReceive # {}
        /\ uxMessagesWaiting' - Pos(cTxLock)' <= uxMessagesWaiting - Pos(cTxLock)
  BY <1>1, <1>3
     DEF Suspend, TypeOK, queueVars, xTasksWaitingToReceive, Pos, queueUNLOCKED,
         queueLOCKED_UNMODIFIED
<1>6. QED
  BY <1>1, <1>2, <1>3, <1>4, <1>5, NoMoreMessages, OthersStayOnTheWay DEF TypeOK

LEMMA DelayWakeup ==
    ASSUME Structure, TypeOK', WakeupsKept, NEW t \in Tasks, Delay(t)
    PROVE  WakeupsKept'
<1>1. TypeOK /\ Listed(t)
  BY DEF Structure, ListedWell
<1>2. Moved(t, "run", "link")
  BY <1>1, MovesAlone DEF Delay, Pcs, TypeOK
<1>3. \A u \in Tasks : event'[u] = "queue" => event[u] = "queue"
  BY <1>1 DEF Delay, TypeOK, listVars, Placing
<1>4. t \in OnTheWay => t \in OnTheWay'
  BY <1>1, <1>2, <1>3
     DEF Delay, Moved, OnTheWay, Listed, At, Delaying, TypeOK, placeVars, listVars,
         Placing
<1>5. xTasksWaitingToReceive' # {} =>
        /\ xTasksWaitingToReceive # {}
        /\ uxMessagesWaiting' - Pos(cTxLock)' <= uxMessagesWaiting - Pos(cTxLock)
  BY <1>1, <1>3
     DEF Delay, TypeOK, queueVars, xTasksWaitingToReceive, Pos, queueUNLOCKED,
         queueLOCKED_UNMODIFIED
<1>6. QED
  BY <1>1, <1>2, <1>3, <1>4, <1>5, NoMoreMessages, OthersStayOnTheWay DEF TypeOK

LEMMA LinkWakeup ==
    ASSUME Structure, TypeOK', WakeupsKept, NEW t \in Tasks, Link(t)
    PROVE  WakeupsKept'
<1>1. TypeOK /\ Listed(t)
  BY DEF Structure, ListedWell
<1>2. Moved(t, "link", IF event[t] = "queue" THEN "unlock" ELSE "resume")
  BY <1>1, MovesAlone DEF Link, Pcs, TypeOK
<1>3. \A u \in Tasks : event'[u] = "queue" => event[u] = "queue"
  BY <1>1 DEF Link, TypeOK, listVars
<1>4. t \in OnTheWay => t \in OnTheWay'
  BY <1>1, <1>2, <1>3
     DEF Link, Moved, OnTheWay, Listed, At, Delaying, TypeOK, placeVars, listVars
<1>5. xTasksWaitingToReceive' # {} =>
        /\ xTasksWaitingToReceive # {}
        /\ uxMessagesWaiting' - Pos(cTxLock)' <= uxMessagesWaiting - Pos(cTxLock)
  BY <1>1, <1>3
     DEF Link, TypeOK, queueVars, xTasksWaitingToReceive, Pos, queueUNLOCKED,
         queueLOCKED_UNMODIFIED
<1>6. QED
  BY <1>1, <1>2, <1>3, <1>4, <1>5, NoMoreMessages, OthersStayOnTheWay DEF TypeOK

LEMMA DelayReturnsWakeup ==
    ASSUME Structure, TypeOK', WakeupsKept, NEW t \in Tasks, DelayReturns(t)
    PROVE  WakeupsKept'
<1>1. TypeOK /\ Listed(t)
  BY DEF Structure, ListedWell
<1>2. Moved(t, "delaying", "run")
  BY <1>1, MovesAlone DEF DelayReturns, Pcs, TypeOK
<1>3. \A u \in Tasks : event'[u] = "queue" => event[u] = "queue"
  BY <1>1 DEF DelayReturns, TypeOK, listVars
<1>4. t \in OnTheWay => t \in OnTheWay'
  BY <1>1, <1>2, <1>3
     DEF DelayReturns, Moved, OnTheWay, Listed, At, Delaying, TypeOK, placeVars, listVars
<1>5. xTasksWaitingToReceive' # {} =>
        /\ xTasksWaitingToReceive # {}
        /\ uxMessagesWaiting' - Pos(cTxLock)' <= uxMessagesWaiting - Pos(cTxLock)
  BY <1>1, <1>3
     DEF DelayReturns, TypeOK, queueVars, xTasksWaitingToReceive, Pos, queueUNLOCKED,
         queueLOCKED_UNMODIFIED
<1>6. QED
  BY <1>1, <1>2, <1>3, <1>4, <1>5, NoMoreMessages, OthersStayOnTheWay DEF TypeOK

LEMMA ReceiveWaitsWakeup ==
    ASSUME Structure, TypeOK', WakeupsKept, NEW t \in Tasks, ReceiveWaits(t)
    PROVE  WakeupsKept'
<1>1. TypeOK /\ Listed(t)
  BY DEF Structure, ListedWell
<1>2. Moved(t, "run", "lock")
  BY <1>1, MovesAlone DEF ReceiveWaits, Pcs, TypeOK
<1>3. \A u \in Tasks : event'[u] = "queue" => event[u] = "queue"
  BY <1>1 DEF ReceiveWaits, TypeOK, listVars
<1>4. t \in OnTheWay => t \in OnTheWay'
  BY <1>1, <1>2, <1>3
     DEF ReceiveWaits, Moved, OnTheWay, Listed, At, Delaying, TypeOK, placeVars, listVars
<1>5. xTasksWaitingToReceive' # {} =>
        /\ xTasksWaitingToReceive # {}
        /\ uxMessagesWaiting' - Pos(cTxLock)' <= uxMessagesWaiting - Pos(cTxLock)
  BY <1>1, <1>3
     DEF ReceiveWaits, TypeOK, queueVars, xTasksWaitingToReceive, Pos, queueUNLOCKED,
         queueLOCKED_UNMODIFIED
<1>6. QED
  BY <1>1, <1>2, <1>3, <1>4, <1>5, NoMoreMessages, OthersStayOnTheWay DEF TypeOK

LEMMA WaitsAgainWakeup ==
    ASSUME Structure, TypeOK', WakeupsKept, NEW t \in Tasks, WaitsAgain(t)
    PROVE  WakeupsKept'
<1>1. TypeOK /\ Listed(t)
  BY DEF Structure, ListedWell
<1>2. Moved(t, "again", "lock")
  BY <1>1, MovesAlone DEF WaitsAgain, Pcs, TypeOK
<1>3. \A u \in Tasks : event'[u] = "queue" => event[u] = "queue"
  BY <1>1 DEF WaitsAgain, TypeOK, listVars
<1>4. t \in OnTheWay => t \in OnTheWay'
  BY <1>1, <1>2, <1>3
     DEF WaitsAgain, Moved, OnTheWay, Listed, At, Delaying, TypeOK, placeVars, listVars
<1>5. xTasksWaitingToReceive' # {} =>
        /\ xTasksWaitingToReceive # {}
        /\ uxMessagesWaiting' - Pos(cTxLock)' <= uxMessagesWaiting - Pos(cTxLock)
  BY <1>1, <1>3
     DEF WaitsAgain, TypeOK, queueVars, xTasksWaitingToReceive, Pos, queueUNLOCKED,
         queueLOCKED_UNMODIFIED
<1>6. QED
  BY <1>1, <1>2, <1>3, <1>4, <1>5, NoMoreMessages, OthersStayOnTheWay DEF TypeOK

LEMMA LockWakeup ==
    ASSUME Structure, TypeOK', WakeupsKept, NEW t \in Tasks, Lock(t)
    PROVE  WakeupsKept'
<1>1. TypeOK /\ Listed(t)
  BY DEF Structure, ListedWell
<1>2. Moved(t, "lock", "check")
  BY <1>1, MovesAlone DEF Lock, Pcs, TypeOK
<1>3. \A u \in Tasks : event'[u] = "queue" => event[u] = "queue"
  BY <1>1 DEF Lock, TypeOK, listVars
<1>4. t \in OnTheWay => t \in OnTheWay'
  BY <1>1, <1>2, <1>3
     DEF Lock, Moved, OnTheWay, Listed, At, Delaying, TypeOK, placeVars, listVars
<1>5. xTasksWaitingToReceive' # {} =>
        /\ xTasksWaitingToReceive # {}
        /\ uxMessagesWaiting' - Pos(cTxLock)' <= uxMessagesWaiting - Pos(cTxLock)
  BY <1>1, <1>3, <1>2
     DEF Lock, TypeOK, queueVars, xTasksWaitingToReceive, Pos, queueUNLOCKED,
         queueLOCKED_UNMODIFIED, Moved, SuspendedPcs
<1>6. QED
  BY <1>1, <1>2, <1>3, <1>4, <1>5, NoMoreMessages, OthersStayOnTheWay DEF TypeOK

LEMMA CheckForTimeOutWakeup ==
    ASSUME Structure, TypeOK', WakeupsKept, NEW t \in Tasks, CheckForTimeOut(t)
    PROVE  WakeupsKept'
<1>1. TypeOK /\ Listed(t)
  BY DEF Structure, ListedWell
<1>2. Moved(t, "check", IF Expired(t) THEN "unlock" ELSE "test")
  BY <1>1, MovesAlone DEF CheckForTimeOut, Pcs, TypeOK
<1>3. \A u \in Tasks : event'[u] = "queue" => event[u] = "queue"
  BY <1>1 DEF CheckForTimeOut, TypeOK, listVars
<1>4. t \in OnTheWay => t \in OnTheWay'
  BY <1>1, <1>2, <1>3
     DEF CheckForTimeOut, Moved, OnTheWay, Listed, At, Delaying, TypeOK, placeVars,
         listVars
<1>5. xTasksWaitingToReceive' # {} =>
        /\ xTasksWaitingToReceive # {}
        /\ uxMessagesWaiting' - Pos(cTxLock)' <= uxMessagesWaiting - Pos(cTxLock)
  BY <1>1, <1>3
     DEF CheckForTimeOut, TypeOK, queueVars, xTasksWaitingToReceive, Pos, queueUNLOCKED,
         queueLOCKED_UNMODIFIED
<1>6. QED
  BY <1>1, <1>2, <1>3, <1>4, <1>5, NoMoreMessages, OthersStayOnTheWay DEF TypeOK

LEMMA UnlockWakeup ==
    ASSUME Structure, TypeOK', WakeupsKept, NEW t \in Tasks, Unlock(t)
    PROVE  WakeupsKept'
<1>1. TypeOK /\ Listed(t)
  BY DEF Structure, ListedWell
<1>2. Moved(t, "unlock", "waking")
  BY <1>1, MovesAlone DEF Unlock, Pcs, TypeOK
<1>3. \A u \in Tasks : event'[u] = "queue" => event[u] = "queue"
  BY <1>1 DEF Unlock, TypeOK, listVars
<1>4. t \in OnTheWay => t \in OnTheWay'
  BY <1>1, <1>2, <1>3
     DEF Unlock, Moved, OnTheWay, Listed, At, Delaying, TypeOK, placeVars, listVars
<1>5. xTasksWaitingToReceive' # {} =>
        /\ xTasksWaitingToReceive # {}
        /\ uxMessagesWaiting' - Pos(cTxLock)' <= uxMessagesWaiting - Pos(cTxLock)
  BY <1>1, <1>3
     DEF Unlock, TypeOK, queueVars, xTasksWaitingToReceive, Pos, queueUNLOCKED,
         queueLOCKED_UNMODIFIED
<1>6. QED
  BY <1>1, <1>2, <1>3, <1>4, <1>5, NoMoreMessages, OthersStayOnTheWay DEF TypeOK

LEMMA UnlockEndsWakeup ==
    ASSUME Structure, TypeOK', WakeupsKept, NEW t \in Tasks, UnlockEnds(t)
    PROVE  WakeupsKept'
<1>1. TypeOK /\ Listed(t)
  BY DEF Structure, ListedWell
<1>2. Moved(t, "waking", "resume")
  BY <1>1, MovesAlone DEF UnlockEnds, Pcs, TypeOK
<1>3. \A u \in Tasks : event'[u] = "queue" => event[u] = "queue"
  BY <1>1 DEF UnlockEnds, TypeOK, listVars
<1>4. t \in OnTheWay => t \in OnTheWay'
  BY <1>1, <1>2, <1>3
     DEF UnlockEnds, Moved, OnTheWay, Listed, At, Delaying, TypeOK, placeVars, listVars
<1>5. xTasksWaitingToReceive' # {} =>
        /\ xTasksWaitingToReceive # {}
        /\ uxMessagesWaiting' - Pos(cTxLock)' <= uxMessagesWaiting - Pos(cTxLock)
  BY <1>1, <1>3
     DEF UnlockEnds, TypeOK, queueVars, xTasksWaitingToReceive, Pos, queueUNLOCKED,
         queueLOCKED_UNMODIFIED
<1>6. QED
  BY <1>1, <1>2, <1>3, <1>4, <1>5, NoMoreMessages, OthersStayOnTheWay DEF TypeOK

LEMMA TriesOnceWakeup ==
    ASSUME Structure, TypeOK', WakeupsKept, NEW t \in Tasks, TriesOnce(t)
    PROVE  WakeupsKept'
<1>1. TypeOK /\ Listed(t)
  BY DEF Structure, ListedWell
<1>2. Moved(t, "gaveUp", "again")
  BY <1>1, MovesAlone DEF TriesOnce, Pcs, TypeOK
<1>3. \A u \in Tasks : event'[u] = "queue" => event[u] = "queue"
  BY <1>1 DEF TriesOnce, TypeOK, listVars
<1>4. t \in OnTheWay => t \in OnTheWay'
  BY <1>1, <1>2, <1>3
     DEF TriesOnce, Moved, OnTheWay, Listed, At, Delaying, TypeOK, placeVars, listVars
<1>5. xTasksWaitingToReceive' # {} =>
        /\ xTasksWaitingToReceive # {}
        /\ uxMessagesWaiting' - Pos(cTxLock)' <= uxMessagesWaiting - Pos(cTxLock)
  BY <1>1, <1>3
     DEF TriesOnce, TypeOK, queueVars, xTasksWaitingToReceive, Pos, queueUNLOCKED,
         queueLOCKED_UNMODIFIED
<1>6. QED
  BY <1>1, <1>2, <1>3, <1>4, <1>5, NoMoreMessages, OthersStayOnTheWay DEF TypeOK

LEMMA TestEmptyWakeup ==
    ASSUME Structure, TypeOK', WakeupsKept, NEW t \in Tasks, TestEmpty(t)
    PROVE  WakeupsKept'
<1>1. TypeOK
  BY DEF Structure
<1>2. CASE uxMessagesWaiting = 0
  <2>1. uxMessagesWaiting' = 0 /\ cTxLock' \in Int
    BY <1>2 DEF TestEmpty, queueVars, TypeOK
  <2>2. OnTheWay' \subseteq Tasks
    BY DEF OnTheWay
  <2>3. Cardinality(OnTheWay') \in Nat
    BY <2>2, TaskAssumption, FS_Subset, FS_CardinalityType
  <2>4. QED
    BY <2>1, <2>3 DEF WakeupsKept, Pos
<1>3. CASE uxMessagesWaiting # 0
  <2>1. Moved(t, "test", "unlock") /\ Listed(t)
    BY <1>3, MovesAlone DEF TestEmpty, Pcs, Structure, ListedWell
  <2>2. t \in OnTheWay'
    BY <1>1, <2>1 DEF TestEmpty, Moved, OnTheWay, Listed, TypeOK, listVars
  <2>3. QED
    BY <1>1, <2>1, <2>2, NoMoreMessages, OthersStayOnTheWay
       DEF TestEmpty, listVars, queueVars, xTasksWaitingToReceive, TypeOK, Pos
<1>4. QED
  BY <1>2, <1>3

LEMMA EnlistWakeup ==
    ASSUME Structure, TypeOK', NEW t \in Tasks, Enlist(t)
    PROVE  WakeupsKept'
<1>1. uxMessagesWaiting <= cTxLock /\ UNCHANGED queueVars
  BY DEF Enlist, Goes, Structure, LockHeld
<1>2. OnTheWay' \subseteq Tasks
  BY DEF OnTheWay
<1>3. Cardinality(OnTheWay') \in Nat
  BY <1>2, TaskAssumption, FS_Subset, FS_CardinalityType
<1>4. QED
  BY <1>1, <1>3 DEF WakeupsKept, Pos, TypeOK, queueVars

LEMMA TakeWakeup ==
    ASSUME Structure, TypeOK', WakeupsKept, NEW t \in Tasks, Take(t)
    PROVE  WakeupsKept'
<1>1. PICK from \in Pcs : Moved(t, from, "run")
  BY MovesAlone DEF Take, Pcs
<1>2. OnTheWay \ {t} \subseteq OnTheWay'
  BY <1>1 DEF Moved, OnTheWay, SuspendedPcs, Take, listVars
<1>3. QED
  BY <1>2, OneTaken DEF Take, Structure, TypeOK, listVars, xTasksWaitingToReceive

LEMMA GivesUpWakeup ==
    ASSUME TypeOK', NEW t \in Tasks, GivesUp(t)
    PROVE  WakeupsKept'
<1>1. OnTheWay' \subseteq Tasks
  BY DEF OnTheWay
<1>2. Cardinality(OnTheWay') \in Nat
  BY <1>1, TaskAssumption, FS_Subset, FS_CardinalityType
<1>3. uxMessagesWaiting' = 0
  BY DEF GivesUp, queueVars
<1>4. QED
  BY <1>2, <1>3 DEF WakeupsKept, Pos, TypeOK

LEMMA SendWakeup ==
    ASSUME Structure, TypeOK', WakeupsKept, NEW t \in Tasks, Send(t)
    PROVE  WakeupsKept'
<1>1. TypeOK /\ Moved(t, "run", "run")
  BY MovesAlone DEF Send, Pcs, Structure
<1>2. CASE xTasksWaitingToReceive = {}
  BY <1>2 DEF Send, WakeupsKept, xTasksWaitingToReceive
<1>3. CASE xTasksWaitingToReceive # {}
  <2>1. WakeReceiver /\ after' = after /\ pc' = pc /\ cTxLock' = cTxLock
        /\ uxMessagesWaiting' = uxMessagesWaiting + 1
    BY <1>1, <1>3 DEF Send, Moved, placeVars, TypeOK
  <2>2. pc[HighestWaiting] # "link"
    BY <1>1, <1>3, HighestWaitingWaits DEF Moved, SuspendedPcs, xTasksWaitingToReceive
  <2>3. QED
    BY <1>1, <1>3, <2>1, <2>2, WokenIsOnTheWay, OneWoken DEF TypeOK, Pos
<1>4. QED
  BY <1>2, <1>3

LEMMA UnlockWakesWakeup ==
    ASSUME Structure, TypeOK', WakeupsKept, NEW t \in Tasks, UnlockWakes(t)
    PROVE  WakeupsKept'
<1>1. TypeOK /\ Moved(t, "waking", "waking")
  BY MovesAlone DEF UnlockWakes, Pcs, Structure
<1>2. /\ xTasksWaitingToReceive # {} /\ WakeReceiver /\ after' = after /\ pc' = pc
      /\ cTxLock > 0 /\ cTxLock' = cTxLock - 1 /\ uxMessagesWaiting' = uxMessagesWaiting
  BY <1>1 DEF UnlockWakes, Moved, placeVars, TypeOK, queueLOCKED_UNMODIFIED
<1>3. pc[HighestWaiting] # "link"
  BY <1>1, <1>2, HighestWaitingWaits DEF Moved, SuspendedPcs, xTasksWaitingToReceive
<1>4. QED
  BY <1>1, <1>2, <1>3, WokenIsOnTheWay, OneWoken, SMTT(30) DEF TypeOK, Pos

LEMMA InterruptWakeup ==
    ASSUME Structure, TypeOK', WakeupsKept, Interrupt
    PROVE  WakeupsKept'
<1>1. TypeOK /\ pc' = pc /\ after' = after
  BY
     DEF Structure, Interrupt, TickInterrupt, GiveFromISR, ResumeFromISR, AbortDelay,
         placeVars
<1>2. ASSUME \A u \in Tasks : event'[u] = "queue" => event[u] = "queue"
      PROVE  /\ OnTheWay \subseteq OnTheWay'
             /\ xTasksWaitingToReceive' # {} => xTasksWaitingToReceive # {}
  BY <1>1, <1>2 DEF OnTheWay, xTasksWaitingToReceive
<1>3. CASE TickInterrupt
  <2>1. \A u \in Tasks : event'[u] = "queue" => event[u] = "queue"
    BY <1>1, <1>3, TicksPassed DEF TickInterrupt, listVars
  <2>2. QED
    BY <1>1, <1>2, <1>3, <2>1, NoMoreMessages DEF TickInterrupt, queueVars, TypeOK, Pos
<1>4. CASE GiveFromISR /\ (cTxLock # queueUNLOCKED \/ xTasksWaitingToReceive = {})
  <2>1. event' = event
    BY <1>4 DEF GiveFromISR
  <2>2. ASSUME xTasksWaitingToReceive' # {}
        PROVE  uxMessagesWaiting' - Pos(cTxLock)' <= uxMessagesWaiting - Pos(cTxLock)
    <3>1. cTxLock # queueUNLOCKED
      BY <1>4, <2>1, <2>2 DEF xTasksWaitingToReceive
    <3>2. uxMessagesWaiting' = uxMessagesWaiting + 1 /\ cTxLock' = cTxLock + 1
      BY <1>4, <3>1 DEF GiveFromISR
    <3>3. cTxLock \in Nat /\ uxMessagesWaiting \in Nat
      BY <1>1, <3>1, TaskAssumption DEF TypeOK, queueUNLOCKED
    <3>4. QED
      BY <3>2, <3>3 DEF Pos
  <2>3. QED
    BY <1>1, <1>2, <2>1, <2>2, NoMoreMessages DEF TypeOK
<1>5. CASE GiveFromISR /\ cTxLock = queueUNLOCKED /\ xTasksWaitingToReceive # {}
  <2>1. WakeReceiver /\ cTxLock' = cTxLock /\ uxMessagesWaiting' = uxMessagesWaiting + 1
    BY <1>5 DEF GiveFromISR
  <2>2. pc[HighestWaiting] # "link"
    BY <1>5, HighestWaitingWaits DEF Structure, LockHeld, Locks, xTasksWaitingToReceive
  <2>3. QED
    BY <1>1, <1>5, <2>1, <2>2, WokenIsOnTheWay, OneWoken DEF TypeOK, Pos
<1>6. ASSUME NEW u \in Tasks, ResumeFromISR(u) \/ AbortDelay(u) PROVE WakeupsKept'
  <2>1. (\A v \in Tasks : event'[v] = "queue" => event[v] = "queue") /\ UNCHANGED queueVars
    BY <1>1, <1>6 DEF ResumeFromISR, AbortDelay, Released, TypeOK
  <2>2. QED
    BY <1>1, <1>2, <2>1, NoMoreMessages DEF queueVars, TypeOK, Pos
<1>7. QED
  BY <1>3, <1>4, <1>5, <1>6 DEF Interrupt

LEMMA WakeupStep == Structure /\ WakeupsKept /\ [Regular]_vars => WakeupsKept'
<1> SUFFICES ASSUME Structure, WakeupsKept, [Regular]_vars PROVE WakeupsKept'
  OBVIOUS
<1>1. TypeOK'
  BY NextStructure DEF Structure
<1>2. ASSUME NEW t \in Tasks, Receive(t) PROVE WakeupsKept'
  BY <1>1, <1>2, TakeWakeup, ReceiveWaitsWakeup, WaitsAgainWakeup, LockWakeup,
     CheckForTimeOutWakeup, TestEmptyWakeup, EnlistWakeup, UnlockWakeup,
     UnlockWakesWakeup, UnlockEndsWakeup, GivesUpWakeup, TriesOnceWakeup
     DEF Receive
<1>3. ASSUME NEW t \in Tasks, TaskStep(t) PROVE WakeupsKept'
  BY <1>1, <1>2, <1>3, SuspendAllWakeup, ResumeAllWakeup, CatchUpWakeup, SuspendWakeup,
     DelayWakeup, LinkWakeup, DelayReturnsWakeup, SendWakeup DEF TaskStep
<1>4. CASE UNCHANGED vars
  BY <1>4
     DEF WakeupsKept, Pos, OnTheWay, xTasksWaitingToReceive, vars, listVars, queueVars,
              placeVars
<1>5. QED
  BY <1>1, <1>3, <1>4, InterruptWakeup DEF Regular

-----------------------------------------------------------------------------
(* The ticks of a wait.                                                    *)

\* No tick is processed.
NoTick ==
    UNCHANGED <<xTickCount, xNumOfOverflows, uxPendedTicks>>

\* And the call a task is in goes on, as far as it has come.
SameCall(t) ==
    /\ asked'[t] = asked[t] /\ elapsed'[t] = elapsed[t]
    /\ xTicksToWait'[t] = xTicksToWait[t] /\ xTimeOut'[t] = xTimeOut[t]
    /\ At(t, "run")' => At(t, "run") \/ asked[t] = 0
    /\ Delaying(t)' => Delaying(t)
    /\ Receiving(t)' => Receiving(t)
    /\ pc'[t] \in {"test", "enlist"} => pc[t] \in {"test", "enlist"}

LEMMA CallGoesOn ==
    ASSUME NEW t \in Tasks, Noted(t), NoTick, SameCall(t)
    PROVE  Noted(t)'
<1>1. /\ Spent(t)' = Spent(t) /\ Limited(t)' = Limited(t) /\ Since(t)' = Since(t)
      /\ NotedThen(t)' = NotedThen(t)
  BY DEF NoTick, SameCall, Spent, Limited, Since, NotedThen
<1>2. QED
  BY <1>1 DEF SameCall, Noted

\* Its place among the delayed tasks is what it was, or it has none.
LEMMA DelayGoesOn ==
    ASSUME NEW t \in Tasks, Delayed(t), NoTick,
           asked'[t] = asked[t], elapsed'[t] = elapsed[t],
           list'[t] = "delayed" => xNextTaskUnblockTime' <= wake'[t],
           \/ ListOf(t)' = ListOf(t) /\ wake'[t] = wake[t]
           \/ ListOf(t)' \notin {"delayed", "overflow"}
    PROVE  Delayed(t)'
<1>1. Spent(t)' = Spent(t) /\ Limited(t)' = Limited(t)
  BY DEF NoTick, Spent, Limited
<1>2. CASE ListOf(t)' = ListOf(t) /\ wake'[t] = wake[t]
  <2>1. TicksLeft(t)' = TicksLeft(t)
    BY <1>2 DEF NoTick, TicksLeft
  <2>2. QED
    BY <1>1, <1>2, <2>1 DEF Delayed, NoTick
<1>3. CASE ListOf(t)' \notin {"delayed", "overflow"}
  BY <1>3 DEF Delayed
<1>4. QED
  BY <1>2, <1>3

\* A task is taken from the lists it was in by none but a tick if it only delays.
Kept(t) ==
    \/ list'[t] = list[t] /\ wake'[t] = wake[t]
    \/ /\ list'[t] = "ready"
       /\ event[t] # "none" \/ list[t] = "suspended" \/ t \in Abortable

LEMMA OneWaits ==
    ASSUME Structure, NEW t \in Tasks, WaitsWell(t), NoTick, Kept(t),
           pc'[t] = pc[t], pc[t] \in SuspendedPcs => after' = after,
           pc[t] = "link" => list'[t] = list[t] /\ event'[t] = event[t] /\ place' = place,
           asked'[t] = asked[t], elapsed'[t] = elapsed[t],
           xTicksToWait'[t] = xTicksToWait[t], xTimeOut'[t] = xTimeOut[t],
           t \notin Abortable => ucDelayAborted'[t] = ucDelayAborted[t],
           list'[t] = "delayed" => xNextTaskUnblockTime' <= wake'[t]
    PROVE  WaitsWell(t)'
<1>1. TypeOK /\ Listed(t) /\ Delayed(t) /\ Noted(t) /\ Over(t)
  BY DEF Structure, ListedWell, WaitsWell
<1>2. \A where \in Pcs : At(t, where)' <=> At(t, where)
  BY <1>1 DEF At, SuspendedPcs
<1>3. (Receiving(t)' <=> Receiving(t)) /\ (Delaying(t)' <=> Delaying(t))
  BY <1>2 DEF Receiving, Delaying, Pcs
<1>4. Noted(t)'
  BY <1>1, <1>2, <1>3, CallGoesOn DEF SameCall, Pcs
<1>5. Delayed(t)'
  BY <1>1, DelayGoesOn DEF Kept, ListOf, Listed
<1>6. At(t, "delaying") /\ list'[t] = "ready" /\ t \notin Abortable => list[t] = "ready"
  BY <1>1 DEF Kept, Listed, Delaying
<1>7. Over(t)'
  BY <1>1, <1>2, <1>3, <1>6 DEF Over, Limited, Pcs
<1>8. QED
  BY <1>4, <1>5, <1>7 DEF WaitsWell

\* The tasks that do not move.
LEMMA OthersWait ==
    ASSUME Structure, Waiting, NEW t \in Tasks, NEW from, NEW to, Moved(t, from, to), NoTick,
           \A u \in Tasks \ {t} :
                /\ asked'[u] = asked[u] /\ elapsed'[u] = elapsed[u]
                /\ xTicksToWait'[u] = xTicksToWait[u] /\ xTimeOut'[u] = xTimeOut[u]
                /\ ucDelayAborted'[u] = ucDelayAborted[u]
                /\ Kept(u)
                /\ list'[u] = "delayed" => xNextTaskUnblockTime' <= wake'[u]
    PROVE  \A u \in Tasks \ {t} : WaitsWell(u)'
<1>1. ASSUME NEW u \in Tasks \ {t} PROVE WaitsWell(u)'
  <2>1. pc'[u] = pc[u] /\ pc[u] \notin SuspendedPcs /\ pc[u] # "link"
    BY DEF Moved, SuspendedPcs
  <2>2. QED
    BY <2>1, OneWaits DEF Waiting
<1>2. QED
  BY <1>1

LEMMA SuspendAllWaits ==
    ASSUME Structure, Structure', Waiting, NEW t \in Tasks, SuspendAll(t)
    PROVE  Waiting'
<1>1. /\ TypeOK /\ TypeOK' /\ Listed(t) /\ Listed(t)' /\ WaitsWell(t)
      /\ \A u \in Tasks : Delayed(u)
  BY DEF Structure, ListedWell, Waiting, WaitsWell
<1>2. Moved(t, "run", "resume")
  BY <1>1, MovesAlone DEF SuspendAll, Pcs, TypeOK
<1>3. NoTick /\ \A u \in Tasks \ {t} :
        /\ asked'[u] = asked[u] /\ elapsed'[u] = elapsed[u]
        /\ xTicksToWait'[u] = xTicksToWait[u] /\ xTimeOut'[u] = xTimeOut[u]
        /\ ucDelayAborted'[u] = ucDelayAborted[u] /\ Kept(u)
        /\ list'[u] = "delayed" => xNextTaskUnblockTime' <= wake'[u]
  BY <1>1, <1>2 DEF SuspendAll, Moved, NoTick, Kept, Delayed, TypeOK
<1>4. \A u \in Tasks \ {t} : WaitsWell(u)'
  BY <1>2, <1>3, OthersWait
<1>5. SameCall(t)
  BY <1>1, <1>2 DEF SuspendAll, Moved, SameCall, At, Receiving, Delaying, Listed, TypeOK
<1>6. Noted(t)'
  BY <1>1, <1>3, <1>5, CallGoesOn DEF WaitsWell
<1>7. Delayed(t)'
  <2>1. list'[t] = "delayed" => xNextTaskUnblockTime' <= wake'[t]
    BY <1>1, <1>2 DEF SuspendAll, Moved, Delayed, TypeOK
  <2>2. \/ ListOf(t)' = ListOf(t) /\ wake'[t] = wake[t]
        \/ ListOf(t)' \notin {"delayed", "overflow"}
    BY <1>1, <1>2 DEF SuspendAll, Moved, ListOf, Listed, TypeOK
  <2>3. QED
    BY <1>1, <1>3, <1>5, <2>1, <2>2, DelayGoesOn DEF SameCall
<1>8. Over(t)'
  BY <1>1, <1>2, <1>5
     DEF SuspendAll, Moved, SameCall, WaitsWell, Over, Limited, At, Receiving, Delaying,
         Listed, TypeOK
<1>9. QED
  BY <1>4, <1>6, <1>7, <1>8 DEF Waiting, WaitsWell

LEMMA WaitsAgainWaits ==
    ASSUME Structure, Structure', Waiting, NEW t \in Tasks, WaitsAgain(t)
    PROVE  Waiting'
<1>1. /\ TypeOK /\ TypeOK' /\ Listed(t) /\ Listed(t)' /\ WaitsWell(t)
      /\ \A u \in Tasks : Delayed(u)
  BY DEF Structure, ListedWell, Waiting, WaitsWell
<1>2. Moved(t, "again", "lock")
  BY <1>1, MovesAlone DEF WaitsAgain, Pcs, TypeOK
<1>3. NoTick /\ \A u \in Tasks \ {t} :
        /\ asked'[u] = asked[u] /\ elapsed'[u] = elapsed[u]
        /\ xTicksToWait'[u] = xTicksToWait[u] /\ xTimeOut'[u] = xTimeOut[u]
        /\ ucDelayAborted'[u] = ucDelayAborted[u] /\ Kept(u)
        /\ list'[u] = "delayed" => xNextTaskUnblockTime' <= wake'[u]
  BY <1>1, <1>2 DEF WaitsAgain, Moved, NoTick, Kept, Delayed, TypeOK
<1>4. \A u \in Tasks \ {t} : WaitsWell(u)'
  BY <1>2, <1>3, OthersWait
<1>5. SameCall(t)
  BY <1>1, <1>2 DEF WaitsAgain, Moved, SameCall, At, Receiving, Delaying, Listed, TypeOK
<1>6. Noted(t)'
  BY <1>1, <1>3, <1>5, CallGoesOn DEF WaitsWell
<1>7. Delayed(t)'
  <2>1. list'[t] = "delayed" => xNextTaskUnblockTime' <= wake'[t]
    BY <1>1, <1>2 DEF WaitsAgain, Moved, Delayed, TypeOK
  <2>2. \/ ListOf(t)' = ListOf(t) /\ wake'[t] = wake[t]
        \/ ListOf(t)' \notin {"delayed", "overflow"}
    BY <1>1, <1>2 DEF WaitsAgain, Moved, ListOf, Listed, TypeOK
  <2>3. QED
    BY <1>1, <1>3, <1>5, <2>1, <2>2, DelayGoesOn DEF SameCall
<1>8. Over(t)'
  BY <1>1, <1>2, <1>5
     DEF WaitsAgain, Moved, SameCall, WaitsWell, Over, Limited, At, Receiving, Delaying,
         Listed, TypeOK
<1>9. QED
  BY <1>4, <1>6, <1>7, <1>8 DEF Waiting, WaitsWell

LEMMA LockWaits ==
    ASSUME Structure, Structure', Waiting, NEW t \in Tasks, Lock(t)
    PROVE  Waiting'
<1>1. /\ TypeOK /\ TypeOK' /\ Listed(t) /\ Listed(t)' /\ WaitsWell(t)
      /\ \A u \in Tasks : Delayed(u)
  BY DEF Structure, ListedWell, Waiting, WaitsWell
<1>2. Moved(t, "lock", "check")
  BY <1>1, MovesAlone DEF Lock, Pcs, TypeOK
<1>3. NoTick /\ \A u \in Tasks \ {t} :
        /\ asked'[u] = asked[u] /\ elapsed'[u] = elapsed[u]
        /\ xTicksToWait'[u] = xTicksToWait[u] /\ xTimeOut'[u] = xTimeOut[u]
        /\ ucDelayAborted'[u] = ucDelayAborted[u] /\ Kept(u)
        /\ list'[u] = "delayed" => xNextTaskUnblockTime' <= wake'[u]
  BY <1>1, <1>2 DEF Lock, Moved, NoTick, Kept, Delayed, TypeOK
<1>4. \A u \in Tasks \ {t} : WaitsWell(u)'
  BY <1>2, <1>3, OthersWait
<1>5. SameCall(t)
  BY <1>1, <1>2 DEF Lock, Moved, SameCall, At, Receiving, Delaying, Listed, TypeOK
<1>6. Noted(t)'
  BY <1>1, <1>3, <1>5, CallGoesOn DEF WaitsWell
<1>7. Delayed(t)'
  <2>1. list'[t] = "delayed" => xNextTaskUnblockTime' <= wake'[t]
    BY <1>1, <1>2 DEF Lock, Moved, Delayed, TypeOK
  <2>2. \/ ListOf(t)' = ListOf(t) /\ wake'[t] = wake[t]
        \/ ListOf(t)' \notin {"delayed", "overflow"}
    BY <1>1, <1>2 DEF Lock, Moved, ListOf, Listed, TypeOK
  <2>3. QED
    BY <1>1, <1>3, <1>5, <2>1, <2>2, DelayGoesOn DEF SameCall
<1>8. Over(t)'
  BY <1>1, <1>2, <1>5
     DEF Lock, Moved, SameCall, WaitsWell, Over, Limited, At, Receiving, Delaying, Listed,
         TypeOK
<1>9. QED
  BY <1>4, <1>6, <1>7, <1>8 DEF Waiting, WaitsWell

LEMMA UnlockWaits ==
    ASSUME Structure, Structure', Waiting, NEW t \in Tasks, Unlock(t)
    PROVE  Waiting'
<1>1. /\ TypeOK /\ TypeOK' /\ Listed(t) /\ Listed(t)' /\ WaitsWell(t)
      /\ \A u \in Tasks : Delayed(u)
  BY DEF Structure, ListedWell, Waiting, WaitsWell
<1>2. Moved(t, "unlock", "waking")
  BY <1>1, MovesAlone DEF Unlock, Pcs, TypeOK
<1>3. NoTick /\ \A u \in Tasks \ {t} :
        /\ asked'[u] = asked[u] /\ elapsed'[u] = elapsed[u]
        /\ xTicksToWait'[u] = xTicksToWait[u] /\ xTimeOut'[u] = xTimeOut[u]
        /\ ucDelayAborted'[u] = ucDelayAborted[u] /\ Kept(u)
        /\ list'[u] = "delayed" => xNextTaskUnblockTime' <= wake'[u]
  BY <1>1, <1>2 DEF Unlock, Moved, NoTick, Kept, Delayed, TypeOK
<1>4. \A u \in Tasks \ {t} : WaitsWell(u)'
  BY <1>2, <1>3, OthersWait
<1>5. SameCall(t)
  BY <1>1, <1>2 DEF Unlock, Moved, SameCall, At, Receiving, Delaying, Listed, TypeOK
<1>6. Noted(t)'
  BY <1>1, <1>3, <1>5, CallGoesOn DEF WaitsWell
<1>7. Delayed(t)'
  <2>1. list'[t] = "delayed" => xNextTaskUnblockTime' <= wake'[t]
    BY <1>1, <1>2 DEF Unlock, Moved, Delayed, TypeOK
  <2>2. \/ ListOf(t)' = ListOf(t) /\ wake'[t] = wake[t]
        \/ ListOf(t)' \notin {"delayed", "overflow"}
    BY <1>1, <1>2 DEF Unlock, Moved, ListOf, Listed, TypeOK
  <2>3. QED
    BY <1>1, <1>3, <1>5, <2>1, <2>2, DelayGoesOn DEF SameCall
<1>8. Over(t)'
  BY <1>1, <1>2, <1>5
     DEF Unlock, Moved, SameCall, WaitsWell, Over, Limited, At, Receiving, Delaying,
         Listed, TypeOK
<1>9. QED
  BY <1>4, <1>6, <1>7, <1>8 DEF Waiting, WaitsWell

LEMMA UnlockEndsWaits ==
    ASSUME Structure, Structure', Waiting, NEW t \in Tasks, UnlockEnds(t)
    PROVE  Waiting'
<1>1. /\ TypeOK /\ TypeOK' /\ Listed(t) /\ Listed(t)' /\ WaitsWell(t)
      /\ \A u \in Tasks : Delayed(u)
  BY DEF Structure, ListedWell, Waiting, WaitsWell
<1>2. Moved(t, "waking", "resume")
  BY <1>1, MovesAlone DEF UnlockEnds, Pcs, TypeOK
<1>3. NoTick /\ \A u \in Tasks \ {t} :
        /\ asked'[u] = asked[u] /\ elapsed'[u] = elapsed[u]
        /\ xTicksToWait'[u] = xTicksToWait[u] /\ xTimeOut'[u] = xTimeOut[u]
        /\ ucDelayAborted'[u] = ucDelayAborted[u] /\ Kept(u)
        /\ list'[u] = "delayed" => xNextTaskUnblockTime' <= wake'[u]
  BY <1>1, <1>2 DEF UnlockEnds, Moved, NoTick, Kept, Delayed, TypeOK
<1>4. \A u \in Tasks \ {t} : WaitsWell(u)'
  BY <1>2, <1>3, OthersWait
<1>5. SameCall(t)
  BY <1>1, <1>2 DEF UnlockEnds, Moved, SameCall, At, Receiving, Delaying, Listed, TypeOK
<1>6. Noted(t)'
  BY <1>1, <1>3, <1>5, CallGoesOn DEF WaitsWell
<1>7. Delayed(t)'
  <2>1. list'[t] = "delayed" => xNextTaskUnblockTime' <= wake'[t]
    BY <1>1, <1>2 DEF UnlockEnds, Moved, Delayed, TypeOK
  <2>2. \/ ListOf(t)' = ListOf(t) /\ wake'[t] = wake[t]
        \/ ListOf(t)' \notin {"delayed", "overflow"}
    BY <1>1, <1>2 DEF UnlockEnds, Moved, ListOf, Listed, TypeOK
  <2>3. QED
    BY <1>1, <1>3, <1>5, <2>1, <2>2, DelayGoesOn DEF SameCall
<1>8. Over(t)'
  BY <1>1, <1>2, <1>5
     DEF UnlockEnds, Moved, SameCall, WaitsWell, Over, Limited, At, Receiving, Delaying,
         Listed, TypeOK
<1>9. QED
  BY <1>4, <1>6, <1>7, <1>8 DEF Waiting, WaitsWell

LEMMA TriesOnceWaits ==
    ASSUME Structure, Structure', Waiting, NEW t \in Tasks, TriesOnce(t)
    PROVE  Waiting'
<1>1. /\ TypeOK /\ TypeOK' /\ Listed(t) /\ Listed(t)' /\ WaitsWell(t)
      /\ \A u \in Tasks : Delayed(u)
  BY DEF Structure, ListedWell, Waiting, WaitsWell
<1>2. Moved(t, "gaveUp", "again")
  BY <1>1, MovesAlone DEF TriesOnce, Pcs, TypeOK
<1>3. NoTick /\ \A u \in Tasks \ {t} :
        /\ asked'[u] = asked[u] /\ elapsed'[u] = elapsed[u]
        /\ xTicksToWait'[u] = xTicksToWait[u] /\ xTimeOut'[u] = xTimeOut[u]
        /\ ucDelayAborted'[u] = ucDelayAborted[u] /\ Kept(u)
        /\ list'[u] = "delayed" => xNextTaskUnblockTime' <= wake'[u]
  BY <1>1, <1>2 DEF TriesOnce, Moved, NoTick, Kept, Delayed, TypeOK
<1>4. \A u \in Tasks \ {t} : WaitsWell(u)'
  BY <1>2, <1>3, OthersWait
<1>5. SameCall(t)
  BY <1>1, <1>2 DEF TriesOnce, Moved, SameCall, At, Receiving, Delaying, Listed, TypeOK
<1>6. Noted(t)'
  BY <1>1, <1>3, <1>5, CallGoesOn DEF WaitsWell
<1>7. Delayed(t)'
  <2>1. list'[t] = "delayed" => xNextTaskUnblockTime' <= wake'[t]
    BY <1>1, <1>2 DEF TriesOnce, Moved, Delayed, TypeOK
  <2>2. \/ ListOf(t)' = ListOf(t) /\ wake'[t] = wake[t]
        \/ ListOf(t)' \notin {"delayed", "overflow"}
    BY <1>1, <1>2 DEF TriesOnce, Moved, ListOf, Listed, TypeOK
  <2>3. QED
    BY <1>1, <1>3, <1>5, <2>1, <2>2, DelayGoesOn DEF SameCall
<1>8. Over(t)'
  BY <1>1, <1>2, <1>5
     DEF TriesOnce, Moved, SameCall, WaitsWell, Over, Limited, At, Receiving, Delaying,
         Listed, TypeOK
<1>9. QED
  BY <1>4, <1>6, <1>7, <1>8 DEF Waiting, WaitsWell

LEMMA LinkWaits ==
    ASSUME Structure, Structure', Waiting, NEW t \in Tasks, Link(t)
    PROVE  Waiting'
<1>1. /\ TypeOK /\ TypeOK' /\ Listed(t) /\ Listed(t)' /\ WaitsWell(t)
      /\ \A u \in Tasks : Delayed(u)
  BY DEF Structure, ListedWell, Waiting, WaitsWell
<1>2. Moved(t, "link", IF event[t] = "queue" THEN "unlock" ELSE "resume")
  BY <1>1, MovesAlone DEF Link, Pcs, TypeOK
<1>a. /\ xNextTaskUnblockTime' <= xNextTaskUnblockTime
      /\ place.list = "delayed" => xNextTaskUnblockTime' <= wake[t]
      /\ \A u \in Tasks : xNextTaskUnblockTime <= wake[u] => xNextTaskUnblockTime' <= wake[u]
  BY <1>1, TickAssumption DEF Link, TypeOK, Ticks, portMAX_DELAY
<1>3. NoTick /\ \A u \in Tasks \ {t} :
        /\ asked'[u] = asked[u] /\ elapsed'[u] = elapsed[u]
        /\ xTicksToWait'[u] = xTicksToWait[u] /\ xTimeOut'[u] = xTimeOut[u]
        /\ ucDelayAborted'[u] = ucDelayAborted[u] /\ Kept(u)
        /\ list'[u] = "delayed" => xNextTaskUnblockTime' <= wake'[u]
  BY <1>1, <1>2, <1>a DEF Link, Moved, NoTick, Kept, Delayed, TypeOK
<1>4. \A u \in Tasks \ {t} : WaitsWell(u)'
  BY <1>2, <1>3, OthersWait
<1>5. SameCall(t)
  BY <1>1, <1>2, <1>a DEF Link, Moved, SameCall, At, Receiving, Delaying, Listed, TypeOK
<1>6. Noted(t)'
  BY <1>1, <1>3, <1>5, CallGoesOn DEF WaitsWell
<1>7. Delayed(t)'
  <2>1. list'[t] = "delayed" => xNextTaskUnblockTime' <= wake'[t]
    BY <1>1, <1>2, <1>a DEF Link, Moved, Delayed, TypeOK
  <2>2. \/ ListOf(t)' = ListOf(t) /\ wake'[t] = wake[t]
        \/ ListOf(t)' \notin {"delayed", "overflow"}
    BY <1>1, <1>2, <1>a DEF Link, Moved, ListOf, Listed, TypeOK
  <2>3. QED
    BY <1>1, <1>3, <1>5, <2>1, <2>2, DelayGoesOn DEF SameCall
<1>8. Over(t)'
  BY <1>1, <1>2, <1>5, <1>a
     DEF Link, Moved, SameCall, WaitsWell, Over, Limited, At, Receiving, Delaying, Listed,
         TypeOK
<1>9. QED
  BY <1>4, <1>6, <1>7, <1>8 DEF Waiting, WaitsWell

LEMMA TestEmptyWaits ==
    ASSUME Structure, Structure', Waiting, NEW t \in Tasks, TestEmpty(t)
    PROVE  Waiting'
<1>1. /\ TypeOK /\ TypeOK' /\ Listed(t) /\ Listed(t)' /\ WaitsWell(t)
      /\ \A u \in Tasks : Delayed(u)
  BY DEF Structure, ListedWell, Waiting, WaitsWell
<1>2. Moved(t, "test", IF uxMessagesWaiting = 0 THEN "enlist" ELSE "unlock")
  BY <1>1, MovesAlone DEF TestEmpty, Pcs, TypeOK
<1>3. NoTick /\ \A u \in Tasks \ {t} :
        /\ asked'[u] = asked[u] /\ elapsed'[u] = elapsed[u]
        /\ xTicksToWait'[u] = xTicksToWait[u] /\ xTimeOut'[u] = xTimeOut[u]
        /\ ucDelayAborted'[u] = ucDelayAborted[u] /\ Kept(u)
        /\ list'[u] = "delayed" => xNextTaskUnblockTime' <= wake'[u]
  BY <1>1, <1>2 DEF TestEmpty, Moved, NoTick, Kept, Delayed, TypeOK
<1>4. \A u \in Tasks \ {t} : WaitsWell(u)'
  BY <1>2, <1>3, OthersWait
<1>5. SameCall(t)
  BY <1>1, <1>2 DEF TestEmpty, Moved, SameCall, At, Receiving, Delaying, Listed, TypeOK
<1>6. Noted(t)'
  BY <1>1, <1>3, <1>5, CallGoesOn DEF WaitsWell
<1>7. Delayed(t)'
  <2>1. list'[t] = "delayed" => xNextTaskUnblockTime' <= wake'[t]
    BY <1>1, <1>2 DEF TestEmpty, Moved, Delayed, TypeOK
  <2>2. \/ ListOf(t)' = ListOf(t) /\ wake'[t] = wake[t]
        \/ ListOf(t)' \notin {"delayed", "overflow"}
    BY <1>1, <1>2 DEF TestEmpty, Moved, ListOf, Listed, TypeOK
  <2>3. QED
    BY <1>1, <1>3, <1>5, <2>1, <2>2, DelayGoesOn DEF SameCall
<1>8. Over(t)'
  BY <1>1, <1>2, <1>5
     DEF TestEmpty, Moved, SameCall, WaitsWell, Over, Limited, At, Receiving, Delaying,
         Listed, TypeOK
<1>9. QED
  BY <1>4, <1>6, <1>7, <1>8 DEF Waiting, WaitsWell

LEMMA SuspendWaits ==
    ASSUME Structure, Structure', Waiting, NEW t \in Tasks, Suspend(t)
    PROVE  Waiting'
<1>1. /\ TypeOK /\ TypeOK' /\ Listed(t) /\ Listed(t)' /\ WaitsWell(t)
      /\ \A u \in Tasks : Delayed(u)
  BY DEF Structure, ListedWell, Waiting, WaitsWell
<1>2. Moved(t, "run", "run")
  BY <1>1, MovesAlone DEF Suspend, Pcs, TypeOK
<1>a. \A u \in On("delayed") : xNextTaskUnblockTime' <= wake[u]
  BY <1>1, FirstWakeIsFirst DEF Suspend, On, TypeOK
<1>3. NoTick /\ \A u \in Tasks \ {t} :
        /\ asked'[u] = asked[u] /\ elapsed'[u] = elapsed[u]
        /\ xTicksToWait'[u] = xTicksToWait[u] /\ xTimeOut'[u] = xTimeOut[u]
        /\ ucDelayAborted'[u] = ucDelayAborted[u] /\ Kept(u)
        /\ list'[u] = "delayed" => xNextTaskUnblockTime' <= wake'[u]
  BY <1>1, <1>2, <1>a DEF Suspend, Moved, NoTick, Kept, Delayed, TypeOK, On
<1>4. \A u \in Tasks \ {t} : WaitsWell(u)'
  BY <1>2, <1>3, OthersWait
<1>5. SameCall(t)
  BY <1>1, <1>2, <1>a
     DEF Suspend, Moved, SameCall, At, Receiving, Delaying, Listed, TypeOK, On
<1>6. Noted(t)'
  BY <1>1, <1>3, <1>5, CallGoesOn DEF WaitsWell
<1>7. Delayed(t)'
  <2>1. list'[t] = "delayed" => xNextTaskUnblockTime' <= wake'[t]
    BY <1>1, <1>2, <1>a DEF Suspend, Moved, Delayed, TypeOK, On
  <2>2. \/ ListOf(t)' = ListOf(t) /\ wake'[t] = wake[t]
        \/ ListOf(t)' \notin {"delayed", "overflow"}
    BY <1>1, <1>2, <1>a DEF Suspend, Moved, ListOf, Listed, TypeOK, On
  <2>3. QED
    BY <1>1, <1>3, <1>5, <2>1, <2>2, DelayGoesOn DEF SameCall
<1>8. Over(t)'
  BY <1>1, <1>2, <1>5, <1>a
     DEF Suspend, Moved, SameCall, WaitsWell, Over, Limited, At, Receiving, Delaying,
         Listed, TypeOK, On
<1>9. QED
  BY <1>4, <1>6, <1>7, <1>8 DEF Waiting, WaitsWell

LEMMA ResumeAllWaits ==
    ASSUME Structure, Structure', Waiting, NEW t \in Tasks, ResumeAll(t)
    PROVE  Waiting'
<1>1. /\ TypeOK /\ TypeOK' /\ Listed(t) /\ Listed(t)' /\ WaitsWell(t)
      /\ \A u \in Tasks : Delayed(u)
  BY DEF Structure, ListedWell, Waiting, WaitsWell
<1>2. Moved(t, "resume", IF uxPendedTicks > 0 THEN "ticking" ELSE after)
  BY <1>1, MovesAlone DEF ResumeAll, Pcs, TypeOK
<1>a. \A u \in On("delayed") \ xPendingReadyList : xNextTaskUnblockTime' <= wake[u]
  BY <1>1, FirstWakeIsFirst DEF ResumeAll, On, xPendingReadyList, TypeOK, Delayed
<1>3. NoTick /\ \A u \in Tasks \ {t} :
        /\ asked'[u] = asked[u] /\ elapsed'[u] = elapsed[u]
        /\ xTicksToWait'[u] = xTicksToWait[u] /\ xTimeOut'[u] = xTimeOut[u]
        /\ ucDelayAborted'[u] = ucDelayAborted[u] /\ Kept(u)
        /\ list'[u] = "delayed" => xNextTaskUnblockTime' <= wake'[u]
  BY <1>1, <1>2, <1>a
     DEF ResumeAll, Moved, NoTick, Kept, Delayed, TypeOK, Ready, Released, On,
         xPendingReadyList
<1>4. \A u \in Tasks \ {t} : WaitsWell(u)'
  BY <1>2, <1>3, OthersWait
<1>5. SameCall(t)
  BY <1>1, <1>2, <1>a
     DEF ResumeAll, Moved, SameCall, At, Receiving, Delaying, Listed, TypeOK, Ready,
         Released, On, xPendingReadyList
<1>6. Noted(t)'
  BY <1>1, <1>3, <1>5, CallGoesOn DEF WaitsWell
<1>7. Delayed(t)'
  <2>1. list'[t] = "delayed" => xNextTaskUnblockTime' <= wake'[t]
    BY <1>1, <1>2, <1>a
       DEF ResumeAll, Moved, Delayed, TypeOK, Ready, Released, On, xPendingReadyList
  <2>2. \/ ListOf(t)' = ListOf(t) /\ wake'[t] = wake[t]
        \/ ListOf(t)' \notin {"delayed", "overflow"}
    BY <1>1, <1>2, <1>a
       DEF ResumeAll, Moved, ListOf, Listed, TypeOK, Ready, Released, On,
           xPendingReadyList
  <2>3. QED
    BY <1>1, <1>3, <1>5, <2>1, <2>2, DelayGoesOn DEF SameCall
<1>8. Over(t)'
  BY <1>1, <1>2, <1>5, <1>a
     DEF ResumeAll, Moved, SameCall, WaitsWell, Over, Limited, At, Receiving, Delaying,
         Listed, TypeOK, Ready, Released, On, xPendingReadyList
<1>9. QED
  BY <1>4, <1>6, <1>7, <1>8 DEF Waiting, WaitsWell

LEMMA SendWaits ==
    ASSUME Structure, Structure', Waiting, NEW t \in Tasks, Send(t)
    PROVE  Waiting'
<1>1. /\ TypeOK /\ TypeOK' /\ Listed(t) /\ Listed(t)' /\ WaitsWell(t)
      /\ \A u \in Tasks : Delayed(u)
  BY DEF Structure, ListedWell, Waiting, WaitsWell
<1>2. Moved(t, "run", "run")
  BY <1>1, MovesAlone DEF Send, Pcs, TypeOK
<1>a. xTasksWaitingToReceive # {} =>
        HighestWaiting \in Tasks /\ event[HighestWaiting] = "queue"
  BY HighestWaitingWaits DEF xTasksWaitingToReceive
<1>3. NoTick /\ \A u \in Tasks \ {t} :
        /\ asked'[u] = asked[u] /\ elapsed'[u] = elapsed[u]
        /\ xTicksToWait'[u] = xTicksToWait[u] /\ xTimeOut'[u] = xTimeOut[u]
        /\ ucDelayAborted'[u] = ucDelayAborted[u] /\ Kept(u)
        /\ list'[u] = "delayed" => xNextTaskUnblockTime' <= wake'[u]
  BY <1>1, <1>2, <1>a
     DEF Send, Moved, NoTick, Kept, Delayed, TypeOK, WakeReceiver, Ready, Released
<1>4. \A u \in Tasks \ {t} : WaitsWell(u)'
  BY <1>2, <1>3, OthersWait
<1>5. SameCall(t)
  BY <1>1, <1>2, <1>a
     DEF Send, Moved, SameCall, At, Receiving, Delaying, Listed, TypeOK, WakeReceiver,
         Ready, Released
<1>6. Noted(t)'
  BY <1>1, <1>3, <1>5, CallGoesOn DEF WaitsWell
<1>7. Delayed(t)'
  <2>1. list'[t] = "delayed" => xNextTaskUnblockTime' <= wake'[t]
    BY <1>1, <1>2, <1>a DEF Send, Moved, Delayed, TypeOK, WakeReceiver, Ready, Released
  <2>2. \/ ListOf(t)' = ListOf(t) /\ wake'[t] = wake[t]
        \/ ListOf(t)' \notin {"delayed", "overflow"}
    BY <1>1, <1>2, <1>a
       DEF Send, Moved, ListOf, Listed, TypeOK, WakeReceiver, Ready, Released
  <2>3. QED
    BY <1>1, <1>3, <1>5, <2>1, <2>2, DelayGoesOn DEF SameCall
<1>8. Over(t)'
  BY <1>1, <1>2, <1>5, <1>a
     DEF Send, Moved, SameCall, WaitsWell, Over, Limited, At, Receiving, Delaying, Listed,
         TypeOK, WakeReceiver, Ready, Released
<1>9. QED
  BY <1>4, <1>6, <1>7, <1>8 DEF Waiting, WaitsWell

LEMMA UnlockWakesWaits ==
    ASSUME Structure, Structure', Waiting, NEW t \in Tasks, UnlockWakes(t)
    PROVE  Waiting'
<1>1. /\ TypeOK /\ TypeOK' /\ Listed(t) /\ Listed(t)' /\ WaitsWell(t)
      /\ \A u \in Tasks : Delayed(u)
  BY DEF Structure, ListedWell, Waiting, WaitsWell
<1>2. Moved(t, "waking", "waking")
  BY <1>1, MovesAlone DEF UnlockWakes, Pcs, TypeOK
<1>a. xTasksWaitingToReceive # {} =>
        HighestWaiting \in Tasks /\ event[HighestWaiting] = "queue"
  BY HighestWaitingWaits DEF xTasksWaitingToReceive
<1>3. NoTick /\ \A u \in Tasks \ {t} :
        /\ asked'[u] = asked[u] /\ elapsed'[u] = elapsed[u]
        /\ xTicksToWait'[u] = xTicksToWait[u] /\ xTimeOut'[u] = xTimeOut[u]
        /\ ucDelayAborted'[u] = ucDelayAborted[u] /\ Kept(u)
        /\ list'[u] = "delayed" => xNextTaskUnblockTime' <= wake'[u]
  BY <1>1, <1>2, <1>a
     DEF UnlockWakes, Moved, NoTick, Kept, Delayed, TypeOK, WakeReceiver, Ready, Released
<1>4. \A u \in Tasks \ {t} : WaitsWell(u)'
  BY <1>2, <1>3, OthersWait
<1>5. SameCall(t)
  BY <1>1, <1>2, <1>a
     DEF UnlockWakes, Moved, SameCall, At, Receiving, Delaying, Listed, TypeOK,
         WakeReceiver, Ready, Released
<1>6. Noted(t)'
  BY <1>1, <1>3, <1>5, CallGoesOn DEF WaitsWell
<1>7. Delayed(t)'
  <2>1. list'[t] = "delayed" => xNextTaskUnblockTime' <= wake'[t]
    BY <1>1, <1>2, <1>a
       DEF UnlockWakes, Moved, Delayed, TypeOK, WakeReceiver, Ready, Released
  <2>2. \/ ListOf(t)' = ListOf(t) /\ wake'[t] = wake[t]
        \/ ListOf(t)' \notin {"delayed", "overflow"}
    BY <1>1, <1>2, <1>a
       DEF UnlockWakes, Moved, ListOf, Listed, TypeOK, WakeReceiver, Ready, Released
  <2>3. QED
    BY <1>1, <1>3, <1>5, <2>1, <2>2, DelayGoesOn DEF SameCall
<1>8. Over(t)'
  BY <1>1, <1>2, <1>5, <1>a
     DEF UnlockWakes, Moved, SameCall, WaitsWell, Over, Limited, At, Receiving, Delaying,
         Listed, TypeOK, WakeReceiver, Ready, Released
<1>9. QED
  BY <1>4, <1>6, <1>7, <1>8 DEF Waiting, WaitsWell

LEMMA DelayReturnsWaits ==
    ASSUME Structure, Structure', Waiting, NEW t \in Tasks, DelayReturns(t)
    PROVE  Waiting'
<1>1. /\ TypeOK /\ TypeOK' /\ Listed(t) /\ Listed(t)' /\ WaitsWell(t)
      /\ \A u \in Tasks : Delayed(u)
  BY DEF Structure, ListedWell, Waiting, WaitsWell
<1>2. Moved(t, "delaying", "run")
  BY <1>1, MovesAlone DEF DelayReturns, Pcs, TypeOK
<1>3. NoTick /\ \A u \in Tasks \ {t} :
        /\ asked'[u] = asked[u] /\ elapsed'[u] = elapsed[u]
        /\ xTicksToWait'[u] = xTicksToWait[u] /\ xTimeOut'[u] = xTimeOut[u]
        /\ ucDelayAborted'[u] = ucDelayAborted[u] /\ Kept(u)
        /\ list'[u] = "delayed" => xNextTaskUnblockTime' <= wake'[u]
  BY <1>1, <1>2 DEF DelayReturns, Moved, NoTick, Kept, Delayed, TypeOK, Asks
<1>4. \A u \in Tasks \ {t} : WaitsWell(u)'
  BY <1>2, <1>3, OthersWait
<1>5. /\ asked'[t] = 0 /\ pc'[t] = "run" /\ list'[t] = "ready"
      /\ ucDelayAborted'[t] = ucDelayAborted[t]
  BY <1>1, <1>2
     DEF DelayReturns, Moved, Asks, ReceiveReturns, TypeOK, listVars, SuspendedPcs
<1>6. ~Limited(t)' /\ ~Receiving(t)' /\ ~Delaying(t)' /\ ~At(t, "gaveUp")' /\ ~At(t, "delaying")'
  BY <1>5 DEF Limited, Receiving, Delaying, At
<1>7. WaitsWell(t)'
  BY <1>1, <1>5, <1>6 DEF WaitsWell, Delayed, Noted, Over, ListOf
<1>8. QED
  BY <1>4, <1>7 DEF Waiting

LEMMA TakeWaits ==
    ASSUME Structure, Structure', Waiting, NEW t \in Tasks, Take(t)
    PROVE  Waiting'
<1>1. /\ TypeOK /\ TypeOK' /\ Listed(t) /\ Listed(t)' /\ WaitsWell(t)
      /\ \A u \in Tasks : Delayed(u)
  BY DEF Structure, ListedWell, Waiting, WaitsWell
<1>2. Moved(t, pc[t], "run")
  BY <1>1, MovesAlone DEF Take, Pcs, TypeOK, Goes
<1>3. NoTick /\ \A u \in Tasks \ {t} :
        /\ asked'[u] = asked[u] /\ elapsed'[u] = elapsed[u]
        /\ xTicksToWait'[u] = xTicksToWait[u] /\ xTimeOut'[u] = xTimeOut[u]
        /\ ucDelayAborted'[u] = ucDelayAborted[u] /\ Kept(u)
        /\ list'[u] = "delayed" => xNextTaskUnblockTime' <= wake'[u]
  BY <1>1, <1>2 DEF Take, Moved, NoTick, Kept, Delayed, TypeOK, Asks, ReceiveReturns
<1>4. \A u \in Tasks \ {t} : WaitsWell(u)'
  BY <1>2, <1>3, OthersWait
<1>5. /\ asked'[t] = 0 /\ pc'[t] = "run" /\ list'[t] = "ready"
      /\ ucDelayAborted'[t] = ucDelayAborted[t]
  BY <1>1, <1>2 DEF Take, Moved, Goes, Asks, ReceiveReturns, TypeOK, listVars, SuspendedPcs
<1>6. ~Limited(t)' /\ ~Receiving(t)' /\ ~Delaying(t)' /\ ~At(t, "gaveUp")' /\ ~At(t, "delaying")'
  BY <1>5 DEF Limited, Receiving, Delaying, At
<1>7. WaitsWell(t)'
  BY <1>1, <1>5, <1>6 DEF WaitsWell, Delayed, Noted, Over, ListOf
<1>8. QED
  BY <1>4, <1>7 DEF Waiting

LEMMA GivesUpWaits ==
    ASSUME Structure, Structure', Waiting, NEW t \in Tasks, GivesUp(t)
    PROVE  Waiting'
<1>1. /\ TypeOK /\ TypeOK' /\ Listed(t) /\ Listed(t)' /\ WaitsWell(t)
      /\ \A u \in Tasks : Delayed(u)
  BY DEF Structure, ListedWell, Waiting, WaitsWell
<1>2. Moved(t, pc[t], "run")
  BY <1>1, MovesAlone DEF GivesUp, Pcs, TypeOK, Goes
<1>3. NoTick /\ \A u \in Tasks \ {t} :
        /\ asked'[u] = asked[u] /\ elapsed'[u] = elapsed[u]
        /\ xTicksToWait'[u] = xTicksToWait[u] /\ xTimeOut'[u] = xTimeOut[u]
        /\ ucDelayAborted'[u] = ucDelayAborted[u] /\ Kept(u)
        /\ list'[u] = "delayed" => xNextTaskUnblockTime' <= wake'[u]
  BY <1>1, <1>2 DEF GivesUp, Moved, NoTick, Kept, Delayed, TypeOK, Asks, ReceiveReturns
<1>4. \A u \in Tasks \ {t} : WaitsWell(u)'
  BY <1>2, <1>3, OthersWait
<1>5. /\ asked'[t] = 0 /\ pc'[t] = "run" /\ list'[t] = "ready"
      /\ ucDelayAborted'[t] = ucDelayAborted[t]
  BY <1>1, <1>2
     DEF GivesUp, Moved, Goes, Asks, ReceiveReturns, TypeOK, listVars, SuspendedPcs
<1>6. ~Limited(t)' /\ ~Receiving(t)' /\ ~Delaying(t)' /\ ~At(t, "gaveUp")' /\ ~At(t, "delaying")'
  BY <1>5 DEF Limited, Receiving, Delaying, At
<1>7. WaitsWell(t)'
  BY <1>1, <1>5, <1>6 DEF WaitsWell, Delayed, Noted, Over, ListOf
<1>8. QED
  BY <1>4, <1>7 DEF Waiting

LEMMA DelayWaits ==
    ASSUME Structure, Structure', Waiting, NEW t \in Tasks, Delay(t)
    PROVE  Waiting'
<1>1. /\ TypeOK /\ TypeOK' /\ Listed(t) /\ Listed(t)' /\ WaitsWell(t)
      /\ \A u \in Tasks : Delayed(u)
  BY DEF Structure, ListedWell, Waiting, WaitsWell
<1>2. Moved(t, "run", "link")
  BY <1>1, MovesAlone DEF Delay, Pcs, TypeOK
<1>a. PICK n \in Waits : Placing(t, n, FALSE) /\ Asks(t, n)
  BY DEF Delay
<1>3. NoTick /\ \A u \in Tasks \ {t} :
        /\ asked'[u] = asked[u] /\ elapsed'[u] = elapsed[u]
        /\ xTicksToWait'[u] = xTicksToWait[u] /\ xTimeOut'[u] = xTimeOut[u]
        /\ ucDelayAborted'[u] = ucDelayAborted[u] /\ Kept(u)
        /\ list'[u] = "delayed" => xNextTaskUnblockTime' <= wake'[u]
  BY <1>1, <1>2, <1>a DEF Delay, Moved, NoTick, Kept, Delayed, TypeOK, Placing, Asks
<1>4. \A u \in Tasks \ {t} : WaitsWell(u)'
  BY <1>2, <1>3, OthersWait
<1>5. /\ n \in Nat /\ n > 0 /\ n < TickModulus - 1 /\ n + HoldUp <= TickModulus
      /\ HoldUp \in Nat /\ TickModulus \in Nat /\ xTickCount \in Nat /\ xTickCount < TickModulus
  BY <1>1, TickAssumption DEF TypeOK, Ticks, portMAX_DELAY
<1>6. /\ asked'[t] = n /\ elapsed'[t] = 0 /\ pc'[t] = "link" /\ list'[t] = "none"
      /\ wake'[t] = Plus(xTickCount, n) /\ place'.list = DelayedListFor(Plus(xTickCount, n))
      /\ ~ucDelayAborted'[t] /\ uxPendedTicks' = 0 /\ xTickCount' = xTickCount
      /\ event'[t] = "none"
  BY <1>1, <1>2, <1>a, <1>5
     DEF Delay, Moved, Placing, PlaceIn, Asks, TypeOK, tickVars, portMAX_DELAY, Listed,
         SuspendedPcs
<1>7. Limited(t)' /\ Spent(t)' = 0 /\ ListOf(t)' = DelayedListFor(Plus(xTickCount, n))
  BY <1>5, <1>6 DEF Limited, Spent, ListOf, portMAX_DELAY
<1>8. Delayed(t)'
  <2>1. CASE xTickCount + n >= TickModulus
    BY <1>5, <1>6, <1>7, <2>1 DEF Delayed, Plus, DelayedListFor, TicksLeft
  <2>2. CASE xTickCount + n < TickModulus
    BY <1>5, <1>6, <1>7, <2>2 DEF Delayed, Plus, DelayedListFor, TicksLeft
  <2>3. QED
    BY <1>5, <2>1, <2>2
<1>9. ~Receiving(t)' /\ ~At(t, "run")' /\ ~At(t, "gaveUp")' /\ ~At(t, "delaying")'
  BY <1>6 DEF Receiving, At
<1>10. Noted(t)' /\ Over(t)'
  BY <1>5, <1>6, <1>7, <1>9 DEF Noted, Over
<1>11. QED
  BY <1>4, <1>8, <1>10 DEF Waiting, WaitsWell

LEMMA ReceiveWaitsWaits ==
    ASSUME Structure, Structure', Waiting, NEW t \in Tasks, ReceiveWaits(t)
    PROVE  Waiting'
<1>1. /\ TypeOK /\ TypeOK' /\ Listed(t) /\ Listed(t)' /\ WaitsWell(t)
      /\ \A u \in Tasks : Delayed(u)
  BY DEF Structure, ListedWell, Waiting, WaitsWell
<1>2. Moved(t, "run", "lock")
  BY <1>1, MovesAlone DEF ReceiveWaits, Pcs, TypeOK
<1>a. PICK n \in Waits \cup {portMAX_DELAY} :
        Asks(t, n) /\ xTicksToWait' = [xTicksToWait EXCEPT ![t] = n]
  BY DEF ReceiveWaits
<1>3. NoTick /\ \A u \in Tasks \ {t} :
        /\ asked'[u] = asked[u] /\ elapsed'[u] = elapsed[u]
        /\ xTicksToWait'[u] = xTicksToWait[u] /\ xTimeOut'[u] = xTimeOut[u]
        /\ ucDelayAborted'[u] = ucDelayAborted[u] /\ Kept(u)
        /\ list'[u] = "delayed" => xNextTaskUnblockTime' <= wake'[u]
  BY <1>1, <1>2, <1>a DEF ReceiveWaits, Moved, NoTick, Kept, Delayed, TypeOK, Asks
<1>4. \A u \in Tasks \ {t} : WaitsWell(u)'
  BY <1>2, <1>3, OthersWait
<1>5. /\ n \in Nat
      /\ n = portMAX_DELAY \/ (n > 0 /\ n < portMAX_DELAY /\ n + HoldUp <= TickModulus)
      /\ HoldUp \in Nat /\ TickModulus \in Nat /\ xTickCount \in Nat /\ xTickCount < TickModulus
  BY <1>1, TickAssumption DEF TypeOK, Ticks, portMAX_DELAY
<1>6. /\ asked'[t] = n /\ elapsed'[t] = 0 /\ pc'[t] = "lock" /\ list'[t] = "ready"
      /\ xTicksToWait'[t] = n /\ xTimeOut'[t] = TimeOutNow
      /\ ucDelayAborted' = ucDelayAborted /\ uxPendedTicks' = 0 /\ xTickCount' = xTickCount
      /\ xNumOfOverflows' = xNumOfOverflows
  BY <1>1, <1>2, <1>a
     DEF ReceiveWaits, Moved, Asks, TypeOK, tickVars, listVars, SuspendedPcs
<1>b. Spent(t)' = 0 /\ ListOf(t)' = "ready"
  BY <1>6 DEF Spent, ListOf
<1>7. Since(t)' = 0 /\ (Limited(t)' <=> n # portMAX_DELAY)
  BY <1>5, <1>6, <1>b DEF Since, Limited, portMAX_DELAY
<1>8. NotedThen(t)'
  BY <1>5, <1>6, <1>7 DEF NotedThen, TimeOutNow
<1>9. ~Delaying(t)' /\ ~At(t, "run")' /\ ~At(t, "gaveUp")' /\ ~At(t, "delaying")'
  BY <1>6 DEF Delaying, At
<1>10. Noted(t)'
  BY <1>5, <1>6, <1>7, <1>8, <1>9 DEF Noted
<1>11. Over(t)' /\ Delayed(t)'
  BY <1>1, <1>5, <1>6, <1>b, <1>9, TickAssumption
     DEF Over, WaitsWell, Delayed, portMAX_DELAY
<1>12. QED
  BY <1>4, <1>10, <1>11 DEF Waiting, WaitsWell

LEMMA EnlistWaits ==
    ASSUME Structure, Structure', Waiting, NEW t \in Tasks, Enlist(t)
    PROVE  Waiting'
<1>1. /\ TypeOK /\ TypeOK' /\ Listed(t) /\ Listed(t)' /\ WaitsWell(t)
      /\ \A u \in Tasks : Delayed(u)
  BY DEF Structure, ListedWell, Waiting, WaitsWell
<1>2. Moved(t, "enlist", "link")
  BY <1>1, MovesAlone DEF Enlist, Pcs, TypeOK
<1>3. NoTick /\ \A u \in Tasks \ {t} :
        /\ asked'[u] = asked[u] /\ elapsed'[u] = elapsed[u]
        /\ xTicksToWait'[u] = xTicksToWait[u] /\ xTimeOut'[u] = xTimeOut[u]
        /\ ucDelayAborted'[u] = ucDelayAborted[u] /\ Kept(u)
        /\ list'[u] = "delayed" => xNextTaskUnblockTime' <= wake'[u]
  BY <1>1, <1>2 DEF Enlist, Moved, NoTick, Kept, Delayed, TypeOK, Placing
<1>4. \A u \in Tasks \ {t} : WaitsWell(u)'
  BY <1>2, <1>3, OthersWait
<1>5. /\ xTickCount \in Nat /\ xTickCount < TickModulus /\ TickModulus \in Nat
      /\ xTicksToWait[t] \in Nat /\ asked[t] \in Nat /\ Spent(t) \in Int
  BY <1>1, TickAssumption DEF TypeOK, Ticks, Spent, portMAX_DELAY
<1>6. /\ asked'[t] = asked[t] /\ elapsed'[t] = elapsed[t] /\ pc'[t] = "link"
      /\ list'[t] = "none" /\ event'[t] = "queue" /\ ~ucDelayAborted'[t]
      /\ xTicksToWait'[t] = xTicksToWait[t] /\ xTimeOut'[t] = xTimeOut[t]
  BY <1>1, <1>2 DEF Enlist, Moved, Placing, TypeOK, timeoutVars, history
<1>7. SameCall(t)
  BY <1>2, <1>6 DEF Moved, SameCall, At, Receiving, Delaying
<1>8. Noted(t)'
  BY <1>1, <1>3, <1>7, CallGoesOn DEF WaitsWell
<1>9. Over(t)'
  BY <1>1, <1>2, <1>6, <1>7 DEF Moved, SameCall, WaitsWell, Over, At, Receiving
<1>10. Delayed(t)'
  <2>1. Spent(t)' = Spent(t) /\ Limited(t)' = Limited(t) /\ xTickCount' = xTickCount
    BY <1>3, <1>6 DEF NoTick, Spent, Limited
  <2>2. CASE Limited(t)
    <3>1. /\ xTicksToWait[t] > 0 /\ xTicksToWait[t] + Spent(t) = asked[t]
          /\ xTicksToWait[t] < portMAX_DELAY
      BY <1>1, <1>2, <1>5, <2>2
         DEF WaitsWell, Noted, Moved, Limited, Receiving, portMAX_DELAY
    <3>2. /\ ListOf(t)' = DelayedListFor(Plus(xTickCount, xTicksToWait[t]))
          /\ wake'[t] = Plus(xTickCount, xTicksToWait[t])
      BY <1>1, <1>5, <1>6, <3>1 DEF Enlist, Placing, PlaceIn, ListOf, TypeOK, portMAX_DELAY
    <3>3. CASE xTickCount + xTicksToWait[t] >= TickModulus
      BY <1>5, <1>6, <2>1, <2>2, <3>1, <3>2, <3>3
         DEF Delayed, Plus, DelayedListFor, TicksLeft, portMAX_DELAY
    <3>4. CASE xTickCount + xTicksToWait[t] < TickModulus
      BY <1>5, <1>6, <2>1, <2>2, <3>1, <3>2, <3>4
         DEF Delayed, Plus, DelayedListFor, TicksLeft, portMAX_DELAY
    <3>5. QED
      BY <1>5, <3>3, <3>4
  <2>3. CASE ~Limited(t)
    <3>1. xTicksToWait[t] = portMAX_DELAY
      BY <1>1, <1>2, <2>3 DEF WaitsWell, Noted, Moved, Receiving
    <3>2. ListOf(t)' = "suspended"
      BY <1>1, <1>6, <3>1 DEF Enlist, Placing, PlaceIn, ListOf, TypeOK
    <3>3. QED
      BY <1>6, <3>2 DEF Delayed
  <2>4. QED
    BY <2>2, <2>3
<1>11. QED
  BY <1>4, <1>8, <1>9, <1>10 DEF Waiting, WaitsWell

LEMMA CheckForTimeOutWaits ==
    ASSUME Structure, Structure', Waiting, NEW t \in Tasks, CheckForTimeOut(t)
    PROVE  Waiting'
<1>1. /\ TypeOK /\ TypeOK' /\ Listed(t) /\ Listed(t)' /\ WaitsWell(t)
      /\ \A u \in Tasks : Delayed(u)
  BY DEF Structure, ListedWell, Waiting, WaitsWell
<1>2. Moved(t, "check", IF Expired(t) THEN "unlock" ELSE "test")
  BY <1>1, MovesAlone DEF CheckForTimeOut, Pcs, TypeOK
<1>3. NoTick /\ \A u \in Tasks \ {t} :
        /\ asked'[u] = asked[u] /\ elapsed'[u] = elapsed[u]
        /\ xTicksToWait'[u] = xTicksToWait[u] /\ xTimeOut'[u] = xTimeOut[u]
        /\ ucDelayAborted'[u] = ucDelayAborted[u] /\ Kept(u)
        /\ list'[u] = "delayed" => xNextTaskUnblockTime' <= wake'[u]
  BY <1>1, <1>2 DEF CheckForTimeOut, Moved, NoTick, Kept, Delayed, TypeOK
<1>4. \A u \in Tasks \ {t} : WaitsWell(u)'
  BY <1>2, <1>3, OthersWait
<1>5. /\ xTickCount \in Nat /\ xTickCount < TickModulus /\ TickModulus \in Nat
      /\ xTicksToWait[t] \in Nat /\ asked[t] \in Nat /\ Spent(t) \in Int
      /\ elapsed[t] \in Nat /\ Spent(t) <= elapsed[t]
      /\ xTimeOut[t].time \in Nat /\ xTimeOut[t].time < TickModulus
      /\ xTimeOut[t].overflows \in Nat /\ OverflowModulus \in Nat /\ OverflowModulus > 1
      /\ Receiving(t) /\ Receiving(t)'
  BY <1>1, <1>2, TickAssumption
     DEF TypeOK, Ticks, Overflows, Spent, portMAX_DELAY, Moved, Receiving, At, CheckForTimeOut
<1>6. /\ asked'[t] = asked[t] /\ elapsed'[t] = elapsed[t] /\ Spent(t)' = Spent(t)
      /\ list'[t] = "ready" /\ ~ucDelayAborted'[t] /\ Limited(t)' = Limited(t)
      /\ ListOf(t)' = "ready"
  BY <1>1, <1>2, <1>3
     DEF CheckForTimeOut, Moved, NoTick, TypeOK, history, Limited, Spent, ListOf, Listed
<1>7. /\ ~Delaying(t)' /\ ~At(t, "run")' /\ ~At(t, "delaying")'
      /\ pc'[t] = IF Expired(t) THEN "unlock" ELSE "test"
      /\ At(t, "gaveUp")' => Expired(t)
  BY <1>1, <1>2 DEF CheckForTimeOut, Moved, Delaying, At, TypeOK
\* What the test finds out of a limited wait.
<1>8. ASSUME Limited(t), xTicksToWait[t] > 0
      PROVE  /\ Since(t) = Spent(t) - (asked[t] - xTicksToWait[t])
             /\ xTicksToWait[t] <= asked[t] /\ asked[t] <= TickModulus
             /\ RoundPassed(t) <=> Since(t) = TickModulus
             /\ ~RoundPassed(t) => ElapsedTime(t) = Since(t)
  <2>1. NotedThen(t) /\ xTicksToWait[t] <= asked[t] /\ asked[t] <= TickModulus
    BY <1>1, <1>5, <1>8, TickAssumption DEF WaitsWell, Noted, Limited, portMAX_DELAY
  <2>2. Since(t) \in 0..TickModulus
    BY <2>1 DEF NotedThen
  <2>3. CASE xTimeOut[t].time + Since(t) < TickModulus
    BY <1>5, <2>1, <2>2, <2>3 DEF NotedThen, RoundPassed, ElapsedTime, Minus, Since
  <2>4. CASE xTimeOut[t].time + Since(t) >= TickModulus
    <3>1. xTickCount = xTimeOut[t].time + Since(t) - TickModulus
      BY <1>5, <2>1, <2>2, <2>4 DEF NotedThen
    <3>2. xNumOfOverflows # xTimeOut[t].overflows
      BY <1>5, <2>1, <2>2, <2>4 DEF NotedThen, OneMore
    <3>3. xTickCount >= xTimeOut[t].time <=> Since(t) = TickModulus
      BY <1>5, <2>2, <3>1
    <3>4. RoundPassed(t) <=> Since(t) = TickModulus
      BY <3>2, <3>3 DEF RoundPassed
    <3>5. ~RoundPassed(t) => ElapsedTime(t) = Since(t)
      <4>1. xTickCount < xTimeOut[t].time =>
                xTickCount - xTimeOut[t].time + TickModulus = Since(t)
        BY <1>5, <2>2, <3>1
      <4>2. ~RoundPassed(t) => xTickCount < xTimeOut[t].time
        BY <1>5, <3>2 DEF RoundPassed
      <4>3. QED
        BY <4>1, <4>2 DEF ElapsedTime, Minus
    <3>6. QED
      BY <2>1, <3>4, <3>5 DEF Since
  <2>5. QED
    BY <1>5, <2>2, <2>3, <2>4
<1>9. CASE ~Limited(t)
  <2>1. xTicksToWait[t] = portMAX_DELAY /\ asked[t] = portMAX_DELAY
    BY <1>1, <1>5, <1>9 DEF WaitsWell, Noted
  <2>2. xTicksToWait'[t] = xTicksToWait[t]
    BY <1>1, <2>1 DEF CheckForTimeOut, Forever, TypeOK
  <2>3. Noted(t)'
    BY <1>5, <1>6, <1>7, <1>9, <2>1, <2>2 DEF Noted
  <2>4. t \notin Abortable => ~Expired(t)
    BY <1>1, <2>1 DEF Expired, TimedOut, Forever, WaitsWell, Over
  <2>5. xTicksToWait[t] # 0 \/ elapsed[t] >= asked[t]
    BY <1>5, <2>1
  <2>6. QED
    BY <1>4, <1>6, <1>7, <2>2, <2>3, <2>4, <2>5 DEF Waiting, WaitsWell, Over, Delayed
<1>10. CASE Limited(t)
  <2>1. xTicksToWait[t] <= asked[t] /\ ~Forever(t)
    BY <1>1, <1>5, <1>10, TickAssumption
       DEF WaitsWell, Noted, Limited, Forever, portMAX_DELAY
  <2>2. /\ xTicksToWait'[t] = IF ucDelayAborted[t] \/ RoundPassed(t) THEN xTicksToWait[t]
                              ELSE IF TimedOut(t) THEN 0 ELSE xTicksToWait[t] - ElapsedTime(t)
        /\ xTimeOut'[t] = IF Expired(t) THEN xTimeOut[t] ELSE TimeOutNow
        /\ xTickCount' = xTickCount /\ xNumOfOverflows' = xNumOfOverflows
    BY <1>1, <1>3, <2>1 DEF CheckForTimeOut, TypeOK, NoTick
  <2>3. TimedOut(t) <=> RoundPassed(t) \/ ElapsedTime(t) >= xTicksToWait[t]
    BY <2>1 DEF TimedOut
  <2>4. ElapsedTime(t) \in Nat
    BY <1>5 DEF ElapsedTime, Minus
  <2>5. CASE Expired(t)
    <3>1. \/ xTicksToWait'[t] = xTicksToWait[t] /\ xTimeOut'[t] = xTimeOut[t]
          \/ xTicksToWait'[t] = 0
      BY <2>2, <2>5 DEF Expired
    <3>2. xTicksToWait'[t] > 0 /\ NotedThen(t) => NotedThen(t)'
      <4>1. xTicksToWait'[t] = xTicksToWait[t] => Since(t)' = Since(t)
        BY <1>6 DEF Since
      <4>2. QED
        BY <2>2, <3>1, <4>1 DEF NotedThen
    <3>3. Noted(t)'
      BY <1>1, <1>5, <1>6, <1>7, <1>10, <2>1, <2>5, <3>1, <3>2 DEF Noted, WaitsWell
    <3>4. TimedOut(t) => elapsed[t] >= asked[t] \/ t \in Abortable
      <4>1. CASE xTicksToWait[t] = 0
        BY <1>1, <1>5, <4>1 DEF WaitsWell, Over
      <4>2. CASE xTicksToWait[t] > 0
        BY <1>5, <1>8, <1>10, <2>3, <4>2 DEF Since
      <4>3. QED
        BY <1>5, <4>1, <4>2
    <3>5. t \notin Abortable => elapsed[t] >= asked[t]
      BY <1>1, <2>5, <3>4 DEF WaitsWell, Over, Expired
    <3>6. QED
      BY <1>4, <1>6, <1>7, <1>10, <3>3, <3>5 DEF Waiting, WaitsWell, Over, Delayed
  <2>6. CASE ~Expired(t)
    <3>1. ~RoundPassed(t) /\ ElapsedTime(t) < xTicksToWait[t]
      BY <1>5, <2>3, <2>4, <2>6 DEF Expired
    <3>2. xTicksToWait[t] > 0
      BY <1>5, <2>4, <3>1
    <3>3. ElapsedTime(t) = Spent(t) - (asked[t] - xTicksToWait[t])
      BY <1>8, <1>10, <3>1, <3>2
    <3>4. xTicksToWait'[t] = xTicksToWait[t] - ElapsedTime(t) /\ xTimeOut'[t] = TimeOutNow
      BY <2>2, <2>6, <3>1 DEF Expired
    <3>5. /\ xTicksToWait'[t] = asked[t] - Spent(t)
          /\ xTicksToWait'[t] > 0 /\ xTicksToWait'[t] <= asked[t]
      BY <1>5, <2>1, <2>4, <3>1, <3>3, <3>4
    <3>6. Since(t)' = 0
      BY <1>5, <1>6, <3>5 DEF Since
    <3>7. NotedThen(t)'
      BY <1>5, <2>2, <3>4, <3>6 DEF NotedThen, TimeOutNow
    <3>8. Noted(t)'
      BY <1>1, <1>5, <1>6, <1>7, <1>10, <3>5, <3>7 DEF Noted, WaitsWell
    <3>9. QED
      BY <1>4, <1>6, <1>7, <2>6, <3>5, <3>8 DEF Waiting, WaitsWell, Over, Delayed
  <2>7. QED
    BY <2>5, <2>6
<1>11. QED
  BY <1>9, <1>10

\* A tick is processed for a task: none of its calls ends, and the ticks it has
\* spent in the present one are one more.
LEMMA TickGoesBy ==
    ASSUME TypeOK, TypeOK', Waiting, IncrementTick, NEW t \in Tasks, Listed(t),
           pc[t] \notin {"link", "test", "enlist"}, pc'[t] \notin {"link", "test", "enlist"},
           asked'[t] = asked[t], elapsed'[t] \in Nat, elapsed'[t] >= elapsed[t],
           uxPendedTicks' \in Nat,
           Limited(t) => /\ elapsed'[t] - uxPendedTicks' = elapsed[t] - uxPendedTicks + 1
                         /\ elapsed'[t] <= TickModulus,
           xTicksToWait'[t] = xTicksToWait[t], xTimeOut'[t] = xTimeOut[t],
           At(t, "run")' => At(t, "run"), Delaying(t)' => Delaying(t),
           Receiving(t)' => Receiving(t), At(t, "gaveUp")' => At(t, "gaveUp"),
           At(t, "delaying")' => At(t, "delaying")
    PROVE  WaitsWell(t)'
<1>1. /\ TickModulus \in Nat /\ xTickCount \in Nat /\ xTickCount <= TickModulus - 1
      /\ wake[t] \in Nat /\ wake[t] <= TickModulus - 1 /\ asked[t] \in Nat
      /\ elapsed[t] \in Nat /\ uxPendedTicks \in Nat /\ xTicksToWait[t] \in Nat
      /\ xTimeOut[t].time \in Nat /\ xTimeOut[t].time <= TickModulus - 1
  BY TickAssumption DEF TypeOK, Ticks, portMAX_DELAY
<1>2. WaitsWell(t) /\ \A u \in Tasks : Delayed(u)
  BY DEF Waiting, WaitsWell
<1>3. /\ xTickCount' = IF xTickCount = TickModulus - 1 THEN 0 ELSE xTickCount + 1
      /\ xNumOfOverflows' = IF xTickCount = TickModulus - 1
                            THEN OneMore(xNumOfOverflows) ELSE xNumOfOverflows
      /\ ucDelayAborted' = ucDelayAborted
  BY TicksPassed DEF portMAX_DELAY
<1>4. \/ /\ SwitchedList(t) = "delayed" /\ wake[t] <= xTickCount'
         /\ list'[t] = "ready" /\ event'[t] = "none"
      \/ list'[t] = SwitchedList(t) /\ wake'[t] = wake[t] /\ event'[t] = event[t]
  BY TicksPassed
<1>5. list'[t] = "delayed" => xTickCount' < wake'[t] /\ xNextTaskUnblockTime' <= wake'[t]
  BY <1>2, TicksPassed DEF Delayed
<1>6. ListOf(t) = list[t] /\ ListOf(t)' = list'[t] /\ list[t] \in Lists
  BY DEF ListOf, TypeOK
<1>7. Limited(t)' <=> Limited(t)
  BY DEF Limited
<1>8. Limited(t) => Spent(t)' = Spent(t) + 1 /\ Since(t)' = Since(t) + 1
  BY <1>1 DEF Spent, Since
\* The list it comes to, and what is then left.
<1>9. ASSUME SwitchedList(t) \in {"delayed", "overflow"}
      PROVE  /\ list[t] \in {"delayed", "overflow"} /\ Limited(t)
             /\ Spent(t) + TicksLeft(t) = asked[t]
             /\ SwitchedList(t) = "overflow" => wake[t] < xTickCount' /\ list[t] = "overflow"
             /\ TicksLeft(t) = wake[t] - xTickCount' + 1
                               + (IF SwitchedList(t) = "overflow" THEN TickModulus ELSE 0)
  <2>1. list[t] \in {"delayed", "overflow"}
    BY <1>6, <1>9 DEF SwitchedList, Switched, Lists
  <2>2. /\ list[t] = "delayed" => xTickCount < wake[t]
        /\ list[t] = "overflow" => wake[t] < xTickCount
        /\ Limited(t) /\ Spent(t) + TicksLeft(t) = asked[t]
        /\ TicksLeft(t) = wake[t] - xTickCount + (IF list[t] = "overflow" THEN TickModulus ELSE 0)
    BY <1>2, <1>6, <2>1 DEF WaitsWell, Delayed, TicksLeft
  <2>3. CASE xTickCount = TickModulus - 1
    <3>1. list[t] = "overflow"
      BY <1>1, <2>1, <2>2, <2>3
    <3>2. SwitchedList(t) = "delayed" /\ xTickCount' = 0
      BY <1>3, <2>3, <3>1 DEF SwitchedList, Switched, portMAX_DELAY
    <3>3. QED
      BY <1>1, <2>1, <2>2, <2>3, <3>1, <3>2
  <2>4. CASE xTickCount # TickModulus - 1
    <3>1. SwitchedList(t) = list[t] /\ xTickCount' = xTickCount + 1
      BY <1>3, <2>4 DEF SwitchedList, portMAX_DELAY
    <3>2. QED
      BY <1>1, <2>1, <2>2, <3>1
  <2>5. QED
    BY <2>3, <2>4
<1>10. Delayed(t)'
  <2>1. CASE list'[t] \in {"delayed", "overflow"}
    <3>1. SwitchedList(t) = list'[t] /\ wake'[t] = wake[t]
      BY <1>4, <2>1
    <3>2. TicksLeft(t)' = wake[t] - xTickCount'
                          + (IF SwitchedList(t) = "overflow" THEN TickModulus ELSE 0)
      BY <1>6, <3>1 DEF TicksLeft
    <3>3. Limited(t) /\ Spent(t) + TicksLeft(t) = asked[t] /\ Spent(t) \in Int
      BY <1>1, <1>9, <2>1, <3>1 DEF Spent
    <3>4. xTickCount' \in Nat
      BY <1>1, <1>3
    <3>5. Spent(t)' + TicksLeft(t)' = asked[t]
      BY <1>1, <1>8, <1>9, <2>1, <3>1, <3>2, <3>3, <3>4
    <3>6. QED
      BY <1>5, <1>6, <1>7, <1>9, <2>1, <3>1, <3>3, <3>5 DEF Delayed
  <2>2. CASE list'[t] \notin {"delayed", "overflow"}
    BY <1>6, <2>2 DEF Delayed
  <2>3. QED
    BY <2>1, <2>2
<1>11. ASSUME Limited(t), NotedThen(t), Since(t)' <= TickModulus PROVE NotedThen(t)'
  <2>1. Since(t) \in 0..TickModulus /\ Since(t)' = Since(t) + 1 /\ Since(t)' \in 0..TickModulus
    BY <1>1, <1>8, <1>11 DEF NotedThen
  <2>2. CASE xTimeOut[t].time + Since(t) < TickModulus
    <3>1. xTickCount = xTimeOut[t].time + Since(t) /\ xNumOfOverflows = xTimeOut[t].overflows
      BY <1>11, <2>2 DEF NotedThen
    <3>2. CASE xTickCount = TickModulus - 1
      BY <1>1, <1>3, <2>1, <3>1, <3>2 DEF NotedThen
    <3>3. CASE xTickCount # TickModulus - 1
      BY <1>1, <1>3, <2>1, <3>1, <3>3 DEF NotedThen
    <3>4. QED
      BY <3>2, <3>3
  <2>3. CASE xTimeOut[t].time + Since(t) >= TickModulus
    <3>1. /\ xTickCount = xTimeOut[t].time + Since(t) - TickModulus
          /\ xNumOfOverflows = OneMore(xTimeOut[t].overflows)
      BY <1>1, <1>11, <2>1, <2>3 DEF NotedThen
    <3>2. xTickCount # TickModulus - 1
      BY <1>1, <2>1, <3>1
    <3>3. QED
      BY <1>1, <1>3, <2>1, <2>3, <3>1, <3>2 DEF NotedThen
  <2>4. QED
    BY <1>1, <2>1, <2>2, <2>3
<1>12. Noted(t)'
  <2>1. ASSUME Receiving(t), Limited(t), xTicksToWait[t] > 0 PROVE NotedThen(t)'
    <3>1. NotedThen(t) /\ xTicksToWait[t] <= asked[t]
      BY <1>1, <1>2, <2>1 DEF WaitsWell, Noted, Limited, portMAX_DELAY
    <3>2. Since(t)' = elapsed'[t] - uxPendedTicks' - (asked[t] - xTicksToWait[t])
      BY DEF Since, Spent
    <3>3. Since(t)' <= TickModulus
      BY <1>1, <2>1, <3>1, <3>2
    <3>4. QED
      BY <1>11, <2>1, <3>1, <3>3
  <2>2. QED
    BY <1>2, <1>7, <2>1 DEF WaitsWell, Noted
<1>13. ASSUME t \notin Abortable, At(t, "delaying")', list'[t] = "ready"
       PROVE  elapsed'[t] >= asked[t]
  <2>1. CASE list[t] = "ready"
    BY <1>1, <1>2, <1>13, <2>1 DEF WaitsWell, Over
  <2>2. CASE list[t] # "ready"
    <3>1. SwitchedList(t) = "delayed" /\ wake[t] <= xTickCount'
      BY <1>4, <1>6, <1>13, <2>2 DEF SwitchedList, Switched, Lists
    <3>2. /\ Spent(t) + TicksLeft(t) = asked[t] /\ Limited(t)
          /\ TicksLeft(t) = wake[t] - xTickCount' + 1 /\ xTickCount' \in Nat
      BY <1>1, <1>3, <1>9, <3>1
    <3>3. Spent(t) + 1 >= asked[t]
      BY <1>1, <3>1, <3>2 DEF Spent
    <3>4. QED
      BY <1>1, <3>2, <3>3 DEF Spent
  <2>3. QED
    BY <2>1, <2>2
<1>14. Over(t)'
  BY <1>1, <1>2, <1>3, <1>7, <1>13 DEF WaitsWell, Over
<1>15. QED
  BY <1>10, <1>12, <1>14 DEF WaitsWell

LEMMA CatchUpWaits ==
    ASSUME Structure, Structure', Waiting, NEW t \in Tasks, CatchUp(t)
    PROVE  Waiting'
<1>1. /\ TypeOK /\ TypeOK' /\ \A u \in Tasks : Listed(u)
      /\ Moved(t, "ticking", IF uxPendedTicks > 1 THEN "ticking" ELSE after)
  BY MovesAlone DEF Structure, ListedWell, CatchUp, Pcs, TypeOK
<1>2. uxPendedTicks > 0
  BY <1>1 DEF Structure, PendingHeld, Moved
<1>3. ASSUME NEW u \in Tasks PROVE WaitsWell(u)'
  <2>1. IncrementTick /\ UNCHANGED <<timeoutVars, history>> /\ uxPendedTicks' = uxPendedTicks - 1
    BY DEF CatchUp
  <2>2. /\ asked'[u] = asked[u] /\ elapsed'[u] = elapsed[u]
        /\ xTicksToWait'[u] = xTicksToWait[u] /\ xTimeOut'[u] = xTimeOut[u]
        /\ elapsed[u] \in Nat /\ uxPendedTicks \in Nat /\ uxPendedTicks' \in Nat
        /\ Limited(u) => elapsed[u] <= TickModulus
    BY <1>1, <2>1, TickAssumption
       DEF timeoutVars, history, TypeOK, Waiting, WaitsWell, Noted
  <2>3. \/ u # t /\ pc[u] \notin SuspendedPcs /\ pc'[u] = pc[u]
        \/ u = t /\ pc[u] = "ticking" /\ pc'[u] = "ticking" /\ after' = after
        \/ u = t /\ pc[u] = "ticking" /\ pc'[u] = after /\ after' = "run"
    BY <1>1 DEF CatchUp, Moved, TypeOK
  <2>4. /\ pc[u] \notin {"link", "test", "enlist"} /\ pc'[u] \notin {"link", "test", "enlist"}
        /\ \A where \in Pcs \ {"ticking"} : At(u, where)' => At(u, where)
    BY <1>1, <2>3 DEF At, SuspendedPcs, TypeOK
  <2>5. (Delaying(u)' => Delaying(u)) /\ (Receiving(u)' => Receiving(u))
    BY <1>1, <2>3, <2>4 DEF Delaying, Receiving, At, SuspendedPcs, TypeOK
  <2>6. QED
    BY <1>1, <2>1, <2>2, <2>4, <2>5, TickGoesBy DEF Pcs
<1>4. QED
  BY <1>3 DEF Waiting

LEMMA TickInterruptWaits ==
    ASSUME Structure, Structure', Waiting, TickInterrupt
    PROVE  Waiting'
<1>1. TypeOK /\ TypeOK' /\ \A u \in Tasks : Listed(u) /\ WaitsWell(u)
  BY DEF Structure, ListedWell, Waiting
<1>2. ASSUME NEW u \in Tasks PROVE WaitsWell(u)'
  <2>1. /\ asked'[u] = asked[u] /\ xTicksToWait'[u] = xTicksToWait[u]
        /\ xTimeOut'[u] = xTimeOut[u] /\ pc' = pc /\ after' = after /\ place' = place
        /\ elapsed'[u] = IF Limited(u) THEN elapsed[u] + 1 ELSE elapsed[u]
        /\ elapsed[u] \in Nat /\ uxPendedTicks \in Nat /\ uxPendedTicks' \in Nat
        /\ asked[u] \in Nat /\ TickModulus \in Nat
    BY <1>1, TickAssumption
       DEF TickInterrupt, timeoutVars, placeVars, TypeOK, Ticks, portMAX_DELAY
  <2>2. Limited(u) => elapsed'[u] <= TickModulus
    BY <1>1, <2>1, TickAssumption DEF TickInterrupt, WaitsWell, Noted
  <2>3. CASE SchedulerSuspended
    <3>1. /\ UNCHANGED <<xTickCount, xNumOfOverflows, xNextTaskUnblockTime, list, wake, event,
                         ucDelayAborted>>
          /\ uxPendedTicks' = uxPendedTicks + 1
      BY <2>3 DEF TickInterrupt, listVars
    <3>2. Limited(u) => Spent(u)' = Spent(u)
      BY <2>1, <3>1 DEF Spent
    <3>3. /\ Limited(u)' = Limited(u) /\ ListOf(u)' = ListOf(u) /\ TicksLeft(u)' = TicksLeft(u)
          /\ \A where \in Pcs : At(u, where)' = At(u, where)
      BY <2>1, <3>1 DEF Limited, ListOf, TicksLeft, At
    <3>4. Delaying(u)' = Delaying(u) /\ Receiving(u)' = Receiving(u)
      BY <2>1, <3>1 DEF Delaying, Receiving, At
    <3>5. Delayed(u)'
      BY <1>1, <2>1, <3>1, <3>2, <3>3 DEF WaitsWell, Delayed
    <3>6. Limited(u) /\ NotedThen(u) => NotedThen(u)'
      <4>1. Limited(u) => Since(u)' = Since(u)
        BY <2>1, <3>2 DEF Since
      <4>2. QED
        BY <2>1, <3>1, <4>1 DEF NotedThen
    <3>7. Noted(u)'
      BY <1>1, <2>1, <2>2, <3>2, <3>3, <3>4, <3>6 DEF WaitsWell, Noted, Pcs
    <3>8. Over(u)'
      BY <1>1, <2>1, <3>1, <3>3, <3>4 DEF WaitsWell, Over, Pcs
    <3>9. QED
      BY <3>5, <3>7, <3>8 DEF WaitsWell
  <2>4. CASE ~SchedulerSuspended
    <3>1. IncrementTick /\ uxPendedTicks' = uxPendedTicks
      BY <2>4 DEF TickInterrupt
    <3>2. pc[u] \notin SuspendedPcs
      BY <2>4 DEF SchedulerSuspended
    <3>3. pc[u] \notin {"link", "test", "enlist"}
      BY <3>2 DEF SuspendedPcs
    <3>4. Limited(u) => elapsed'[u] - uxPendedTicks' = elapsed[u] - uxPendedTicks + 1
      BY <2>1, <3>1
    <3>5. elapsed'[u] >= elapsed[u] /\ elapsed'[u] \in Nat
      BY <2>1
    <3>6. /\ \A where \in Pcs : At(u, where)' = At(u, where)
          /\ Delaying(u)' = Delaying(u) /\ Receiving(u)' = Receiving(u)
      BY <2>1, <3>3 DEF At, Delaying, Receiving
    <3>7. QED
      BY <1>1, <2>1, <2>2, <3>1, <3>3, <3>4, <3>5, <3>6, TickGoesBy DEF Pcs
  <2>5. QED
    BY <2>3, <2>4
<1>3. QED
  BY <1>2 DEF Waiting

LEMMA OtherInterruptWaits ==
    ASSUME Structure, Waiting,
           GiveFromISR \/ \E t \in Tasks : ResumeFromISR(t) \/ AbortDelay(t)
    PROVE  Waiting'
<1>1. TypeOK /\ \A u \in Tasks : Listed(u) /\ WaitsWell(u) /\ Delayed(u)
  BY DEF Structure, ListedWell, Waiting, WaitsWell
<1>2. /\ UNCHANGED <<tickVars, pc, timeoutVars, placeVars, history>>
      /\ \A u \in Tasks \ Abortable : ucDelayAborted'[u] = ucDelayAborted[u]
  BY <1>1 DEF GiveFromISR, ResumeFromISR, AbortDelay, TypeOK
<1>3. \A u \in Tasks : Kept(u) /\ (pc[u] = "link" => list'[u] = list[u] /\ event'[u] = event[u])
  <2>1. ASSUME GiveFromISR, NEW u \in Tasks
        PROVE  Kept(u) /\ (pc[u] = "link" => list'[u] = list[u] /\ event'[u] = event[u])
    <3>1. CASE cTxLock # queueUNLOCKED \/ xTasksWaitingToReceive = {}
      BY <1>1, <2>1, <3>1 DEF GiveFromISR, Kept
    <3>2. CASE cTxLock = queueUNLOCKED /\ xTasksWaitingToReceive # {}
      <4>1. /\ WakeReceiver /\ HighestWaiting \in Tasks /\ event[HighestWaiting] = "queue"
            /\ pc[HighestWaiting] # "link"
        BY <2>1, <3>2, HighestWaitingWaits
           DEF GiveFromISR, xTasksWaitingToReceive, Structure, LockHeld, Locks
      <4>2. QED
        BY <1>1, <4>1 DEF WakeReceiver, Ready, Released, Kept, TypeOK
    <3>3. QED
      BY <3>1, <3>2
  <2>2. ASSUME NEW t \in Tasks, ResumeFromISR(t), NEW u \in Tasks
        PROVE  Kept(u) /\ (pc[u] = "link" => list'[u] = list[u] /\ event'[u] = event[u])
    <3>1. list[t] = "suspended" /\ (pc[u] = "link" => u # t)
      BY <1>1, <2>2 DEF ResumeFromISR, Listed
    <3>2. QED
      BY <1>1, <2>2, <3>1 DEF ResumeFromISR, Ready, Kept, TypeOK
  <2>3. ASSUME NEW t \in Tasks, AbortDelay(t), NEW u \in Tasks
        PROVE  Kept(u) /\ (pc[u] = "link" => list'[u] = list[u] /\ event'[u] = event[u])
    <3>1. t \in Abortable /\ (pc[u] = "link" => u # t)
      BY <2>3 DEF AbortDelay, Blocked, SuspendedPcs
    <3>2. QED
      BY <1>1, <2>3, <3>1 DEF AbortDelay, Ready, Released, Kept, TypeOK
  <2>4. QED
    BY <2>1, <2>2, <2>3
<1>4. ASSUME NEW u \in Tasks PROVE WaitsWell(u)'
  <2>1. list'[u] = "delayed" => list[u] = "delayed" /\ wake'[u] = wake[u]
    BY <1>3 DEF Kept
  <2>2. list'[u] = "delayed" => xNextTaskUnblockTime' <= wake'[u]
    BY <1>1, <1>2, <2>1 DEF Delayed, tickVars
  <2>3. pc[u] = "link" => Kept(u) /\ list'[u] = list[u] /\ event'[u] = event[u]
    BY <1>3
  <2>4. QED
    BY <1>1, <1>2, <1>3, <2>2, <2>3, OneWaits
       DEF NoTick, tickVars, timeoutVars, placeVars, history
<1>5. QED
  BY <1>4 DEF Waiting

LEMMA InitWaits == Init => Waiting
<1> SUFFICES ASSUME Init, NEW t \in Tasks PROVE WaitsWell(t)
  BY DEF Waiting
<1>1. /\ asked[t] = 0 /\ list[t] = "ready" /\ pc[t] = "run" /\ ~ucDelayAborted[t]
      /\ ListOf(t) = "ready" /\ ~Limited(t)
  BY DEF Init, ListOf, Limited
<1>2. /\ ~Delaying(t) /\ ~Receiving(t) /\ ~At(t, "gaveUp") /\ ~At(t, "delaying")
  BY <1>1 DEF Delaying, Receiving, At
<1>3. QED
  BY <1>1, <1>2 DEF WaitsWell, Delayed, Noted, Over

LEMMA StutterWaits == Waiting /\ UNCHANGED vars => Waiting'
<1> SUFFICES ASSUME Waiting, UNCHANGED vars, NEW t \in Tasks PROVE WaitsWell(t)'
  BY DEF Waiting
<1>1. UNCHANGED <<xTickCount, xNumOfOverflows, xNextTaskUnblockTime, uxPendedTicks, list, wake,
                  event, ucDelayAborted, pc, xTicksToWait, xTimeOut, place, after, asked,
                  elapsed>>
  BY DEF vars
<1>2. WaitsWell(t) /\ NoTick /\ SameCall(t) /\ ListOf(t)' = ListOf(t)
  BY <1>1 DEF Waiting, NoTick, SameCall, At, Receiving, Delaying, ListOf
<1>3. Noted(t)'
  BY <1>2, CallGoesOn DEF WaitsWell
<1>4. Delayed(t)'
  BY <1>1, <1>2, DelayGoesOn DEF WaitsWell, Delayed
<1>5. Over(t)'
  BY <1>1, <1>2 DEF WaitsWell, Over, Limited, At, Receiving
<1>6. QED
  BY <1>3, <1>4, <1>5 DEF WaitsWell

LEMMA NextWaits == Structure /\ Waiting /\ [Regular]_vars => Waiting'
<1> SUFFICES ASSUME Structure, Waiting, [Regular]_vars PROVE Waiting'
  OBVIOUS
<1>1. Structure'
  BY NextStructure
<1>2. ASSUME NEW t \in Tasks, Receive(t) PROVE Waiting'
  BY <1>1, <1>2, TakeWaits, ReceiveWaitsWaits, WaitsAgainWaits, LockWaits,
     CheckForTimeOutWaits, TestEmptyWaits, EnlistWaits, UnlockWaits,
     UnlockWakesWaits, UnlockEndsWaits, GivesUpWaits, TriesOnceWaits DEF Receive
<1>3. ASSUME NEW t \in Tasks, TaskStep(t) PROVE Waiting'
  BY <1>1, <1>2, <1>3, SuspendAllWaits, ResumeAllWaits, CatchUpWaits, SuspendWaits,
     DelayWaits, LinkWaits, DelayReturnsWaits, SendWaits DEF TaskStep
<1>4. CASE Interrupt
  BY <1>1, <1>4, TickInterruptWaits, OtherInterruptWaits DEF Interrupt
<1>5. CASE UNCHANGED vars
  BY <1>5, StutterWaits
<1>6. QED
  BY <1>3, <1>4, <1>5 DEF Regular

-----------------------------------------------------------------------------
(* All of it holds until an item goes astray.                              *)

Undisturbed == Structure /\ Waiting /\ WakeupsKept

LEMMA UntilAstray ==
    ASSUME Structure, [Next]_vars
    PROVE  ~Stray /\ ([Regular]_vars \/ Stray')
<1>1. ~Stray
  BY DEF Structure, TypeOK, Lists, Stray
<1>2. ASSUME NEW t \in Tasks, LinkAstray(t) PROVE Stray'
  BY <1>2 DEF LinkAstray, Structure, TypeOK, Stray
<1>3. QED
  BY <1>1, <1>2 DEF Next, Regular

LEMMA Always == Spec => [](Stray \/ Undisturbed)
<1>1. Init => Undisturbed
  BY InitStructure, InitWaits DEF Undisturbed, Init, WakeupsKept, xTasksWaitingToReceive
<1>2. ASSUME Stray \/ Undisturbed, [Next]_vars PROVE (Stray \/ Undisturbed)'
  <2>1. CASE Stray
    BY <1>2, <2>1 DEF Next, vars, listVars, Stray
  <2>2. CASE Undisturbed
    BY <1>2, <2>2, UntilAstray, NextStructure, NextWaits, WakeupStep DEF Undisturbed
  <2>3. QED
    BY <1>2, <2>1, <2>2
<1>3. QED
  BY <1>1, <1>2, PTL DEF Spec

\* As long as no item has gone astray: the queue is locked exactly while a task
\* works on it, one task at a time has suspended the scheduler, and what interrupts
\* leave for it to do is done before it is resumed.
THEOREM WellStructured == Spec => [](Stray \/ Structure)
<1>1. Stray \/ Undisturbed => Stray \/ Structure
  BY DEF Undisturbed
<1>2. QED
  BY <1>1, Always, PTL

\* For any number of tasks, any length of the queue and any interrupts, until an item
\* goes astray: while a task waits for a message, every message in the queue is one
\* for a receiver on its way or one the locked queue has counted (xQueueReceive,
\* xQueueGiveFromISR, prvUnlockQueue).
THEOREM WakeupsNeverLost == Spec => []NoLostWakeup
<1>1. Stray \/ Undisturbed => NoLostWakeup
  BY DEF Undisturbed, WakeupsKept, NoLostWakeup
<1>2. QED
  BY <1>1, Always, PTL

\* For every width of the tick counter, until an item goes astray: where the counter
\* overflows, and the delayed lists are switched (taskSWITCH_DELAYED_LISTS), no task
\* is left in the list of the past round.
THEOREM SwitchedListAlwaysEmpty == Spec => []SwitchedListEmpty
<1>1. Stray \/ Undisturbed => SwitchedListEmpty
  <2> SUFFICES ASSUME Structure, Waiting, xTickCount = portMAX_DELAY, NEW t \in Tasks,
                      list[t] = "delayed"
               PROVE  FALSE
    BY DEF Undisturbed, SwitchedListEmpty, On
  <2>1. TypeOK /\ Delayed(t) /\ Listed(t)
    BY DEF Structure, ListedWell, Waiting, WaitsWell
  <2>2. ListOf(t) = "delayed"
    BY <2>1 DEF ListOf, Listed
  <2>3. xTickCount < wake[t] /\ wake[t] \in 0..portMAX_DELAY
    BY <2>1, <2>2 DEF Delayed, TypeOK, Ticks
  <2>4. QED
    BY <2>3, TickAssumption DEF portMAX_DELAY
<1>2. QED
  BY <1>1, Always, PTL

\* For any tasks and waits, until an item goes astray: a task that is still delayed has
\* waited less than it asked for, once the pended ticks are processed
\* (xTaskIncrementTick, vTaskDelay, prvAddCurrentTaskToDelayedList).
THEOREM NeverTooLate == Spec => []NeverLate
<1>1. Stray \/ Undisturbed => NeverLate
  <2> SUFFICES ASSUME Structure, Waiting, NEW t \in Tasks, list[t] \in {"delayed", "overflow"}
               PROVE  elapsed[t] - uxPendedTicks < asked[t]
    BY DEF Undisturbed, NeverLate
  <2>1. TypeOK /\ Delayed(t) /\ Listed(t)
    BY DEF Structure, ListedWell, Waiting, WaitsWell
  <2>2. ListOf(t) = list[t]
    BY <2>1 DEF ListOf, Listed
  <2>3. /\ list[t] = "delayed" => xTickCount < wake[t]
        /\ Spent(t) + TicksLeft(t) = asked[t]
        /\ TicksLeft(t) = wake[t] - xTickCount + (IF list[t] = "overflow" THEN TickModulus ELSE 0)
    BY <2>1, <2>2 DEF Delayed, TicksLeft
  <2>4. /\ wake[t] \in Nat /\ xTickCount \in Nat /\ xTickCount < TickModulus
        /\ TickModulus \in Nat /\ elapsed[t] \in Nat /\ uxPendedTicks \in Nat /\ asked[t] \in Nat
    BY <2>1, TickAssumption DEF TypeOK, Ticks, portMAX_DELAY
  <2>5. TicksLeft(t) > 0 /\ TicksLeft(t) \in Int
    BY <2>3, <2>4
  <2>6. QED
    BY <2>3, <2>4, <2>5 DEF Spent
<1>2. QED
  BY <1>1, Always, PTL

LEMMA EndsInTime ==
    ASSUME Structure, Waiting, [Regular]_vars, NEW t \in Tasks \ Abortable,
           pc[t] # "run", pc'[t] = "run", uxMessagesWaiting' = uxMessagesWaiting
    PROVE  elapsed[t] >= asked[t]
<1>1. TypeOK /\ Noted(t) /\ Over(t) /\ t \in Tasks
  BY DEF Structure, Waiting, WaitsWell
<1>2. asked[t] \in Nat /\ elapsed[t] \in Nat
  BY <1>1, TickAssumption DEF TypeOK, Ticks, portMAX_DELAY
<1>3. PICK u \in Tasks : TaskStep(u)
  BY DEF Regular, Interrupt, TickInterrupt, GiveFromISR, ResumeFromISR, AbortDelay, vars
<1>4. u = t
  BY <1>1, <1>3
     DEF TaskStep, Receive, Take, ReceiveWaits, WaitsAgain, Lock, CheckForTimeOut,
                    TestEmpty, Enlist, Unlock, UnlockWakes, UnlockEnds, GivesUp, TriesOnce,
                    SuspendAll, ResumeAll, CatchUp, Suspend, Link, Delay, DelayReturns, Send,
                    Goes, TypeOK
<1>5. CASE DelayReturns(t)
  BY <1>1, <1>5 DEF DelayReturns, Goes, SuspendedPcs, Over, At
<1>6. CASE GivesUp(t)
  BY <1>1, <1>6 DEF GivesUp, Goes, Over, At, Receiving
<1>7. CASE ResumeAll(t) \/ CatchUp(t)
  <2>1. pc[t] \in {"resume", "ticking"} /\ after = "run"
    BY <1>1, <1>7 DEF ResumeAll, CatchUp, Goes, TypeOK
  <2>2. asked[t] = 0
    BY <1>1, <2>1 DEF Noted, At
  <2>3. QED
    BY <1>2, <2>2
<1>8. CASE Take(t)
  BY <1>1, <1>8, TaskAssumption DEF Take, TypeOK
<1>9. DelayReturns(t) \/ GivesUp(t) \/ ResumeAll(t) \/ CatchUp(t) \/ Take(t)
  BY <1>1, <1>3, <1>4
     DEF TaskStep, Receive, ReceiveWaits, WaitsAgain, Lock, CheckForTimeOut,
         TestEmpty, Enlist, Unlock, UnlockWakes, UnlockEnds, TriesOnce,
         SuspendAll, Suspend, Link, Delay, Send, Goes, TypeOK
<1>10. QED
  BY <1>5, <1>6, <1>7, <1>8, <1>9

\* For any tasks, waits and width of the tick counter, until an item goes astray: a
\* wait that ends without a message has lasted as many ticks as it was asked to, unless
\* the radio interrupt aborts it (xTaskCheckForTimeOut, vTaskDelay), even across an
\* overflow.
THEOREM NeverTooEarly == Spec => NeverEarly
<1>1. (Stray \/ Undisturbed) /\ [Next]_vars =>
        [~Stray => \A t \in Tasks \ Abortable :
            pc[t] # "run" /\ pc'[t] = "run" /\ uxMessagesWaiting' = uxMessagesWaiting =>
                elapsed[t] >= asked[t]]_vars
  <2> SUFFICES ASSUME Undisturbed, [Next]_vars, NEW t \in Tasks \ Abortable,
                      pc[t] # "run", pc'[t] = "run", uxMessagesWaiting' = uxMessagesWaiting
               PROVE  elapsed[t] >= asked[t]
    OBVIOUS
  <2>1. CASE [Regular]_vars
    BY <2>1, EndsInTime DEF Undisturbed
  <2>2. ASSUME NEW u \in Tasks, LinkAstray(u) PROVE pc'[t] = pc[t]
    BY <2>2 DEF LinkAstray
  <2>3. QED
    BY <2>1, <2>2 DEF Next, Regular
<1>2. QED
  BY <1>1, Always, PTL DEF Spec, NeverEarly

\* Nothing but the aborted waits takes an item out of a list that a task is about to
\* link its own into: without them the suspended scheduler and the locked queue keep
\* every interrupt from it, as the comments say, and no item goes astray.
THEOREM OnlyAbortsDisturb ==
    ASSUME Abortable = {}
    PROVE  Spec => [](PlaceHolds /\ ~Stray)
<1> DEFINE Inv == Structure /\ PlaceKept
<1>1. Init => Inv
  BY InitStructure DEF Init, PlaceKept
<1>2. Inv => PlaceHolds /\ ~Stray
  BY DEF PlaceKept, PlaceHolds, Structure, TypeOK, Lists, Stray
<1>3. Inv /\ [Next]_vars => Inv'
  <2> SUFFICES ASSUME Inv, [Next]_vars PROVE Inv'
    OBVIOUS
  <2>1. \A t \in Tasks : ~LinkAstray(t)
    BY <1>2 DEF LinkAstray, PlaceHolds
  <2>2. [Regular]_vars
    BY <2>1 DEF Next, Regular
  <2>3. QED
    BY <2>2, NextStructure, PlaceStep
<1>4. QED
  BY <1>1, <1>2, <1>3, PTL DEF Spec
=============================================================================
