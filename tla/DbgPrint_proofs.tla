---------------------------- MODULE DbgPrint_proofs ----------------------------
(***************************************************************************)
(* Proofs about the debug output while no packet arrives, for every set of *)
(* tasks with whatever priorities, every size of the buffer and all        *)
(* lengths of strings.                                                     *)
(***************************************************************************)
EXTENDS DbgPrint, SequenceTheorems, TLAPS

-----------------------------------------------------------------------------
(* The ring buffer.                                                        *)

\* As many bytes are used and free as the indices say.
LEMMA RingType ==
    ASSUME head \in Slots, tail \in Slots
    PROVE  /\ Used \in 0..DBG_BUFFER_SPACE
           /\ FreeSpace \in 0..DBG_BUFFER_SPACE
           /\ Used + FreeSpace = DBG_BUFFER_SPACE
           /\ Used = 0 <=> head = tail
  BY SizeAssumption DEF Used, FreeSpace, Slots, DBG_BUFFER_SPACE

LEMMA FollowingType == ASSUME NEW i \in Slots PROVE Following(i) \in Slots
  BY SizeAssumption DEF Following, Slots, DBG_BUFFER_SPACE

\* A byte put into a buffer that is not full is one more byte used, ...
LEMMA PutByte ==
    ASSUME head \in Slots, tail \in Slots, FreeSpace > 0,
           head' = Following(head), tail' = tail
    PROVE  Used' = Used + 1 /\ FreeSpace' = FreeSpace - 1
  BY SizeAssumption DEF Used, FreeSpace, Slots, DBG_BUFFER_SPACE, Following

\* ... and a byte sent from one that is not empty is one more free.
LEMMA GetByte ==
    ASSUME head \in Slots, tail \in Slots, Used > 0,
           tail' = Following(tail), head' = head
    PROVE  Used' = Used - 1 /\ FreeSpace' = FreeSpace + 1
  BY SizeAssumption DEF Used, FreeSpace, Slots, DBG_BUFFER_SPACE, Following

LEMMA EmptyNext ==
    ASSUME head' \in Slots, tail' \in Slots
    PROVE  /\ Used' \in Nat
           /\ Used' = 0 <=> head' = tail'
<1>1. DEFINE h == head'
             t == tail'
<1>2. h \in Int /\ t \in Int /\ 0 <= h /\ 0 <= t
      /\ h < DBG_BUFFER_SIZE /\ t < DBG_BUFFER_SIZE /\ DBG_BUFFER_SIZE \in Int
  BY SizeAssumption DEF Slots, DBG_BUFFER_SPACE
<1>3. Used' = IF h >= t THEN h - t ELSE h - t + DBG_BUFFER_SIZE
  BY DEF Used
<1> HIDE DEF h, t
<1>4. Used' \in Nat /\ (Used' = 0 <=> h = t)
  BY <1>2, <1>3
<1>5. QED
  BY <1>4 DEF h, t

LEMMA SmallerType ==
    ASSUME NEW m \in Nat, NEW n \in Nat
    PROVE  /\ Smaller(m, n) \in Nat
           /\ Smaller(m, n) <= m
           /\ Smaller(m, n) <= n
           /\ Smaller(m, n) \in {m, n}
  BY DEF Smaller

-----------------------------------------------------------------------------
(* The inductive invariant.                                                *)

\* What holds of a task that puts its string, at each place of _dbg_putstr.
Quiet == requested = 0 /\ spaceIsFree = 0
Stopped == Quiet /\ ~sending

PutInv(t) ==
    /\ pc[t] = "stop" => Quiet /\ length[t] > 0
    /\ pc[t] = "space" => Stopped /\ length[t] > 0
    /\ pc[t] = "write" =>
        /\ Stopped
        /\ writeLength[t] <= length[t]
        /\ writeLength[t] <= FreeSpace
        /\ writeLength[t] < length[t] => writeLength[t] = FreeSpace
        /\ writeLength[t] = 0 => Used > 0
    /\ pc[t] = "start" =>
        /\ ~sending
        /\ spaceIsFree = 0
        /\ requested = writeLength[t]
        /\ Used > 0
        /\ length[t] > 0 => Used = DBG_BUFFER_SPACE
    /\ pc[t] \in {"takeSpace", "waitSpace"} =>
        /\ writeLength[t] > 0
        /\ writeLength[t] <= requested + FreeSpace
        /\ IF requested > 0
           THEN spaceIsFree = 0 /\ requested <= Used /\ sending
           ELSE spaceIsFree = 1 /\ pc[t] = "takeSpace"
    /\ pc[t] = "stopAgain" => Quiet /\ 0 < writeLength[t] /\ writeLength[t] <= FreeSpace
    /\ pc[t] \in {"start", "takeSpace", "waitSpace", "stopAgain"} =>
        writeLength[t] = Smaller(DBG_BUFFER_SPACE, length[t])
    /\ pc[t] = "unlock" => Quiet /\ length[t] = 0

DbgInv ==
    /\ TypeOK
    /\ ~halted
    /\ HolderPuts
    /\ \A t \in Tasks : pc[t] \notin {"lockAborted", "spaceAborted"}
    /\ \A t \in Tasks : pc[t] \in {"lock", "waitLock"} => length[t] > 0
    /\ holder = None => Quiet
    /\ holder # None => pc[holder] \in Putting /\ PutInv(holder)
    /\ sending => Used > 0


LEMMA DbgInit == Init => DbgInv
<1> SUFFICES ASSUME Init PROVE DbgInv
  OBVIOUS
<1>1. head \in Slots /\ tail \in Slots /\ 0 \in Slots /\ 0 \in 0..DBG_BUFFER_SPACE
  BY SizeAssumption DEF Init, Slots, DBG_BUFFER_SPACE
<1>2. TypeOK
  BY <1>1, TasksAssumption DEF Init, TypeOK, Bytes, Byte, Labels
<1>3. \A t \in Tasks : pc[t] = "elsewhere"
  BY DEF Init
<1>4. QED
  BY <1>2, <1>3 DEF Init, DbgInv, HolderPuts, Putting, Quiet

LEMMA DbgStep == DbgInv /\ [QuietNext]_vars => DbgInv'
<1> SUFFICES ASSUME DbgInv, [QuietNext]_vars PROVE DbgInv'
  OBVIOUS
<1>1. TypeOK /\ head \in Slots /\ tail \in Slots
  BY DEF DbgInv, TypeOK
<1> USE DEF DbgInv, Quiet, Stopped, ring, uart, locals, At, Goes
<1>2. ASSUME NEW t \in Tasks, NEW n \in Lengths, Call(t, n) PROVE DbgInv'
  BY <1>1, <1>2, SizeAssumption
     DEF Call, TypeOK, Labels, HolderPuts, Putting, PutInv, Used, FreeSpace
<1>3. ASSUME NEW t \in Tasks, TakeLock(t) PROVE DbgInv'
  BY <1>1, <1>3, TasksAssumption
     DEF TakeLock, TypeOK, Labels, HolderPuts, Putting, PutInv, Used, FreeSpace
<1>4. ASSUME NEW t \in Tasks, WaitForLock(t) PROVE DbgInv'
  BY <1>1, <1>4
     DEF WaitForLock, Larger, TypeOK, Labels, HolderPuts, Putting, PutInv, Used, FreeSpace
<1>5. ASSUME NEW t \in Tasks, StopUart(t) PROVE DbgInv'
  <2>1. FreeSpace' = FreeSpace /\ Used' = Used /\ FreeSpace <= DBG_BUFFER_SPACE
    BY <1>1, <1>5, RingType DEF StopUart, FreeSpace, Used, Slots
  <2>2. holder = t /\ PutInv(t)
    BY <1>5, TasksAssumption DEF StopUart, HolderPuts, Putting
  <2>3. TypeOK'
    BY <1>1, <1>5 DEF StopUart, TypeOK, Labels
  <2>4. CASE pc[t] = "stop"
    BY <1>1, <1>5, <2>1, <2>2, <2>3, <2>4
       DEF StopUart, TypeOK, HolderPuts, Putting, PutInv
  <2>5. CASE pc[t] = "stopAgain"
    <3>1. writeLength[t] = Smaller(DBG_BUFFER_SPACE, length[t]) /\ length[t] \in Nat
      BY <2>2, <2>5 DEF PutInv, TypeOK
    <3>2. /\ writeLength[t] <= length[t]
          /\ writeLength[t] < length[t] => writeLength[t] = FreeSpace
      BY <1>1, <2>1, <2>2, <2>5, <3>1, SizeAssumption, RingType
         DEF PutInv, Smaller, DBG_BUFFER_SPACE
    <3>3. writeLength[t] > 0 /\ writeLength[t] <= FreeSpace
      BY <2>2, <2>5 DEF PutInv
    <3>4. pc' = [pc EXCEPT ![t] = "write"] /\ ~sending'
      BY <1>5, <2>5 DEF StopUart
    <3>5. QED
      BY <1>1, <1>5, <2>1, <2>2, <2>3, <2>5, <3>2, <3>3, <3>4
         DEF StopUart, TypeOK, HolderPuts, Putting, PutInv
  <2>6. QED
    BY <1>5, <2>4, <2>5 DEF StopUart
<1>6. ASSUME NEW t \in Tasks, GetFreeSpace(t) PROVE DbgInv'
  <2>1. FreeSpace' = FreeSpace /\ Used' = Used
    BY <1>6 DEF GetFreeSpace, FreeSpace, Used
  <2>2. holder = t /\ PutInv(t)
    BY <1>6, TasksAssumption DEF GetFreeSpace, HolderPuts, Putting
  <2>3. /\ FreeSpace \in Slots
        /\ Used + FreeSpace = DBG_BUFFER_SPACE
        /\ DBG_BUFFER_SPACE > 0
        /\ Used \in Slots
    BY <1>1, RingType, SizeAssumption DEF Slots, DBG_BUFFER_SPACE
  <2>4. length[t] \in Nat /\ length[t] > 0
    BY <1>6, <2>2 DEF GetFreeSpace, PutInv, TypeOK
  <2>5. DEFINE n == Smaller(FreeSpace, length[t])
  <2>6. /\ n \in Slots
        /\ n <= length[t]
        /\ n <= FreeSpace
        /\ n < length[t] => n = FreeSpace
        /\ n = 0 => Used > 0
    BY <2>3, <2>4 DEF Smaller, Slots, DBG_BUFFER_SPACE
  <2>7. writeLength' = [writeLength EXCEPT ![t] = n]
    BY <1>6 DEF GetFreeSpace
  <2> HIDE DEF n
  <2>8. TypeOK'
    BY <1>1, <1>6, <2>6, <2>7 DEF GetFreeSpace, TypeOK, Labels
  <2>9. QED
    BY <1>1, <1>6, <2>1, <2>2, <2>6, <2>7, <2>8
       DEF GetFreeSpace, TypeOK, HolderPuts, Putting, PutInv
<1>7. ASSUME NEW t \in Tasks, WriteByte(t) PROVE DbgInv'
  <2>1. holder = t /\ PutInv(t)
    BY <1>7, TasksAssumption DEF WriteByte, HolderPuts, Putting
  <2>2. /\ writeLength[t] > 0 /\ writeLength[t] <= length[t] /\ writeLength[t] <= FreeSpace
        /\ writeLength[t] < length[t] => writeLength[t] = FreeSpace
        /\ Stopped /\ pc[t] = "write"
    BY <1>7, <2>1 DEF WriteByte, PutInv
  <2>3. length[t] \in Nat /\ writeLength[t] \in Slots /\ writeLength[t] - 1 \in Slots
    BY <1>1, <2>2, SizeAssumption DEF TypeOK, Slots, DBG_BUFFER_SPACE
  <2>4. FreeSpace \in Nat /\ Used \in Nat
    BY <1>1, RingType, SizeAssumption DEF DBG_BUFFER_SPACE
  <2>5. Used' = Used + 1 /\ FreeSpace' = FreeSpace - 1
    BY <1>1, <1>7, <2>2, <2>3, <2>4, PutByte DEF WriteByte, Slots
  <2>6. Byte(t, length[t] - 1) \in Bytes
    BY <2>2, <2>3 DEF Byte, Bytes, Slots
  <2>9. length[t] - 1 \in Nat
    BY <2>2, <2>3 DEF Slots
  <2>7. TypeOK'
    BY <1>1, <1>7, <2>3, <2>6, <2>9, FollowingType DEF WriteByte, TypeOK
  <2>8. QED
    BY <1>1, <1>7, <2>1, <2>2, <2>3, <2>4, <2>5, <2>7
       DEF WriteByte, TypeOK, HolderPuts, Putting, PutInv, Slots
<1>8. ASSUME NEW t \in Tasks, RequestSpace(t) PROVE DbgInv'
  <2>1. FreeSpace' = FreeSpace /\ Used' = Used
    BY <1>8 DEF RequestSpace, FreeSpace, Used
  <2>2. holder = t /\ PutInv(t)
    BY <1>8, TasksAssumption DEF RequestSpace, HolderPuts, Putting
  <2>3. /\ FreeSpace \in Nat /\ Used \in Nat
        /\ Used + FreeSpace = DBG_BUFFER_SPACE
        /\ DBG_BUFFER_SPACE \in Nat \ {0}
    BY <1>1, RingType, SizeAssumption DEF Slots, DBG_BUFFER_SPACE
  <2>4. length[t] \in Nat /\ writeLength[t] = 0 /\ Used > 0 /\ Stopped
        /\ (length[t] > 0 => Used = DBG_BUFFER_SPACE)
    BY <1>8, <2>2, <2>3 DEF RequestSpace, PutInv, TypeOK
  <2>5. DEFINE n == Smaller(DBG_BUFFER_SPACE, length[t])
  <2>6. n \in Slots
    BY <2>3, <2>4 DEF Smaller, Slots
  <2>7. requested' = n /\ writeLength' = [writeLength EXCEPT ![t] = n]
    BY <1>8 DEF RequestSpace
  <2>8. n = Smaller(DBG_BUFFER_SPACE, length[t])
    OBVIOUS
  <2> HIDE DEF n
  <2>9. TypeOK'
    BY <1>1, <1>8, <2>6, <2>7 DEF RequestSpace, TypeOK, Labels, Slots
  <2>10. pc' = [pc EXCEPT ![t] = "start"]
    BY <1>8 DEF RequestSpace
  <2>11. PutInv(t)'
    BY <1>1, <1>8, <2>1, <2>4, <2>7, <2>8, <2>10 DEF RequestSpace, TypeOK, PutInv
  <2>12. HolderPuts'
    BY <1>1, <1>8, <2>2, <2>10 DEF RequestSpace, TypeOK, HolderPuts, Putting
  <2>13. /\ ~halted' /\ holder' = t /\ length' = length /\ ~sending'
         /\ pc'[t] = "start" /\ \A u \in Tasks : u # t => pc'[u] = pc[u]
    BY <1>1, <1>8, <2>2, <2>4, <2>10 DEF RequestSpace, TypeOK
  <2>14. QED
    BY <2>2, <2>9, <2>11, <2>12, <2>13, TasksAssumption DEF Putting
<1>9. ASSUME NEW t \in Tasks, StartUart(t) PROVE DbgInv'
  <2>1. FreeSpace' = FreeSpace /\ Used' = Used
    BY <1>9 DEF StartUart, FreeSpace, Used
  <2>2. holder = t /\ PutInv(t)
    BY <1>9, TasksAssumption DEF StartUart, HolderPuts, Putting
  <2>3. /\ FreeSpace \in Nat /\ Used \in Nat
        /\ Used + FreeSpace = DBG_BUFFER_SPACE
        /\ DBG_BUFFER_SPACE \in Nat \ {0}
    BY <1>1, RingType, SizeAssumption DEF Slots, DBG_BUFFER_SPACE
  <2>4. /\ length[t] \in Nat /\ spaceIsFree = 0 /\ requested = writeLength[t] /\ Used > 0
        /\ length[t] > 0 => Used = DBG_BUFFER_SPACE
        /\ writeLength[t] = Smaller(DBG_BUFFER_SPACE, length[t])
    BY <1>9, <2>2 DEF StartUart, PutInv, TypeOK
  <2>5. /\ writeLength[t] \in Nat
        /\ length[t] = 0 => writeLength[t] = 0
        /\ length[t] > 0 => writeLength[t] > 0 /\ writeLength[t] <= Used
    BY <2>3, <2>4 DEF Smaller
  <2>6. TypeOK'
    BY <1>1, <1>9 DEF StartUart, TypeOK, Labels
  <2>7. QED
    BY <1>1, <1>9, <2>1, <2>2, <2>3, <2>4, <2>5, <2>6
       DEF StartUart, TypeOK, HolderPuts, Putting, PutInv
<1>10. ASSUME NEW t \in Tasks, TakeSpace(t) PROVE DbgInv'
  <2>1. FreeSpace' = FreeSpace /\ Used' = Used
    BY <1>10 DEF TakeSpace, FreeSpace, Used
  <2>2. holder = t /\ PutInv(t)
    BY <1>10, TasksAssumption DEF TakeSpace, HolderPuts, Putting
  <2>3. TypeOK'
    BY <1>1, <1>10 DEF TakeSpace, TypeOK, Labels
  <2>4. FreeSpace \in Nat /\ Used \in Nat
    BY <1>1, RingType, SizeAssumption DEF DBG_BUFFER_SPACE
  <2>5. QED
    BY <1>1, <1>10, <2>1, <2>2, <2>3, <2>4
       DEF TakeSpace, TypeOK, HolderPuts, Putting, PutInv
<1>11. ASSUME NEW t \in Tasks, Unlock(t) PROVE DbgInv'
  <2>1. FreeSpace' = FreeSpace /\ Used' = Used
    BY <1>11 DEF Unlock, FreeSpace, Used
  <2>2. holder = t /\ PutInv(t) /\ pc[t] = "unlock" /\ Quiet
    BY <1>11, TasksAssumption DEF Unlock, HolderPuts, Putting, PutInv
  <2>3. /\ holder' = None /\ ~halted'
        /\ priority' = [priority EXCEPT ![t] = BasePriority[t]]
        /\ UNCHANGED <<ring, uart, spaceIsFree, locals>>
    BY <1>11, <2>2 DEF Unlock
  <2>4. PICK woken \in Waiting("waitLock") \cup {None} :
          pc' = [u \in Tasks |-> IF u = t THEN "elsewhere"
                                 ELSE IF u = woken THEN "lock" ELSE pc[u]]
    BY <1>11, <2>2 DEF Unlock, FirstOf
  <2>5. TypeOK'
    <3>1. pc' \in [Tasks -> Labels]
      BY <1>1, <2>4 DEF TypeOK, Labels
    <3>2. priority' \in [Tasks -> Nat]
      BY <1>1, <2>3, TasksAssumption DEF TypeOK
    <3>3. halted' = halted
      BY <1>11, <2>2 DEF Unlock
    <3>4. QED
      BY <1>1, <2>3, <3>1, <3>2, <3>3 DEF TypeOK
  <2>6. QED
    BY <1>1, <2>1, <2>2, <2>3, <2>4, <2>5, TasksAssumption
       DEF TypeOK, HolderPuts, Putting, Waiting
<1>12. CASE TransmitInterrupt
  <2>1. Used > 0 /\ sending
    BY <1>12 DEF TransmitInterrupt
  <2>2. Used' = Used - 1 /\ FreeSpace' = FreeSpace + 1
    BY <1>1, <1>12, <2>1, GetByte DEF TransmitInterrupt
  <2>3. FreeSpace \in Nat /\ Used \in Nat
    BY <1>1, RingType, SizeAssumption DEF DBG_BUFFER_SPACE
  <2>4. head' \in Slots /\ tail' \in Slots
    BY <1>1, <1>12, FollowingType DEF TransmitInterrupt
  <2>5. Used' \in Nat /\ (Used' = 0 <=> head' = tail')
    BY <2>4, EmptyNext
  <2>6. sending' => Used' > 0
    <3>1. sending' => tail' # head'
      BY <1>12 DEF TransmitInterrupt
    <3>2. Used' # 0 => Used' > 0
      BY <2>5
    <3>3. QED
      BY <2>5, <3>1, <3>2
  <2>11. Used' > 0 => sending'
    <3>1. tail' # head' => sending'
      BY <1>12 DEF TransmitInterrupt
    <3>2. Used' > 0 => Used' # 0
      BY <2>5
    <3>3. QED
      BY <2>5, <3>1, <3>2
  <2>7. \/ requested = 0
        \/ /\ holder # None /\ pc[holder] \in {"takeSpace", "waitSpace"} /\ PutInv(holder)
           /\ requested <= Used /\ spaceIsFree = 0
    <3>1. CASE holder = None
      BY <3>1
    <3>2. CASE holder # None
      <4>1. holder \in Tasks /\ pc[holder] \in Putting /\ PutInv(holder)
        BY <1>1, <3>2 DEF TypeOK
      <4>2. pc[holder] \notin {"lockAborted", "spaceAborted"}
        BY <4>1
      <4>3. CASE pc[holder] \in {"takeSpace", "waitSpace"}
        BY <1>1, <3>2, <4>1, <4>3 DEF PutInv, TypeOK, Slots
      <4>4. CASE pc[holder] \in {"stop", "space", "write", "stopAgain", "unlock"}
        BY <4>1, <4>4 DEF PutInv
      <4>5. CASE pc[holder] = "start"
        BY <2>1, <4>1, <4>5 DEF PutInv
      <4>6. QED
        BY <4>1, <4>2, <4>3, <4>4, <4>5 DEF Putting
    <3>3. QED
      BY <3>1, <3>2
  <2>8. CASE requested # 1
    <3>1. UNCHANGED <<spaceIsFree, pc>>
      BY <1>12, <2>8 DEF TransmitInterrupt
    <3>2. requested' = (IF requested > 0 THEN requested - 1 ELSE 0)
          /\ requested' \in 0..DBG_BUFFER_SPACE
      BY <1>1, <1>12, SizeAssumption DEF TransmitInterrupt, TypeOK, DBG_BUFFER_SPACE
    <3>3. sending' \in BOOLEAN
      BY <1>12 DEF TransmitInterrupt
    <3>4. TypeOK'
      BY <1>1, <1>12, <2>4, <3>1, <3>2, <3>3 DEF TransmitInterrupt, TypeOK
    <3>5. UNCHANGED <<holder, length, writeLength, halted>>
      BY <1>12 DEF TransmitInterrupt
    <3>6. holder = None => Quiet'
      BY <3>1, <3>2, <3>5
    <3>7. ASSUME holder # None PROVE PutInv(holder)'
      <4>1. holder \in Tasks /\ pc[holder] \in Putting /\ PutInv(holder)
        BY <1>1, <3>7 DEF TypeOK
      <4>2. CASE requested = 0
        <5>1. pc[holder] \notin {"space", "write", "start"}
          BY <2>1, <4>1 DEF PutInv
        <5>2. requested' = 0 /\ holder' = holder /\ spaceIsFree' = spaceIsFree
              /\ pc' = pc /\ length' = length /\ writeLength' = writeLength
          BY <3>1, <3>2, <3>5, <4>2
        <5>3. CASE pc[holder] \in {"takeSpace", "waitSpace"}
          <6>1. /\ writeLength[holder] > 0 /\ spaceIsFree = 1 /\ pc[holder] = "takeSpace"
                /\ writeLength[holder] <= FreeSpace
                /\ writeLength[holder] = Smaller(DBG_BUFFER_SPACE, length[holder])
            BY <2>3, <4>1, <4>2, <5>3 DEF PutInv
          <6>2. writeLength[holder] \in Nat /\ writeLength[holder] <= requested' + FreeSpace'
            BY <1>1, <2>2, <2>3, <4>1, <5>2, <6>1 DEF TypeOK, Slots
          <6>3. QED
            BY <5>2, <6>1, <6>2 DEF PutInv
        <5>4. CASE pc[holder] = "stopAgain"
          <6>1. /\ writeLength[holder] > 0 /\ Quiet /\ writeLength[holder] <= FreeSpace
                /\ writeLength[holder] = Smaller(DBG_BUFFER_SPACE, length[holder])
            BY <4>1, <5>4 DEF PutInv
          <6>2. writeLength[holder] \in Nat /\ writeLength[holder] <= FreeSpace'
            BY <1>1, <2>2, <2>3, <4>1, <6>1 DEF TypeOK, Slots
          <6>3. QED
            BY <5>2, <5>4, <6>1, <6>2 DEF PutInv
        <5>5. CASE pc[holder] \in {"stop", "unlock"}
          BY <4>1, <5>2, <5>5 DEF PutInv
        <5>6. CASE pc[holder] = "spaceAborted"
          BY <4>1, <5>6
        <5>7. QED
          BY <4>1, <5>1, <5>3, <5>4, <5>5, <5>6 DEF Putting
      <4>3. CASE requested > 1
        <5>1. /\ pc[holder] \in {"takeSpace", "waitSpace"}
              /\ requested <= Used /\ spaceIsFree = 0 /\ requested \in Nat
              /\ requested' = requested - 1 /\ requested' > 0 /\ requested' <= Used'
          BY <1>1, <2>2, <2>3, <2>7, <3>2, <4>3 DEF TypeOK
        <5>2. Used' > 0
          BY <2>5, <5>1, <3>2
        <5>3. sending'
          BY <2>11, <5>2
        <5>4. QED
          BY <1>1, <2>2, <2>3, <3>1, <3>5, <4>1, <5>1, <5>3 DEF PutInv, TypeOK, Slots
      <4>4. QED
        BY <1>1, <2>8, <4>2, <4>3 DEF TypeOK
    <3>8. QED
      BY <2>6, <3>1, <3>4, <3>5, <3>6, <3>7 DEF HolderPuts
  <2>9. CASE requested = 1
    <3>1. /\ holder \in Tasks /\ pc[holder] \in {"takeSpace", "waitSpace"}
          /\ PutInv(holder) /\ spaceIsFree = 0
      BY <1>1, <2>7, <2>9 DEF TypeOK
    <3>2. PICK woken \in IF Waiting("waitSpace") # {} THEN FirstOf(Waiting("waitSpace"))
                         ELSE {None} :
            pc' = [u \in Tasks |-> IF u = woken THEN "takeSpace" ELSE pc[u]]
      BY <1>12, <2>9, <3>1 DEF TransmitInterrupt
    <3>3. Waiting("waitSpace") \subseteq {holder}
      BY DEF Waiting, HolderPuts, Putting
    <3>4. pc' = [pc EXCEPT ![holder] = "takeSpace"]
      <4>1. CASE pc[holder] = "waitSpace"
        <5>1. Waiting("waitSpace") # {}
          BY <3>1, <4>1 DEF Waiting
        <5>2. woken = holder
          BY <3>2, <3>3, <5>1 DEF FirstOf
        <5>3. QED
          BY <1>1, <3>1, <3>2, <5>2 DEF TypeOK
      <4>2. CASE pc[holder] = "takeSpace"
        <5>1. Waiting("waitSpace") = {}
          BY <3>1, <3>3, <4>2 DEF Waiting
        <5>2. woken = None
          BY <3>2, <5>1
        <5>3. QED
          BY <1>1, <3>1, <3>2, <4>2, <5>2, TasksAssumption DEF TypeOK
      <4>3. QED
        BY <3>1, <4>1, <4>2
    <3>5. spaceIsFree' = 1 /\ requested' = 0
      BY <1>12, <2>9 DEF TransmitInterrupt
    <3>6. TypeOK'
      <4>1. pc' \in [Tasks -> Labels]
        BY <1>1, <3>4 DEF TypeOK, Labels
      <4>2. sending' \in BOOLEAN
        BY <1>12 DEF TransmitInterrupt
      <4>3. requested' \in 0..DBG_BUFFER_SPACE
        BY <3>5, SizeAssumption DEF DBG_BUFFER_SPACE
      <4>4. QED
        BY <1>1, <1>12, <2>4, <3>5, <4>1, <4>2, <4>3 DEF TransmitInterrupt, TypeOK
    <3>7. HolderPuts'
      BY <1>1, <1>12, <3>1, <3>4 DEF TransmitInterrupt, HolderPuts, Putting, TypeOK
    <3>8. writeLength[holder] > 0 /\ writeLength[holder] <= 1 + FreeSpace
          /\ writeLength[holder] = Smaller(DBG_BUFFER_SPACE, length[holder])
      BY <2>9, <3>1 DEF PutInv
    <3>9. PutInv(holder)' /\ holder' = holder
      BY <1>1, <1>12, <2>2, <2>3, <3>1, <3>4, <3>5, <3>8 DEF TransmitInterrupt, PutInv, TypeOK
    <3>10. QED
      BY <1>1, <1>12, <2>2, <2>6, <3>1, <3>4, <3>6, <3>7, <3>9
         DEF TransmitInterrupt, TypeOK, Putting
  <2>10. QED
    BY <2>8, <2>9
<1>13. CASE UNCHANGED vars
  BY <1>1, <1>13 DEF vars, TypeOK, HolderPuts, PutInv, Used, FreeSpace
<1>14. QED
  BY <1>2, <1>3, <1>4, <1>5, <1>6, <1>7, <1>8, <1>9, <1>10, <1>11, <1>12, <1>13
     DEF QuietNext, Put

-----------------------------------------------------------------------------
(* The theorems about single states.                                       *)

LEMMA DbgInvariant == QuietSpec => []DbgInv
  BY DbgInit, DbgStep, PTL DEF QuietSpec

\* The variables of the debug output keep their types: the indices stay inside
\* the buffer and the semaphore is binary.
THEOREM TypeCorrect == QuietSpec => []TypeOK
<1>1. DbgInv => TypeOK
  BY DEF DbgInv
<1>2. QED
  BY <1>1, DbgInvariant, PTL

\* Between two packets, whatever the tasks preempt, only the task with the mutex
\* is inside _dbg_putstr.
THEOREM HolderHasMutex == QuietSpec => []HolderPuts
<1>1. DbgInv => HolderPuts
  BY DEF DbgInv
<1>2. QED
  BY <1>1, DbgInvariant, PTL

\* Between two packets _dbg_putstr never writes a byte over one that has not
\* been sent.
THEOREM StringsFit == QuietSpec => []FitsInFreeSpace
<1>1. DbgInv => FitsInFreeSpace
  BY TasksAssumption DEF DbgInv, FitsInFreeSpace, HolderPuts, Putting, PutInv
<1>2. QED
  BY <1>1, DbgInvariant, PTL

\* A wait for space without limit is always one that the bytes in the buffer
\* will end, and it ends with enough space for the rest of the string.
THEOREM WaitsAreAnswered == QuietSpec => []RequestCanBeMet
<1>1. ASSUME DbgInv, NEW t \in Tasks, pc[t] \in {"takeSpace", "waitSpace"}
      PROVE  IF requested > 0
             THEN spaceIsFree = 0 /\ requested <= Used /\ sending
             ELSE spaceIsFree = 1 /\ pc[t] = "takeSpace" /\ writeLength[t] <= FreeSpace
  <2>1. holder = t /\ PutInv(t)
    BY <1>1, TasksAssumption DEF DbgInv, HolderPuts, Putting
  <2>2. requested \in Nat /\ FreeSpace \in Nat /\ writeLength[t] \in Nat
    BY <1>1, RingType, SizeAssumption DEF DbgInv, TypeOK, Slots, DBG_BUFFER_SPACE
  <2>3. CASE requested > 0
    BY <1>1, <2>1, <2>3 DEF PutInv
  <2>4. CASE ~(requested > 0)
    <3>1. requested = 0
      BY <2>2, <2>4
    <3>2. spaceIsFree = 1 /\ pc[t] = "takeSpace" /\ writeLength[t] <= requested + FreeSpace
      BY <1>1, <2>1, <2>4 DEF PutInv
    <3>3. QED
      BY <2>2, <2>4, <3>1, <3>2
  <2>5. QED
    BY <2>3, <2>4
<1>2. DbgInv => RequestCanBeMet
  BY <1>1 DEF RequestCanBeMet
<1>3. QED
  BY <1>2, DbgInvariant, PTL

-----------------------------------------------------------------------------
(* Priority inheritance.                                                   *)

\* Only the holder has more than its own priority, and for every task that waits
\* for the mutex there is a task of at least its priority that holds the mutex
\* or, if it is free, has been woken to take it.
InheritInv ==
    /\ \A t \in Tasks : priority[t] >= BasePriority[t]
    /\ \A t \in Tasks : t # holder => priority[t] = BasePriority[t]
    /\ \A t \in Tasks : pc[t] = "waitLock" =>
        \E w \in Tasks :
            /\ priority[w] >= priority[t]
            /\ IF holder = None THEN pc[w] = "lock" ELSE w = holder

LEMMA InheritInit == Init => InheritInv
  BY TasksAssumption DEF Init, InheritInv

LEMMA InheritStep == DbgInv /\ InheritInv /\ [QuietNext]_vars => InheritInv'
<1> SUFFICES ASSUME DbgInv, InheritInv, [QuietNext]_vars PROVE InheritInv'
  OBVIOUS
<1>1. TypeOK /\ HolderPuts /\ \A t \in Tasks : priority[t] \in Nat /\ BasePriority[t] \in Nat
  BY TasksAssumption DEF DbgInv, TypeOK
<1> USE DEF InheritInv, At, Goes
<1>2. ASSUME NEW t \in Tasks, NEW n \in Lengths, Call(t, n) PROVE InheritInv'
  BY <1>1, <1>2 DEF Call, TypeOK
<1>3. ASSUME NEW t \in Tasks, TakeLock(t) PROVE InheritInv'
  <2>1. /\ holder = None /\ holder' = t /\ priority' = priority
        /\ pc[t] = "lock" /\ pc' = [pc EXCEPT ![t] = "stop"]
    BY <1>3 DEF TakeLock
  <2>2. ASSUME NEW w \in Tasks, pc[w] = "lock" PROVE priority[w] <= priority[t]
    BY <1>3, <2>2 DEF TakeLock, Runs, Ready, Waits
  <2>3. ASSUME NEW u \in Tasks, pc'[u] = "waitLock" PROVE priority[t] >= priority[u]
    <3>1. pc[u] = "waitLock"
      BY <1>1, <2>1, <2>3 DEF TypeOK
    <3>2. PICK w \in Tasks : priority[w] >= priority[u] /\ pc[w] = "lock"
      BY <2>1, <3>1
    <3>3. QED
      BY <1>1, <2>2, <3>2
  <2>4. QED
    BY <1>1, <2>1, <2>3, TasksAssumption DEF TypeOK
<1>4. ASSUME NEW t \in Tasks, WaitForLock(t) PROVE InheritInv'
  <2>1. /\ holder # None /\ holder \in Tasks /\ holder' = holder /\ holder # t
        /\ pc[t] = "lock" /\ pc' = [pc EXCEPT ![t] = "waitLock"]
        /\ priority' = [priority EXCEPT ![holder] = Larger(@, priority[t])]
    BY <1>1, <1>4 DEF WaitForLock, TypeOK, DbgInv, Putting
  <2>2. /\ priority'[holder] \in Nat
        /\ priority'[holder] >= priority[holder] /\ priority'[holder] >= priority[t]
        /\ \A u \in Tasks : u # holder => priority'[u] = priority[u]
    BY <1>1, <2>1 DEF Larger, TypeOK
  <2>3. ASSUME NEW u \in Tasks, pc'[u] = "waitLock" PROVE priority'[holder] >= priority'[u]
    <3>1. CASE u = holder
      BY <2>2, <3>1
    <3>2. CASE u = t
      BY <2>1, <2>2, <3>2
    <3>3. CASE u # holder /\ u # t
      BY <1>1, <2>1, <2>2, <2>3, <3>3 DEF TypeOK
    <3>4. QED
      BY <3>1, <3>2, <3>3
  <2>4. \A u \in Tasks : priority'[u] >= BasePriority[u]
    BY <1>1, <2>1, <2>2
  <2>5. QED
    BY <1>1, <2>1, <2>2, <2>3, <2>4
<1>5. ASSUME NEW t \in Tasks,
             StopUart(t) \/ GetFreeSpace(t) \/ WriteByte(t) \/ RequestSpace(t)
               \/ StartUart(t) \/ TakeSpace(t)
      PROVE  InheritInv'
  <2>1. /\ holder' = holder /\ priority' = priority /\ pc[t] # "lock"
        /\ \A u \in Tasks : u # t => pc'[u] = pc[u]
        /\ pc'[t] # "waitLock"
    BY <1>1, <1>5
       DEF StopUart, GetFreeSpace, WriteByte, RequestSpace, StartUart, TakeSpace, TypeOK
  <2>2. QED
    BY <2>1
<1>6. ASSUME NEW t \in Tasks, Unlock(t) PROVE InheritInv'
  <2>1. holder = t /\ pc[t] = "unlock"
    BY <1>1, <1>6, TasksAssumption DEF Unlock, HolderPuts, Putting
  <2>2. holder' = None /\ priority' = [priority EXCEPT ![t] = BasePriority[t]]
    BY <1>6, <2>1 DEF Unlock
  <2>3. PICK woken \in IF Waiting("waitLock") # {} THEN FirstOf(Waiting("waitLock")) ELSE {None} :
          pc' = [u \in Tasks |-> IF u = t THEN "elsewhere"
                                 ELSE IF u = woken THEN "lock" ELSE pc[u]]
    BY <1>6, <2>1 DEF Unlock
  <2>4. \A u \in Tasks : priority'[u] = BasePriority[u]
    BY <1>1, <2>1, <2>2 DEF TypeOK
  <2>5. ASSUME NEW u \in Tasks, pc'[u] = "waitLock"
        PROVE  \E w \in Tasks : priority'[w] >= priority'[u] /\ pc'[w] = "lock"
    <3>1. pc[u] = "waitLock" /\ u # t
      BY <2>1, <2>3, <2>5
    <3>2. woken \in FirstOf(Waiting("waitLock")) /\ u \in Waiting("waitLock")
      BY <2>3, <3>1 DEF Waiting
    <3>3. woken \in Tasks /\ woken # t /\ priority[woken] >= priority[u]
      BY <1>1, <2>1, <3>2 DEF FirstOf, Waiting
    <3>4. priority'[woken] >= priority'[u] /\ pc'[woken] = "lock"
      BY <1>1, <2>1, <2>2, <2>3, <3>1, <3>3 DEF TypeOK
    <3>5. QED
      BY <3>3, <3>4
  <2>6. QED
    BY <1>1, <2>2, <2>4, <2>5
<1>7. CASE TransmitInterrupt
  <2>1. holder' = holder /\ priority' = priority
    BY <1>7 DEF TransmitInterrupt
  <2>2. \A u \in Tasks : pc'[u] = pc[u] \/ (pc[u] = "waitSpace" /\ pc'[u] = "takeSpace")
    <3>1. CASE requested = 1
      <4>1. PICK woken \in IF spaceIsFree = 0 /\ Waiting("waitSpace") # {}
                           THEN FirstOf(Waiting("waitSpace")) ELSE {None} :
              pc' = [u \in Tasks |-> IF u = woken THEN "takeSpace" ELSE pc[u]]
        BY <1>7, <3>1 DEF TransmitInterrupt
      <4>2. woken \in Tasks => pc[woken] = "waitSpace"
        BY <4>1, TasksAssumption DEF FirstOf, Waiting
      <4>3. QED
        BY <4>1, <4>2
    <3>2. CASE requested # 1
      BY <1>7, <3>2 DEF TransmitInterrupt
    <3>3. QED
      BY <3>1, <3>2
  <2>3. QED
    BY <2>1, <2>2
<1>8. CASE UNCHANGED vars
  BY <1>8 DEF vars
<1>9. QED
  BY <1>2, <1>3, <1>4, <1>5, <1>6, <1>7, <1>8 DEF QuietNext, Put

LEMMA StepOfTask ==
    ASSUME DbgInv, InheritInv, [QuietNext]_vars,
           NEW t \in Tasks, NEW u \in Tasks,
           pc[t] = "waitLock",
           holder # None => Ready(holder),
           BasePriority[u] < BasePriority[t],
           Ready(u), holder # u
    PROVE  pc'[u] = pc[u] /\ length'[u] = length[u]
<1>1. TypeOK /\ \A x \in Tasks : priority[x] \in Nat /\ BasePriority[x] \in Nat
  BY TasksAssumption DEF DbgInv, TypeOK
<1>2. PICK w \in Tasks : /\ priority[w] >= priority[t]
                         /\ IF holder = None THEN pc[w] = "lock" ELSE w = holder
  BY DEF InheritInv
<1>3. Ready(w)
  BY <1>2 DEF Ready, Waits
<1>4. priority[u] < priority[w]
  BY <1>1, <1>2 DEF InheritInv
<1>5. ~Runs(u)
  BY <1>1, <1>3, <1>4 DEF Runs
<1>6. pc[u] \notin {"waitLock", "waitSpace", "elsewhere"}
  BY DEF Ready, Waits
<1> USE DEF At, Goes, locals
<1>7. ASSUME NEW x \in Tasks, NEW n \in Lengths, Call(x, n)
      PROVE  pc'[u] = pc[u] /\ length'[u] = length[u]
  BY <1>1, <1>6, <1>7 DEF Call, TypeOK
<1>8. ASSUME NEW x \in Tasks, Put(x)
      PROVE  pc'[u] = pc[u] /\ length'[u] = length[u]
  <2>1. x # u
    BY <1>5, <1>8
       DEF Put, TakeLock, WaitForLock, StopUart, GetFreeSpace, WriteByte, RequestSpace,
           StartUart, TakeSpace, Unlock
  <2>2. CASE Unlock(x)
    <3>1. length' = length
      BY <2>2 DEF Unlock
    <3>2. pc' = pc \/ \E woken \in Waiting("waitLock") \cup {None} :
            pc' = [v \in Tasks |-> IF v = x THEN "elsewhere"
                                   ELSE IF v = woken THEN "lock" ELSE pc[v]]
      BY <2>2 DEF Unlock, FirstOf
    <3>3. QED
      BY <1>6, <2>1, <3>1, <3>2, TasksAssumption DEF Waiting
  <2>3. CASE TakeLock(x) \/ WaitForLock(x) \/ StopUart(x) \/ GetFreeSpace(x)
               \/ WriteByte(x) \/ RequestSpace(x) \/ StartUart(x) \/ TakeSpace(x)
    BY <1>1, <2>1, <2>3
       DEF TakeLock, WaitForLock, StopUart, GetFreeSpace, WriteByte, RequestSpace,
           StartUart, TakeSpace, TypeOK
  <2>4. QED
    BY <1>8, <2>2, <2>3 DEF Put
<1>9. CASE TransmitInterrupt
  <2>1. length' = length
    BY <1>9 DEF TransmitInterrupt
  <2>2. pc' = pc \/ \E woken \in Waiting("waitSpace") \cup {None} :
          pc' = [v \in Tasks |-> IF v = woken THEN "takeSpace" ELSE pc[v]]
    BY <1>9 DEF TransmitInterrupt, FirstOf
  <2>3. QED
    BY <1>6, <2>1, <2>2, TasksAssumption DEF Waiting
<1>10. CASE UNCHANGED vars
  BY <1>10 DEF vars
<1>11. QED
  BY <1>7, <1>8, <1>9, <1>10 DEF QuietNext

\* Priority inheritance works between two packets: with any number of tasks and
\* any priorities, a task that waits for the debug output is never held up by a
\* task of lower priority other than the one that prints.
THEOREM NoPriorityInversion == QuietSpec => NoInversion
<1>1. DbgInv /\ InheritInv /\ [QuietNext]_vars =>
        [\A t, u \in Tasks :
            /\ pc[t] = "waitLock"
            /\ holder # None => Ready(holder)
            /\ BasePriority[u] < BasePriority[t]
            /\ Ready(u) /\ holder # u
            => pc'[u] = pc[u] /\ length'[u] = length[u]]_vars
  BY StepOfTask
<1>2. QED
  BY <1>1, DbgInit, DbgStep, InheritInit, InheritStep, PTL DEF QuietSpec, NoInversion

-----------------------------------------------------------------------------
(* The refinement of the stream of bytes.                                  *)

\* Append and Tail as functions.
LEMMA AppendIs ==
    ASSUME NEW S, NEW s \in Seq(S), NEW e \in S
    PROVE  Append(s, e) = [i \in 1..(Len(s) + 1) |-> IF i = Len(s) + 1 THEN e ELSE s[i]]
<1>1. DEFINE f == [i \in 1..(Len(s) + 1) |-> IF i = Len(s) + 1 THEN e ELSE s[i]]
<1>2. f \in Seq(S) /\ Len(f) = Len(s) + 1
  OBVIOUS
<1>3. Append(s, e) \in Seq(S) /\ Len(Append(s, e)) = Len(s) + 1
  OBVIOUS
<1>4. \A i \in 1..(Len(s) + 1) : Append(s, e)[i] = f[i]
  OBVIOUS
<1>5. QED
  BY <1>2, <1>3, <1>4, SeqEqual

LEMMA TailIs ==
    ASSUME NEW S, NEW s \in Seq(S), s # << >>
    PROVE  Tail(s) = [i \in 1..(Len(s) - 1) |-> s[i + 1]]
<1>1. DEFINE f == [i \in 1..(Len(s) - 1) |-> s[i + 1]]
<1>2. Len(s) \in Nat \ {0}
  OBVIOUS
<1>3. f \in Seq(S) /\ Len(f) = Len(s) - 1
  BY <1>2
<1>4. Tail(s) \in Seq(S) /\ Len(Tail(s)) = Len(s) - 1
  BY <1>2
<1>5. \A i \in 1..(Len(s) - 1) : Tail(s)[i] = f[i]
  BY <1>2
<1>6. QED
  BY <1>3, <1>4, <1>5, SeqEqual

LEMMA SlotType ==
    ASSUME NEW i \in Slots, NEW n \in Slots
    PROVE  Slot(i + n) \in Slots
  BY SizeAssumption DEF Slot, Slots, DBG_BUFFER_SPACE

LEMMA InBufferType ==
    ASSUME TypeOK
    PROVE  InBuffer \in Seq(Bytes) /\ Len(InBuffer) = Used /\ LastPut \in Bytes
<1>1. head \in Slots /\ tail \in Slots /\ buffer \in [Slots -> Bytes] /\ Used \in Slots
      /\ DBG_BUFFER_SPACE \in Slots /\ Used \in Nat
  BY RingType, SizeAssumption DEF TypeOK, Slots, DBG_BUFFER_SPACE
<1>2. ASSUME NEW i \in 1..Used PROVE Slot(tail + i - 1) \in Slots
  <2>1. i - 1 \in Slots /\ tail + i - 1 = tail + (i - 1)
    BY <1>1 DEF Slots, DBG_BUFFER_SPACE
  <2>2. QED
    BY <1>1, <2>1, SlotType
<1>3. InBuffer \in [1..Used -> Bytes]
  BY <1>1, <1>2 DEF InBuffer
<1>4. LastPut \in Bytes
  BY <1>1, SlotType DEF LastPut
<1>5. QED
  BY <1>1, <1>3, <1>4

\* The slots that are used are other slots than the one written next.
LEMMA UsedSlots ==
    ASSUME head \in Slots, tail \in Slots, FreeSpace > 0
    PROVE  /\ \A i \in 1..Used : Slot(tail + i - 1) # head
           /\ Slot(tail + (Used + 1) - 1) = head
           /\ Slot(Following(head) + DBG_BUFFER_SPACE) = head
<1>1. /\ head \in 0..(DBG_BUFFER_SIZE - 1) /\ tail \in 0..(DBG_BUFFER_SIZE - 1)
      /\ DBG_BUFFER_SIZE \in Nat /\ DBG_BUFFER_SIZE > 1
  BY SizeAssumption DEF Slots, DBG_BUFFER_SPACE
<1>2. CASE head >= tail
  <2>1. Used = head - tail
    BY <1>2 DEF Used
  <2>2. QED
    BY <1>1, <1>2, <2>1 DEF Slot, Following, DBG_BUFFER_SPACE
<1>3. CASE ~(head >= tail)
  <2>1. Used = head - tail + DBG_BUFFER_SIZE
    BY <1>3 DEF Used
  <2>2. QED
    BY <1>1, <1>3, <2>1 DEF Slot, Following, DBG_BUFFER_SPACE
<1>4. QED
  BY <1>2, <1>3

LEMMA PutAppends ==
    ASSUME TypeOK, FreeSpace > 0, NEW byte \in Bytes,
           buffer' = [buffer EXCEPT ![head] = byte],
           head' = Following(head), tail' = tail
    PROVE  InBuffer' = Append(InBuffer, byte) /\ LastPut' = byte
<1>1. head \in Slots /\ tail \in Slots /\ buffer \in [Slots -> Bytes] /\ Used \in Nat
  BY RingType DEF TypeOK
<1>2. Used' = Used + 1
  BY <1>1, PutByte
<1>3. InBuffer' = [i \in 1..(Used + 1) |-> buffer'[Slot(tail + i - 1)]]
  BY <1>2 DEF InBuffer, Slot
<1>4. Append(InBuffer, byte) =
        [i \in 1..(Used + 1) |-> IF i = Used + 1 THEN byte ELSE InBuffer[i]]
  BY <1>1, InBufferType, AppendIs
<1>5. ASSUME NEW i \in 1..(Used + 1)
      PROVE  buffer'[Slot(tail + i - 1)] = IF i = Used + 1 THEN byte ELSE InBuffer[i]
  <2>1. CASE i = Used + 1
    BY <1>1, <2>1, UsedSlots
  <2>2. CASE i # Used + 1
    <3>1. i \in 1..Used
      BY <1>1, <2>2
    <3>2. Slot(tail + i - 1) # head
      BY <1>1, <3>1, UsedSlots
    <3>3. InBuffer[i] = buffer[Slot(tail + i - 1)]
      BY <3>1 DEF InBuffer
    <3>4. QED
      BY <1>1, <2>2, <3>2, <3>3
  <2>3. QED
    BY <2>1, <2>2
<1>6. LastPut' = byte
  <2>1. LastPut' = buffer'[Slot(Following(head) + DBG_BUFFER_SPACE)]
    BY DEF LastPut, Slot
  <2>2. QED
    BY <1>1, <2>1, UsedSlots
<1>7. QED
  BY <1>3, <1>4, <1>5, <1>6

LEMMA SendTakes ==
    ASSUME TypeOK, Used > 0,
           tail' = Following(tail), head' = head, buffer' = buffer
    PROVE  InBuffer # << >> /\ InBuffer' = Tail(InBuffer) /\ LastPut' = LastPut
<1>1. head \in Slots /\ tail \in Slots /\ buffer \in [Slots -> Bytes] /\ Used \in Nat
  BY RingType DEF TypeOK
<1>2. Used' = Used - 1
  BY <1>1, GetByte
<1>3. InBuffer # << >>
  BY <1>1, InBufferType
<1>4. InBuffer' = [i \in 1..(Used - 1) |-> buffer[Slot(Following(tail) + i - 1)]]
  BY <1>2 DEF InBuffer, Slot
<1>5. Tail(InBuffer) = [i \in 1..(Used - 1) |-> InBuffer[i + 1]]
  BY <1>1, <1>3, InBufferType, TailIs
<1>6. ASSUME NEW i \in 1..(Used - 1)
      PROVE  buffer[Slot(Following(tail) + i - 1)] = InBuffer[i + 1]
  <2>1. i + 1 \in 1..Used /\ i \in Nat
    BY <1>1
  <2>2. Slot(Following(tail) + i - 1) = Slot(tail + (i + 1) - 1)
    BY <1>1, <2>1, RingType, SizeAssumption DEF Slot, Following, Slots, DBG_BUFFER_SPACE
  <2>3. QED
    BY <2>1, <2>2 DEF InBuffer
<1>7. LastPut' = LastPut
  BY DEF LastPut, Slot
<1>8. QED
  BY <1>3, <1>4, <1>5, <1>6, <1>7

\* A string that is not complete in the buffer is the holder's, and what it
\* still has to write follows the last byte put.
StreamInv ==
    /\ LastPut.left > 0 => holder # None /\ LastPut = Byte(holder, length[holder])
    /\ \A t \in Tasks : length[t] > 0 => \E k \in Lengths : length[t] <= k

LEMMA StreamInvInit == Init => StreamInv
<1> SUFFICES ASSUME Init PROVE StreamInv
  OBVIOUS
<1>1. head \in Slots /\ DBG_BUFFER_SPACE \in Slots
  BY SizeAssumption DEF Init, Slots, DBG_BUFFER_SPACE
<1>2. LastPut = Byte(None, 0)
  BY <1>1, SlotType DEF Init, LastPut
<1>3. QED
  BY <1>2 DEF Init, StreamInv, Byte

LEMMA LastPutKept == UNCHANGED ring => UNCHANGED <<InBuffer, LastPut>>
  BY DEF ring, InBuffer, LastPut, Used, Slot

LEMMA WriteAccepts ==
    ASSUME DbgInv, StreamInv, NEW t \in Tasks, WriteByte(t)
    PROVE  /\ Stream!Accept(Byte(t, length[t] - 1)) /\ Byte(t, length[t] - 1) \in StringBytes
           /\ StreamInv'
<1>1. TypeOK /\ head \in Slots /\ tail \in Slots
  BY DEF DbgInv, TypeOK
<1>2. holder = t /\ PutInv(t)
  BY <1>1, TasksAssumption DEF WriteByte, At, DbgInv, HolderPuts, Putting
<1>3. /\ writeLength[t] > 0 /\ writeLength[t] <= length[t] /\ writeLength[t] <= FreeSpace
      /\ length[t] \in Nat /\ writeLength[t] \in Nat
  BY <1>1, <1>2, SizeAssumption DEF WriteByte, At, PutInv, TypeOK, Slots, DBG_BUFFER_SPACE
<1>4. FreeSpace \in Nat /\ Used \in Nat /\ Used + FreeSpace = DBG_BUFFER_SPACE
      /\ DBG_BUFFER_SPACE \in Nat
  BY <1>1, RingType, SizeAssumption DEF DBG_BUFFER_SPACE
<1>5. FreeSpace > 0 /\ Used < DBG_BUFFER_SPACE /\ length[t] > 0 /\ length[t] - 1 \in Nat
  BY <1>3, <1>4
<1>6. Byte(t, length[t] - 1) \in Bytes
  BY <1>5 DEF Byte, Bytes
<1>7. InBuffer' = Append(InBuffer, Byte(t, length[t] - 1)) /\ LastPut' = Byte(t, length[t] - 1)
  BY <1>1, <1>5, <1>6, PutAppends DEF WriteByte
<1>8. Byte(t, length[t] - 1) \in StringBytes
  <2>1. PICK k \in Lengths : length[t] <= k
    BY <1>5 DEF StreamInv
  <2>2. length[t] - 1 \in 0..(k - 1)
    BY <1>3, <1>5, <2>1, SizeAssumption
  <2>3. QED
    BY <2>1, <2>2 DEF StringBytes
<1>9. Stream!Follows(Byte(t, length[t] - 1), LastPut)
  BY <1>2, <1>3 DEF StreamInv, Stream!Follows, Byte
<1>10. Stream!Accept(Byte(t, length[t] - 1))
  BY <1>1, <1>5, <1>7, <1>9, InBufferType DEF Stream!Accept
<1>11. length' = [length EXCEPT ![t] = length[t] - 1] /\ holder' = holder
  BY <1>1, <1>5 DEF WriteByte
<1>12. ASSUME NEW u \in Tasks, length'[u] > 0 PROVE \E k \in Lengths : length'[u] <= k
  <2>1. CASE u = t
    <3>1. PICK k \in Lengths : length[t] <= k
      BY <1>5 DEF StreamInv
    <3>2. length'[u] <= k
      BY <1>1, <1>3, <1>11, <2>1, <3>1, SizeAssumption DEF TypeOK
    <3>3. QED
      BY <3>2
  <2>2. CASE u # t
    BY <1>1, <1>11, <1>12, <2>2 DEF StreamInv, TypeOK
  <2>3. QED
    BY <2>1, <2>2
<1>13. LastPut' = Byte(holder', length'[holder']) /\ holder' # None
  BY <1>1, <1>2, <1>7, <1>11, TasksAssumption DEF TypeOK
<1>14. QED
  BY <1>8, <1>10, <1>12, <1>13 DEF StreamInv

LEMMA StreamStep ==
    DbgInv /\ StreamInv /\ [QuietNext]_vars
      => StreamInv' /\ [Stream!StreamNext]_(Stream!streamVars)
<1> SUFFICES ASSUME DbgInv, StreamInv, [QuietNext]_vars
             PROVE  StreamInv' /\ [Stream!StreamNext]_(Stream!streamVars)
  OBVIOUS
<1>1. TypeOK
  BY DEF DbgInv
<1> USE DEF Stream!streamVars
<1>2. ASSUME NEW t \in Tasks, WriteByte(t)
      PROVE  StreamInv' /\ [Stream!StreamNext]_(Stream!streamVars)
  BY <1>2, WriteAccepts DEF Stream!StreamNext
<1>3. CASE TransmitInterrupt
  <2>1. Used > 0
    BY <1>3 DEF TransmitInterrupt, DbgInv
  <2>2. InBuffer # << >> /\ InBuffer' = Tail(InBuffer) /\ LastPut' = LastPut
    BY <1>1, <1>3, <2>1, SendTakes DEF TransmitInterrupt
  <2>3. Stream!Send
    BY <2>2 DEF Stream!Send
  <2>4. holder' = holder /\ length' = length
    BY <1>3 DEF TransmitInterrupt, locals
  <2>5. QED
    BY <2>2, <2>3, <2>4 DEF StreamInv, Stream!StreamNext
<1>4. ASSUME NEW t \in Tasks, NEW n \in Lengths, Call(t, n)
      PROVE  StreamInv' /\ [Stream!StreamNext]_(Stream!streamVars)
  <2>1. UNCHANGED <<InBuffer, LastPut>>
    BY <1>4, LastPutKept DEF Call
  <2>2. holder # t
    BY <1>4, TasksAssumption DEF Call, DbgInv, Putting
  <2>3. holder' = holder /\ length' = [length EXCEPT ![t] = n]
    BY <1>4 DEF Call
  <2>4. holder # None => holder \in Tasks /\ length'[holder] = length[holder]
    BY <1>1, <2>2, <2>3 DEF TypeOK
  <2>5. ASSUME NEW u \in Tasks, length'[u] > 0 PROVE \E k \in Lengths : length'[u] <= k
    <3>1. n <= n
      BY SizeAssumption
    <3>2. QED
      BY <1>1, <2>3, <2>5, <3>1 DEF StreamInv, TypeOK
  <2>6. QED
    BY <2>1, <2>3, <2>4, <2>5 DEF StreamInv
<1>5. ASSUME NEW t \in Tasks,
             TakeLock(t) \/ WaitForLock(t) \/ StopUart(t) \/ GetFreeSpace(t)
               \/ RequestSpace(t) \/ StartUart(t) \/ TakeSpace(t)
      PROVE  StreamInv' /\ [Stream!StreamNext]_(Stream!streamVars)
  <2>1. UNCHANGED <<InBuffer, LastPut>>
    BY <1>5, LastPutKept
       DEF TakeLock, WaitForLock, StopUart, GetFreeSpace, RequestSpace, StartUart, TakeSpace
  <2>2. length' = length /\ (holder # None => holder' = holder)
    BY <1>5
       DEF TakeLock, WaitForLock, StopUart, GetFreeSpace, RequestSpace, StartUart, TakeSpace,
           locals
  <2>3. QED
    BY <2>1, <2>2 DEF StreamInv
<1>6. ASSUME NEW t \in Tasks, Unlock(t)
      PROVE  StreamInv' /\ [Stream!StreamNext]_(Stream!streamVars)
  <2>1. UNCHANGED <<InBuffer, LastPut>> /\ length' = length
    BY <1>6, LastPutKept DEF Unlock, locals
  <2>2. holder = t /\ PutInv(t) /\ pc[t] = "unlock"
    BY <1>6, TasksAssumption DEF Unlock, At, DbgInv, HolderPuts, Putting
  <2>3. length[holder] = 0
    BY <2>2 DEF PutInv
  <2>4. ~(LastPut.left > 0)
    BY <2>3 DEF StreamInv, Byte
  <2>5. QED
    BY <2>1, <2>4 DEF StreamInv
<1>7. CASE UNCHANGED vars
  <2>1. UNCHANGED <<InBuffer, LastPut>> /\ length' = length /\ holder' = holder
    BY <1>7, LastPutKept DEF vars, locals
  <2>2. QED
    BY <2>1 DEF StreamInv
<1>8. QED
  BY <1>2, <1>3, <1>4, <1>5, <1>6, <1>7 DEF QuietNext, Put

\* Between two packets the debug output is a stream of bytes: strings of any
\* lengths, put by any number of tasks, come out whole, unmixed and in order.
THEOREM RefinesByteStream == QuietSpec => ImplementsByteStream
<1>1. Init => Stream!StreamInit
  <2> SUFFICES ASSUME Init PROVE Stream!StreamInit
    OBVIOUS
  <2>1. TypeOK /\ Used = 0
    BY DbgInit DEF DbgInv, Init, Used
  <2>2. InBuffer = << >>
    BY <2>1, InBufferType
  <2>3. head \in Slots /\ DBG_BUFFER_SPACE \in Slots
    BY SizeAssumption DEF Init, Slots, DBG_BUFFER_SPACE
  <2>4. LastPut.left = 0
    BY <2>3, SlotType DEF Init, LastPut, Byte
  <2>5. QED
    BY <2>2, <2>4 DEF Stream!StreamInit
<1>2. QED
  BY <1>1, DbgInit, DbgStep, StreamInvInit, StreamStep, PTL
     DEF QuietSpec, ImplementsByteStream, Stream!StreamSafety
=============================================================================
