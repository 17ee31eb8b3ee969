--------------------------- MODULE LogQueueProofs ---------------------------
(***************************************************************************)
(* Proofs about LogQueue for every queue size, priority, kind of record    *)
(* and number of records: producers, the pump and the transmit-complete    *)
(* handler together neither lose, duplicate nor reorder a record, and the  *)
(* interface is never locked without an owner.                             *)
(***************************************************************************)
EXTENDS LogQueue, TLAPS

-----------------------------------------------------------------------------
(* Arithmetic of the ring, without the remainder operator. *)

\* The slot k places after h, and the way from slot i to slot j.
Slot(h, k) == IF h + k < SIZE THEN h + k ELSE h + k - SIZE
Dist(i, j) == IF i <= j THEN j - i ELSE j - i + SIZE

\* next_index() is the next slot.
LEMMA NextIsSlot ==
    ASSUME NEW i \in Index
    PROVE  /\ next_index(i) \in Index
           /\ next_index(i) = IF i + 1 < SIZE THEN i + 1 ELSE 0
<1>1. CASE i + 1 < SIZE
  BY <1>1, SizeAssumption, SMT DEF Index, next_index
<1>2. CASE i + 1 = SIZE
  BY <1>2, SizeAssumption, SMT DEF Index, next_index
<1> QED BY <1>1, <1>2, SizeAssumption DEF Index

\* A remainder within one turn of the ring is the index less the turn.
LEMMA SlotIsRemainder ==
    ASSUME NEW h \in Index, NEW k \in Index
    PROVE  /\ (h + k) % SIZE = Slot(h, k)
           /\ Slot(h, k) \in Index
<1>1. CASE h + k < SIZE
  BY <1>1, SizeAssumption, SMT DEF Index, Slot
<1>2. CASE ~(h + k < SIZE)
  <2>1. h + k - SIZE \in 0 .. SIZE - 1
    BY <1>2, SizeAssumption DEF Index
  <2>2. (h + k) % SIZE = h + k - SIZE
    BY <1>2, <2>1, SizeAssumption, SMT DEF Index
  <2> QED BY <1>2, <2>1, <2>2 DEF Slot, Index
<1> QED BY <1>1, <1>2

\* The number of queued records, s_wr - s_rd modulo SIZE, is a distance.
LEMMA DistIsRemainder ==
    ASSUME NEW i \in Index, NEW j \in Index
    PROVE  /\ (j - i) % SIZE = Dist(i, j)
           /\ Dist(i, j) \in Index
<1>1. CASE i <= j
  <2>1. j - i \in 0 .. SIZE - 1
    BY <1>1, SizeAssumption DEF Index
  <2>2. (j - i) % SIZE = j - i
    BY <2>1, SizeAssumption, SMT
  <2> QED BY <1>1, <2>1, <2>2 DEF Dist, Index
<1>2. CASE ~(i <= j)
  <2>1. j - i + SIZE \in 0 .. SIZE - 1 /\ j - i < 0
    BY <1>2, SizeAssumption DEF Index
  <2>2. (j - i) % SIZE = j - i + SIZE
    BY <2>1, SizeAssumption, SMT DEF Index
  <2> QED BY <1>2, <2>1, <2>2 DEF Dist, Index
<1> QED BY <1>1, <1>2

-----------------------------------------------------------------------------
(* The inductive invariant.  That the slot a push writes holds no queued   *)
(* record, and that what is popped is a record and not a blank, need the   *)
(* types and the three parts of RecordsKept together.                      *)

QueueInv ==
    /\ s_q \in [Index -> Records \cup {None}]
    /\ s_wr \in Index /\ s_rd \in Index
    /\ pushed \in Seq(Records) /\ popped \in Seq(Records)
    /\ Len(pushed) = Len(popped) + Dist(s_rd, s_wr)
    /\ \A k \in 1 .. Len(popped) : popped[k] = pushed[k]
    /\ \A k \in 1 .. Dist(s_rd, s_wr) :
            s_q[Slot(s_rd, k - 1)] = pushed[Len(popped) + k]

LinkInv ==
    /\ prio \in {"low", "high"}
    /\ tx_done \in BOOLEAN
    /\ pump \in {"out", "pop", "lock", "send", "failed"}
    /\ bufs \in [{"e", "literal", "handler"} -> Records \cup {None}]
    /\ uart \in [buf : {"none", "e", "literal", "handler"}, shows : Records \cup {None}]

\* The invariant of the induction is what the runs check, restated.
LEMMA QueueInvIsRecordsKept == QueueInv /\ LinkInv <=> TypeOK /\ RecordsKept
<1> SUFFICES ASSUME s_wr \in Index, s_rd \in Index
             PROVE  QueueInv /\ LinkInv <=> TypeOK /\ RecordsKept
  BY DEF QueueInv, TypeOK
<1>1. count = Dist(s_rd, s_wr) /\ Dist(s_rd, s_wr) \in Index
  BY DistIsRemainder DEF count
<1>2. \A k \in 1 .. count : (s_rd + k - 1) % SIZE = Slot(s_rd, k - 1)
  <2> SUFFICES ASSUME NEW k \in 1 .. count
               PROVE  (s_rd + k - 1) % SIZE = Slot(s_rd, k - 1)
    OBVIOUS
  <2>1. k - 1 \in Index
    BY <1>1, SizeAssumption DEF Index
  <2>2. s_rd + (k - 1) = s_rd + k - 1
    BY <2>1, SizeAssumption DEF Index
  <2> QED BY <2>1, <2>2, SlotIsRemainder
<1> QED BY <1>1, <1>2 DEF QueueInv, LinkInv, TypeOK, RecordsKept

\* The empty queue and the idle interface satisfy it.
LEMMA InitInv == Init => QueueInv /\ LinkInv
<1> SUFFICES ASSUME Init PROVE QueueInv /\ LinkInv
  OBVIOUS
<1>1. 0 \in Index
  BY SizeAssumption DEF Index
<1>2. Dist(0, 0) = 0
  BY DEF Dist
<1>3. QueueInv
  BY <1>1, <1>2 DEF Init, QueueInv
<1>4. LinkInv
  BY PriosAssumption DEF Init, LinkInv, Idle
<1> QED BY <1>3, <1>4

\* A push writes the free slot: the records queued stay as they are.
LEMMA PushKeeps ==
    ASSUME QueueInv, NEW lit \in Literals, Push(lit)
    PROVE  QueueInv'
<1> DEFINE r == [id |-> Len(pushed) + 1, lit |-> lit]
           n == Dist(s_rd, s_wr)
<1> USE DEF QueueInv
<1>1. r \in Records
  BY MaxPushAssumption DEF Push, Records
<1>2. /\ s_q' = [s_q EXCEPT ![s_wr] = r] /\ pushed' = Append(pushed, r)
      /\ s_wr' = next_index(s_wr) /\ next_index(s_wr) # s_rd
      /\ s_rd' = s_rd /\ popped' = popped
  BY DEF Push, is_full
<1>3. n \in Index /\ s_wr' \in Index
  BY <1>2, DistIsRemainder, NextIsSlot
<1>4. Dist(s_rd, s_wr') = n + 1
  <2>1. s_wr \in Index /\ s_rd \in Index /\ s_wr' # s_rd
    BY <1>2
  <2>2. s_wr' = IF s_wr + 1 < SIZE THEN s_wr + 1 ELSE 0
    BY <1>2, <2>1, NextIsSlot
  <2> QED BY ONLY <2>1, <2>2, SizeAssumption DEF Dist, Index
<1>5. Slot(s_rd, n) = s_wr
  BY SizeAssumption DEF Slot, Dist, Index
<1>6. /\ Len(pushed') = Len(pushed) + 1 /\ pushed' \in Seq(Records)
      /\ pushed'[Len(pushed) + 1] = r
      /\ \A k \in 1 .. Len(pushed) : pushed'[k] = pushed[k]
  BY ONLY <1>1, <1>2, QueueInv
<1>7. Len(popped) \in Nat /\ Len(pushed) = Len(popped) + n /\ n \in Nat
  BY <1>3, SizeAssumption DEF Index
<1>8. \A k \in 1 .. n + 1 : s_q'[Slot(s_rd, k - 1)] = pushed'[Len(popped) + k]
  <2> SUFFICES ASSUME NEW k \in 1 .. n + 1
               PROVE  s_q'[Slot(s_rd, k - 1)] = pushed'[Len(popped) + k]
    OBVIOUS
  <2>1. CASE k = n + 1
    <3>1. Slot(s_rd, k - 1) = s_wr
      BY <1>5, <1>7, <2>1
    <3>2. Len(popped) + k = Len(pushed) + 1
      BY <1>7, <2>1
    <3> QED BY <1>2, <1>6, <3>1, <3>2
  <2>2. CASE k \in 1 .. n
    <3>1. k - 1 \in Index /\ k - 1 < n
      BY <1>3, <2>2, SizeAssumption DEF Index
    <3>2. Slot(s_rd, k - 1) \in Index
      BY <3>1, SlotIsRemainder
    <3>3. Slot(s_rd, k - 1) # s_wr
      <4> HIDE DEF n
      <4>1. Slot(s_rd, n) = s_wr
        BY <1>5
      <4> QED BY <1>3, <3>1, <4>1, SizeAssumption DEF Slot, Index
    <3>4. Len(popped) + k \in 1 .. Len(pushed)
      BY <1>7, <2>2
    <3> QED BY <1>2, <1>6, <2>2, <3>2, <3>3, <3>4
  <2> QED BY <1>7, <2>1, <2>2
<1>9. \A k \in 1 .. Len(popped) : popped[k] = pushed'[k]
  BY <1>6, <1>7
<1>10. s_q' \in [Index -> Records \cup {None}]
  BY <1>1, <1>2
<1> QED BY <1>2, <1>3, <1>4, <1>6, <1>7, <1>8, <1>9, <1>10

\* A pop takes the oldest queued record; what is popped is a record.
LEMMA PopKeeps ==
    ASSUME QueueInv, ~is_empty, pop
    PROVE  QueueInv' /\ front \in Records
<1> DEFINE n == Dist(s_rd, s_wr)
<1> USE DEF QueueInv
<1>1. /\ s_rd' = next_index(s_rd) /\ popped' = Append(popped, front)
      /\ s_q' = s_q /\ s_wr' = s_wr /\ pushed' = pushed /\ s_rd # s_wr
  BY DEF pop, is_empty
<1>2. n \in Index /\ n # 0 /\ s_rd' \in Index
  BY <1>1, DistIsRemainder, NextIsSlot, SizeAssumption DEF Dist, Index
<1>3. n \in Nat /\ 1 \in 1 .. n /\ Len(popped) \in Nat /\ Len(pushed) = Len(popped) + n
  BY <1>2, SizeAssumption DEF Index
<1>4. Slot(s_rd, 0) = s_rd
  BY SizeAssumption DEF Slot, Index
<1>5. front = pushed[Len(popped) + 1]
  <2>1. s_q[Slot(s_rd, 1 - 1)] = pushed[Len(popped) + 1]
    BY <1>3
  <2> QED BY <1>4, <2>1 DEF front
<1>6. front \in Records
  <2>1. Len(popped) + 1 \in 1 .. Len(pushed)
    BY <1>3
  <2> QED BY <1>5, <2>1
<1>7. s_rd' = IF s_rd + 1 < SIZE THEN s_rd + 1 ELSE 0
  BY <1>1, NextIsSlot
<1>8. Dist(s_rd', s_wr) = n - 1
  <2>1. s_wr \in Index /\ s_rd \in Index /\ s_wr # s_rd
    BY <1>1
  <2> QED BY ONLY <1>7, <2>1, SizeAssumption DEF Dist, Index
<1>9. /\ Len(popped') = Len(popped) + 1 /\ popped' \in Seq(Records)
      /\ popped'[Len(popped) + 1] = front
      /\ \A k \in 1 .. Len(popped) : popped'[k] = popped[k]
  BY ONLY <1>1, <1>6, QueueInv
<1>10. \A k \in 1 .. Len(popped') : popped'[k] = pushed[k]
  BY <1>3, <1>5, <1>9
<1>11. \A k \in 1 .. n - 1 : s_q[Slot(s_rd', k - 1)] = pushed[Len(popped') + k]
  <2> SUFFICES ASSUME NEW k \in 1 .. n - 1
               PROVE  s_q[Slot(s_rd', k - 1)] = pushed[Len(popped') + k]
    OBVIOUS
  <2>1. k + 1 \in 1 .. n /\ Len(popped') + k = Len(popped) + (k + 1)
    BY <1>3, <1>9
  <2>2. Slot(s_rd', k - 1) = Slot(s_rd, (k + 1) - 1)
    <3> HIDE DEF n
    <3>1. k \in Index /\ k - 1 \in Index
      BY <1>2, SizeAssumption DEF Index
    <3>2. s_rd \in Index
      OBVIOUS
    <3> QED BY ONLY <1>7, <3>1, <3>2, SizeAssumption DEF Slot, Index
  <2> QED BY <2>1, <2>2
<1> QED BY <1>1, <1>2, <1>3, <1>6, <1>8, <1>9, <1>10, <1>11

\* Every step keeps the invariant.
LEMMA StepInv == QueueInv /\ LinkInv /\ [Next]_vars => QueueInv' /\ LinkInv'
<1> SUFFICES ASSUME QueueInv, LinkInv, [Next]_vars
             PROVE  QueueInv' /\ LinkInv'
  OBVIOUS
<1>1. ASSUME UNCHANGED queueVars PROVE QueueInv'
  BY <1>1 DEF queueVars, QueueInv
<1>2. CASE \E lit \in Literals : Push(lit)
  <2>1. PICK lit \in Literals : Push(lit)
    BY <1>2
  <2> QED BY <2>1, PushKeeps DEF Push, LinkInv
<1>3. CASE PushDrop
  BY <1>1, <1>3 DEF PushDrop, vars, LinkInv
<1>4. CASE PumpEnter
  BY <1>1, <1>4 DEF PumpEnter, LinkInv
<1>5. CASE PumpPop
  <2>1. QueueInv' /\ front \in Records
    BY <1>5, PopKeeps DEF PumpPop
  <2>2. bufs' \in [{"e", "literal", "handler"} -> Records \cup {None}]
    BY <1>5, <2>1 DEF PumpPop, LinkInv
  <2> QED BY <1>5, <2>1, <2>2 DEF PumpPop, LinkInv
<1>6. CASE PumpEmpty
  BY <1>1, <1>6 DEF PumpEmpty, LinkInv
<1>7. CASE PumpLock
  BY <1>1, <1>7 DEF PumpLock, LinkInv
<1>8. CASE PumpSendOk
  <2>1. bufs["e"] \in Records \cup {None}
    BY DEF LinkInv
  <2>2. uart' \in [buf : {"none", "e", "literal", "handler"}, shows : Records \cup {None}]
    BY <1>8, <2>1 DEF PumpSendOk
  <2> QED BY <1>1, <1>8, <2>2 DEF PumpSendOk, LinkInv
<1>9. CASE PumpSendError
  BY <1>1, <1>9 DEF PumpSendError, LinkInv
<1>10. CASE PumpUnlock
  BY <1>1, <1>10 DEF PumpUnlock, unlock_after_error, LinkInv
<1>11. CASE TxDone
  BY <1>1, <1>11 DEF TxDone, handler_unlocks, Idle, LinkInv
<1>12. CASE TxNext
  <2>1. QueueInv' /\ front \in Records
    BY <1>12, PopKeeps DEF TxNext
  <2>2. bufs' \in [{"e", "literal", "handler"} -> Records \cup {None}]
    BY <1>12, <2>1 DEF TxNext, LinkInv
  <2>3. uart' \in [buf : {"none", "e", "literal", "handler"}, shows : Records \cup {None}]
    BY <1>12, <2>1 DEF TxNext, Idle
  <2> QED BY <1>12, <2>1, <2>2, <2>3 DEF TxNext, handler_unlocks, LinkInv
<1>13. CASE UNCHANGED vars
  BY <1>1, <1>13 DEF vars, queueVars, LinkInv
<1> QED
  BY <1>2, <1>3, <1>4, <1>5, <1>6, <1>7, <1>8, <1>9, <1>10, <1>11, <1>12, <1>13
  DEF Next, Pump, Uart

(***************************************************************************)
(* tlk_debug_log_event_push() and _pop() keep every accepted record and    *)
(* their order, for every queue size and with records taken out both by    *)
(* the pump and by the transmit-complete handler.                          *)
(***************************************************************************)
THEOREM LogKeepsRecords == Spec => []RecordsKept
<1>1. Init => QueueInv /\ LinkInv
  BY InitInv
<1>2. QueueInv /\ LinkInv /\ [Next]_vars => (QueueInv /\ LinkInv)'
  BY StepInv
<1>3. QueueInv /\ LinkInv => RecordsKept
  BY QueueInvIsRecordsKept
<1> QED BY <1>1, <1>2, <1>3, PTL DEF Spec

(***************************************************************************)
(* The interface lock tlk_tx_done always has an owner, whatever sends fail *)
(* and wherever the transmit-complete handler cuts the pump in two.        *)
(***************************************************************************)
THEOREM LockIsOwned == Spec => []LockHasOwner
<1>1. Init => LockHasOwner
  BY DEF Init, LockHasOwner
<1>2. LockHasOwner /\ [Next]_vars => LockHasOwner'
  <2> SUFFICES ASSUME LockHasOwner, [Next]_vars PROVE LockHasOwner'
    OBVIOUS
  <2> USE DEF LockHasOwner
  <2>1. CASE (\E lit \in Literals : Push(lit)) \/ PushDrop
    BY <2>1 DEF Push, PushDrop, vars
  <2>2. CASE PumpEnter \/ PumpPop \/ PumpEmpty
    BY <2>2 DEF PumpEnter, PumpPop, PumpEmpty
  <2>3. CASE PumpLock \/ PumpSendError
    BY <2>3 DEF PumpLock, PumpSendError
  <2>4. CASE PumpSendOk
    BY <2>4 DEF PumpSendOk, Idle
  <2>5. CASE PumpUnlock
    BY <2>5 DEF PumpUnlock, unlock_after_error
  <2>6. CASE Uart
    BY <2>6 DEF Uart, TxDone, TxNext, handler_unlocks
  <2>7. CASE UNCHANGED vars
    BY <2>7 DEF vars
  <2> QED BY <2>1, <2>2, <2>3, <2>4, <2>5, <2>6, <2>7 DEF Next, Pump
<1> QED BY <1>1, <1>2, PTL DEF Spec
=============================================================================
