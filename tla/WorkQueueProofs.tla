-------------------------- MODULE WorkQueueProofs --------------------------
(***************************************************************************)
(* Proofs about WorkQueue for every ring size, every set of jobs and every *)
(* bound: the ring, its indexes and the draining task together neither     *)
(* lose, duplicate nor reorder a job, and the queue implements WorkFifo.   *)
(***************************************************************************)
EXTENDS WorkQueue, TLAPS

-----------------------------------------------------------------------------
(* Arithmetic of ring indexes. *)

\* An index advanced by one, as submit and pop advance theirs, stays inside.
LEMMA AdvanceInside ==
    ASSUME NEW i \in Index
    PROVE  /\ (i + 1) % SIZE \in Index
           /\ (i + 1) % SIZE = IF i + 1 < SIZE THEN i + 1 ELSE 0
<1>1. CASE i + 1 < SIZE
  BY <1>1, SizeAssumption, SMT DEF Index
<1>2. CASE i + 1 = SIZE
  BY <1>2, SizeAssumption, SMT DEF Index
<1> QED BY <1>1, <1>2, SizeAssumption DEF Index

\* The ring index k places after h, without the remainder operator.
Slot(h, k) == IF h + k < SIZE THEN h + k ELSE h + k - SIZE

\* Slot is what queued() and the ring indexes of the code compute with %.
LEMMA SlotIsRemainder ==
    ASSUME NEW h \in Index, NEW k \in 0 .. SIZE
    PROVE  /\ (h + k) % SIZE = Slot(h, k)
           /\ Slot(h, k) \in Index
<1>1. CASE h + k < SIZE
  BY <1>1, SizeAssumption, SMT DEF Index, Slot
<1>2. CASE ~(h + k < SIZE)
  <2>1. h + k - SIZE \in 0 .. SIZE - 1
    BY <1>2, SizeAssumption DEF Index
  <2>2. (h + k) % SIZE = h + k - SIZE
    BY <1>2, <2>1, SizeAssumption, SMT DEF Index
  <2> QED BY <1>2, <2>1, <2>2 DEF Slot, Index
<1> QED BY <1>1, <1>2

-----------------------------------------------------------------------------
(* The inductive invariant.  NothingLost is not inductive by itself: that  *)
(* the slot submit writes is not one of the occupied ones needs tail to be *)
(* head + count, and that a popped item is a job needs the types.          *)

IInv == TypeOK /\ RingAgrees /\ NothingLost

\* The same invariant with every index written as a Slot.
SlotInv ==
    /\ TypeOK
    /\ work_q_tail = Slot(work_q_head, work_q_count)
    /\ ~locked
    /\ (item # NoJob) <=> (pc = "run")
    /\ Len(accepted) = taken + work_q_count
    /\ \A k \in 1 .. Len(ran) : ran[k] = accepted[k]
    /\ pc = "run" => item = accepted[Len(ran) + 1]
    /\ \A k \in 1 .. work_q_count :
            sWorkItem[Slot(work_q_head, k - 1)] = accepted[taken + k]

\* The invariant the induction uses is the one the runs check, restated.
LEMMA SlotInvIsIInv == SlotInv <=> IInv
<1> SUFFICES ASSUME TypeOK PROVE SlotInv <=> IInv
  BY DEF SlotInv, IInv
<1>1. (work_q_head + work_q_count) % SIZE = Slot(work_q_head, work_q_count)
  BY SlotIsRemainder DEF TypeOK
<1>2. \A k \in 1 .. work_q_count :
         queued(k) = sWorkItem[Slot(work_q_head, k - 1)]
  <2> SUFFICES ASSUME NEW k \in 1 .. work_q_count
               PROVE  (work_q_head + k - 1) % SIZE = Slot(work_q_head, k - 1)
    BY DEF queued
  <2>1. k - 1 \in 0 .. SIZE /\ work_q_head \in Index
    BY SizeAssumption DEF TypeOK
  <2>2. (work_q_head + (k - 1)) % SIZE = Slot(work_q_head, k - 1)
    BY <2>1, SlotIsRemainder
  <2>3. work_q_head + (k - 1) = work_q_head + k - 1
    BY <2>1, SizeAssumption DEF TypeOK, Index
  <2> QED BY <2>2, <2>3
<1> QED BY <1>1, <1>2 DEF SlotInv, IInv, RingAgrees, NothingLost

\* The statically initialised queue satisfies the invariant.
LEMMA InitSlotInv == Init => SlotInv
<1> SUFFICES ASSUME Init PROVE SlotInv
  OBVIOUS
<1>1. TypeOK
  <2>1. /\ work_q_head \in Index /\ work_q_tail \in Index
        /\ work_q_count \in 0 .. SIZE
    BY SizeAssumption DEF Init, Index
  <2>2. wake \in Time /\ mtime \in 0 .. Horizon /\ now \in 0 .. Horizon
    BY SignBitAssumption, HorizonAssumption DEF Init, Time, UINT64_MAX, Modulus
  <2>3. sWorkItem \in [Index -> Jobs \cup {NoJob}]
    BY DEF Init
  <2>4. accepted \in Seq(Jobs) /\ ran \in Seq(Jobs)
    BY DEF Init
  <2> QED BY <2>1, <2>2, <2>3, <2>4 DEF Init, TypeOK
<1> QED BY <1>1, SizeAssumption DEF Init, SlotInv, Slot, taken

\* An accepted submission keeps it: the new job goes to the free slot.
LEMMA AcceptKeepsSlotInv ==
    ASSUME SlotInv, NEW j \in Jobs \cup {NoJob}, submit_accept(j)
    PROVE  SlotInv'
<1> USE DEF SlotInv
<1>1. /\ j \in Jobs /\ work_q_count < SIZE
      /\ work_q_count' = work_q_count + 1
      /\ work_q_head' = work_q_head /\ pc' = pc /\ item' = item /\ ran' = ran
      /\ sWorkItem' = [sWorkItem EXCEPT ![work_q_tail] = j]
      /\ accepted' = Append(accepted, j)
  BY SizeAssumption DEF submit_accept, is_full, TypeOK, store
<1>2. TypeOK'
  <2>1. work_q_tail' \in Index
    BY AdvanceInside DEF submit_accept, advance_tail, TypeOK
  <2>2. wake' \in Time
    BY HorizonAssumption, SignBitAssumption
    DEF submit_accept, TypeOK, Time, UINT64_MAX, Modulus
  <2>3. accepted' \in Seq(Jobs)
    BY <1>1 DEF TypeOK
  <2>4. work_q_count' \in 0 .. SIZE
    BY <1>1, SizeAssumption DEF TypeOK
  <2>5. sWorkItem' \in [Index -> Jobs \cup {NoJob}]
    BY <1>1 DEF TypeOK
  <2> QED BY <1>1, <2>1, <2>2, <2>3, <2>4, <2>5 DEF submit_accept, TypeOK
<1>3. work_q_tail' = Slot(work_q_head', work_q_count')
  <2>1. work_q_tail' = IF work_q_tail + 1 < SIZE THEN work_q_tail + 1 ELSE 0
    BY AdvanceInside DEF submit_accept, advance_tail, TypeOK
  <2> QED BY <1>1, <2>1, SizeAssumption DEF TypeOK, Index, Slot
<1>4. Len(accepted') = Len(accepted) + 1 /\ taken' = taken
  <2>1. accepted \in Seq(Jobs)
    BY DEF TypeOK
  <2>2. Len(accepted') = Len(accepted) + 1
    BY ONLY <1>1, <2>1
  <2>3. taken' = taken
    BY ONLY <1>1 DEF taken
  <2> QED BY <2>2, <2>3
<1>5. \A k \in 1 .. Len(accepted) : accepted'[k] = accepted[k]
  BY <1>1 DEF TypeOK
<1>6. taken \in Nat /\ Len(ran) \in Nat
  BY DEF TypeOK, taken
<1>7. \A k \in 1 .. work_q_count' :
         sWorkItem'[Slot(work_q_head', k - 1)] = accepted'[taken' + k]
  <2> SUFFICES ASSUME NEW k \in 1 .. work_q_count + 1
               PROVE  sWorkItem'[Slot(work_q_head, k - 1)] = accepted'[taken + k]
    BY <1>1, <1>4
  <2>1. CASE k = work_q_count + 1
    <3>1. Slot(work_q_head, k - 1) = work_q_tail /\ work_q_tail \in Index
      BY <2>1 DEF TypeOK
    <3>2. accepted'[taken + k] = j
      BY <1>1, <1>6, <2>1 DEF TypeOK
    <3> QED BY <1>1, <3>1, <3>2 DEF TypeOK
  <2>2. CASE k \in 1 .. work_q_count
    <3>1. Slot(work_q_head, k - 1) # work_q_tail
      <4>1. /\ work_q_tail = Slot(work_q_head, work_q_count)
            /\ work_q_head \in Index /\ work_q_count \in 0 .. SIZE
        BY DEF TypeOK
      <4> QED BY ONLY <1>1, <2>2, <4>1, SizeAssumption DEF Slot, Index
    <3>2. taken + k \in 1 .. Len(accepted)
      BY <1>6, <2>2 DEF TypeOK
    <3> QED BY <1>1, <1>5, <2>2, <3>1, <3>2 DEF TypeOK
  <2> QED BY <2>1, <2>2 DEF TypeOK
<1>8. \A k \in 1 .. Len(ran') : ran'[k] = accepted'[k]
  BY <1>1, <1>5, <1>6 DEF TypeOK, taken
<1>9. pc' = "run" => item' = accepted'[Len(ran') + 1]
  BY <1>1, <1>5, <1>6 DEF TypeOK, taken
<1>10. ~locked' /\ ((item' # NoJob) <=> (pc' = "run"))
  BY <1>1 DEF submit_accept
<1>11. Len(accepted') = taken' + work_q_count'
  BY <1>1, <1>4, <1>6 DEF TypeOK
<1> QED BY ONLY <1>2, <1>3, <1>7, <1>8, <1>9, <1>10, <1>11 DEF SlotInv

\* A pop keeps it: the oldest job becomes the local copy.
LEMMA PopKeepsSlotInv ==
    ASSUME SlotInv, Pop
    PROVE  SlotInv'
<1> USE DEF SlotInv
<1>1. /\ pc = "pop" /\ pc' = "run" /\ work_q_count > 0
      /\ work_q_count' = work_q_count - 1
      /\ item' = sWorkItem[work_q_head]
      /\ work_q_tail' = work_q_tail /\ sWorkItem' = sWorkItem
      /\ accepted' = accepted /\ ran' = ran
  BY DEF Pop, is_empty, TypeOK, queueVars, histVars
<1>2. /\ work_q_head' \in Index
      /\ work_q_head' = IF work_q_head + 1 < SIZE THEN work_q_head + 1 ELSE 0
  BY AdvanceInside DEF Pop, advance_head, TypeOK
<1>3. taken = Len(ran) /\ taken' = Len(ran) + 1 /\ Len(ran) \in Nat
  BY <1>1 DEF taken, TypeOK
<1>4. item' = accepted[Len(ran) + 1] /\ item' \in Jobs
  <2>1. Slot(work_q_head, 0) = work_q_head
    BY SizeAssumption DEF Slot, TypeOK, Index
  <2>2. sWorkItem[Slot(work_q_head, 1 - 1)] = accepted[taken + 1]
    BY <1>1 DEF TypeOK
  <2>3. accepted[taken + 1] \in Jobs
    BY <1>1, <1>3 DEF TypeOK
  <2> QED BY <1>1, <1>3, <2>1, <2>2, <2>3
<1>5. TypeOK'
  BY <1>1, <1>2, <1>4, SizeAssumption DEF Pop, TypeOK, queueVars, histVars
<1>6. work_q_tail' = Slot(work_q_head', work_q_count')
  BY <1>1, <1>2, SizeAssumption DEF TypeOK, Slot, Index
<1>7. \A k \in 1 .. work_q_count' :
         sWorkItem'[Slot(work_q_head', k - 1)] = accepted'[taken' + k]
  <2> SUFFICES ASSUME NEW k \in 1 .. work_q_count - 1
               PROVE  sWorkItem[Slot(work_q_head', k - 1)] = accepted[Len(ran) + 1 + k]
    BY <1>1, <1>3
  <2>1. k + 1 \in 1 .. work_q_count /\ (k + 1) - 1 = k
    BY DEF TypeOK
  <2>2. sWorkItem[Slot(work_q_head, k)] = accepted[Len(ran) + (k + 1)]
    BY <1>3, <2>1
  <2>3. Slot(work_q_head', k - 1) = Slot(work_q_head, k)
    BY <1>2, <2>1, SizeAssumption DEF TypeOK, Slot, Index
  <2>4. Len(ran) + (k + 1) = Len(ran) + 1 + k
    BY <1>3
  <2> QED BY <2>2, <2>3, <2>4
<1>8. ~locked' /\ (item' # NoJob) /\ Len(accepted') = taken' + work_q_count'
  BY <1>1, <1>3, <1>4, NoJobAssumption DEF Pop, TypeOK, taken
<1> QED BY <1>1, <1>3, <1>4, <1>5, <1>6, <1>7, <1>8

\* The return of a job keeps it: the local copy joins the jobs run.
LEMMA RunJobKeepsSlotInv ==
    ASSUME SlotInv, RunJob
    PROVE  SlotInv'
<1> USE DEF SlotInv
<1>1. /\ pc = "run" /\ pc' = "pop" /\ item' = NoJob /\ ran' = Append(ran, item)
      /\ accepted' = accepted /\ work_q_head' = work_q_head
      /\ work_q_tail' = work_q_tail /\ work_q_count' = work_q_count
      /\ sWorkItem' = sWorkItem /\ locked' = locked
  BY DEF RunJob, queueVars
<1>2. item \in Jobs
  BY <1>1, NoJobAssumption DEF TypeOK
<1>3. TypeOK'
  BY <1>1, <1>2 DEF RunJob, TypeOK
<1>4. Len(ran') = Len(ran) + 1 /\ taken' = taken /\ Len(ran) \in Nat
  BY <1>1, <1>2 DEF TypeOK, taken
<1>5. \A k \in 1 .. Len(ran') : ran'[k] = accepted'[k]
  <2> SUFFICES ASSUME NEW k \in 1 .. Len(ran) + 1
               PROVE  ran'[k] = accepted[k]
    BY <1>1, <1>4
  <2>1. CASE k = Len(ran) + 1
    <3>1. ran'[k] = item
      BY <1>1, <1>2, <2>1 DEF TypeOK
    <3> QED BY <1>1, <2>1, <3>1
  <2>2. CASE k \in 1 .. Len(ran)
    <3>1. ran'[k] = ran[k]
      BY <1>1, <1>2, <2>2 DEF TypeOK
    <3> QED BY <2>2, <3>1
  <2> QED BY <1>4, <2>1, <2>2
<1> QED BY <1>1, <1>3, <1>4, <1>5, Zenon

\* Every step, and stuttering, keeps it.
LEMMA NextKeepsSlotInv == SlotInv /\ [Next]_vars => SlotInv'
<1> SUFFICES ASSUME SlotInv, [Next]_vars PROVE SlotInv'
  OBVIOUS
<1> USE DEF SlotInv, taken
<1>1. CASE Tick
  BY <1>1, HorizonAssumption DEF Tick, TypeOK, queueVars, histVars
<1>2. ASSUME NEW j \in Jobs \cup {NoJob}, tlk_task_work_submit(j) PROVE SlotInv'
  <2>1. CASE submit_accept(j)
    BY <2>1, AcceptKeepsSlotInv
  <2>2. CASE submit_reject(j)
    BY <2>2 DEF submit_reject, TypeOK, queueVars, histVars
  <2> QED BY <1>2, <2>1, <2>2 DEF tlk_task_work_submit
<1>3. CASE LoopTop
  BY <1>3 DEF LoopTop, TypeOK, queueVars, histVars
<1>4. CASE Scan
  BY <1>4 DEF Scan, TypeOK, queueVars, histVars
<1>5. CASE Pop
  BY <1>5, PopKeepsSlotInv
<1>6. CASE PopNothing
  BY <1>6 DEF PopNothing, TypeOK, queueVars, histVars
<1>7. CASE RunJob
  BY <1>7, RunJobKeepsSlotInv
<1>8. CASE Park
  BY <1>8, SignBitAssumption DEF Park, TypeOK, queueVars, histVars, Time, UINT64_MAX, Modulus
<1>9. CASE UNCHANGED vars
  BY <1>9 DEF vars, TypeOK, queueVars, histVars
<1> QED BY <1>1, <1>2, <1>3, <1>4, <1>5, <1>6, <1>7, <1>8, <1>9 DEF Next, Main

-----------------------------------------------------------------------------
(***************************************************************************)
(* The inductive invariant holds in every reachable state.                 *)
(***************************************************************************)
THEOREM Invariance == Spec => []SlotInv
<1>1. Init => SlotInv
  BY InitSlotInv
<1>2. SlotInv /\ [Next]_vars => SlotInv'
  BY NextKeepsSlotInv
<1> QED BY <1>1, <1>2, PTL DEF Spec

(***************************************************************************)
(* Every variable of the queue keeps its type: in particular the indexes   *)
(* submit and pop use never leave the array sWorkItem.                     *)
(***************************************************************************)
THEOREM TypeCorrect == Spec => []TypeOK
<1>1. SlotInv => TypeOK
  BY DEF SlotInv
<1> QED BY <1>1, Invariance, PTL

(***************************************************************************)
(* The indexes and the counter of sWorkQueue agree, and the submit lock is *)
(* free whenever an interrupt can be taken.                                *)
(***************************************************************************)
THEOREM RingConsistent == Spec => []RingAgrees
<1>1. SlotInv => RingAgrees
  BY SlotInvIsIInv DEF IInv
<1> QED BY <1>1, Invariance, PTL

(***************************************************************************)
(* No job that tlk_task_work_submit() accepted is lost, duplicated or      *)
(* reordered by any interleaving of submitters with the draining task.     *)
(***************************************************************************)
THEOREM NoJobLost == Spec => []NothingLost
<1>1. SlotInv => NothingLost
  BY SlotInvIsIInv DEF IInv
<1> QED BY <1>1, Invariance, PTL

-----------------------------------------------------------------------------
(* The queue implements WorkFifo. *)

ring == [k \in 1 .. work_q_count |-> queued(k)]

RingFacts ==
    /\ ring \in Seq(Jobs)
    /\ Len(ring) = work_q_count
    /\ \A k \in 1 .. work_q_count : ring[k] = accepted[taken + k]

\* The ring, read from its head, is a sequence of the waiting jobs.
LEMMA RingIsSequence == SlotInv => RingFacts
<1> SUFFICES ASSUME SlotInv PROVE RingFacts
  OBVIOUS
<1>1. NothingLost /\ TypeOK
  BY SlotInvIsIInv DEF IInv
<1>2. work_q_count \in Nat /\ taken \in Nat /\ accepted \in Seq(Jobs)
  BY <1>1, SizeAssumption DEF TypeOK, taken
<1>3. \A k \in 1 .. work_q_count : ring[k] = accepted[taken + k]
  BY <1>1 DEF NothingLost, ring
<1>4. \A k \in 1 .. work_q_count : accepted[taken + k] \in Jobs
  BY <1>1, <1>2 DEF NothingLost
<1>5. ring \in [1 .. work_q_count -> Jobs]
  BY <1>3, <1>4 DEF ring
<1>6. ring \in Seq(Jobs) /\ Len(ring) = work_q_count
  BY <1>2, <1>5
<1> QED BY <1>3, <1>6 DEF RingFacts

\* The same after a step.
LEMMA RingIsSequenceNext == SlotInv' => RingFacts'
  BY RingIsSequence, PTL

\* An accepted submission appends to the abstract queue.
LEMMA AcceptIsFifoSubmit ==
    ASSUME SlotInv, SlotInv', NEW j \in Jobs \cup {NoJob}, submit_accept(j)
    PROVE  Fifo!Submit(j)
<1>1. /\ ok' = TRUE /\ j \in Jobs /\ j # NoJob /\ work_q_count \in Nat
      /\ work_q_count < SIZE /\ work_q_count' = work_q_count + 1
      /\ accepted' = Append(accepted, j) /\ ran' = ran /\ item' = item /\ pc' = pc
  BY SizeAssumption DEF submit_accept, is_full, SlotInv, TypeOK
<1>2. /\ accepted \in Seq(Jobs) /\ taken \in Nat
      /\ Len(accepted) = taken + work_q_count /\ taken' = taken
  BY <1>1 DEF SlotInv, TypeOK, taken
<1>3. ring \in Seq(Jobs) /\ Len(ring) = work_q_count
  BY RingIsSequence DEF RingFacts
<1>4. ring' \in Seq(Jobs) /\ Len(ring') = work_q_count'
  BY RingIsSequenceNext DEF RingFacts
<1>5. \A k \in 1 .. work_q_count + 1 : ring'[k] = Append(ring, j)[k]
  <2> SUFFICES ASSUME NEW k \in 1 .. work_q_count + 1
               PROVE  ring'[k] = Append(ring, j)[k]
    OBVIOUS
  <2>1. ring'[k] = Append(accepted, j)[taken + k]
    BY <1>1, <1>2, RingIsSequenceNext DEF RingFacts
  <2>2. CASE k = work_q_count + 1
    BY <1>1, <1>2, <1>3, <2>1, <2>2
  <2>3. CASE k \in 1 .. work_q_count
    <3>1. taken + k \in 1 .. Len(accepted)
      BY <1>1, <1>2, <2>3
    <3>2. Append(accepted, j)[taken + k] = accepted[taken + k]
      BY <1>2, <3>1
    <3>3. ring[k] = accepted[taken + k]
      BY <2>3, RingIsSequence DEF RingFacts
    <3>4. Append(ring, j)[k] = ring[k]
      BY <1>3, <2>3
    <3> QED BY <2>1, <3>2, <3>3, <3>4
  <2>4. k = work_q_count + 1 \/ k \in 1 .. work_q_count
    BY <1>1
  <2> QED BY <2>2, <2>3, <2>4, Zenon
<1>6. ring' = Append(ring, j)
  BY <1>1, <1>3, <1>4, <1>5
<1> QED BY <1>1, <1>3, <1>6 DEF Fifo!Submit, ring

\* A pop starts the oldest job of the abstract queue.
LEMMA PopIsFifoStart ==
    ASSUME SlotInv, SlotInv', Pop
    PROVE  Fifo!Start
<1>1. /\ pc = "pop" /\ pc' = "run" /\ work_q_count \in Nat /\ work_q_count > 0
      /\ work_q_count' = work_q_count - 1 /\ accepted' = accepted
      /\ ran' = ran /\ ok' = ok
  BY SizeAssumption DEF Pop, is_empty, SlotInv, TypeOK, histVars
<1>2. item = NoJob /\ Len(ran) \in Nat /\ taken = Len(ran) /\ taken' = Len(ran) + 1
  BY <1>1 DEF SlotInv, TypeOK, taken
<1>3. /\ ring \in Seq(Jobs) /\ Len(ring) = work_q_count
      /\ \A k \in 1 .. work_q_count : ring[k] = accepted[Len(ran) + k]
  BY <1>2, RingIsSequence DEF RingFacts
<1>4. /\ ring' \in Seq(Jobs) /\ Len(ring') = work_q_count - 1
      /\ \A k \in 1 .. work_q_count - 1 : ring'[k] = accepted[Len(ran) + 1 + k]
  BY <1>1, <1>2, RingIsSequenceNext DEF RingFacts
<1>5. item' = Head(ring) /\ ring # <<>>
  <2>1. item' = accepted[Len(ran) + 1]
    BY <1>1 DEF SlotInv
  <2>2. Head(ring) = ring[1] /\ 1 \in 1 .. work_q_count
    BY <1>1, <1>3
  <2> QED BY <1>1, <1>3, <2>1, <2>2
<1>6. ring' = Tail(ring)
  <2>1. Tail(ring) \in Seq(Jobs) /\ Len(Tail(ring)) = work_q_count - 1
    BY <1>1, <1>3, <1>5
  <2>2. \A k \in 1 .. work_q_count - 1 : ring'[k] = Tail(ring)[k]
    <3> SUFFICES ASSUME NEW k \in 1 .. work_q_count - 1
                 PROVE  ring'[k] = Tail(ring)[k]
      OBVIOUS
    <3>1. Tail(ring)[k] = ring[k + 1] /\ k + 1 \in 1 .. work_q_count
      BY <1>1, <1>3, <1>5
    <3>2. ring[k + 1] = accepted[Len(ran) + (k + 1)]
      BY <1>3, <3>1
    <3>3. Len(ran) + (k + 1) = Len(ran) + 1 + k
      BY <1>2
    <3> QED BY <1>4, <3>1, <3>2, <3>3
  <2> QED BY <1>1, <1>4, <2>1, <2>2
<1> QED BY <1>1, <1>2, <1>5, <1>6 DEF Fifo!Start, ring

\* Every step of the queue is a step of WorkFifo or changes none of it.
LEMMA StepIsFifoStep ==
    ASSUME SlotInv, SlotInv', [Next]_vars
    PROVE  [Fifo!Next]_(Fifo!fifoVars)
<1>1. ASSUME UNCHANGED <<queueVars, item, ran, ok>> PROVE UNCHANGED Fifo!fifoVars
  BY <1>1 DEF queueVars, Fifo!fifoVars, queued
<1>2. CASE Tick \/ LoopTop \/ Scan \/ PopNothing \/ Park
  BY <1>1, <1>2 DEF Tick, LoopTop, Scan, PopNothing, Park, histVars
<1>3. ASSUME NEW j \in Jobs \cup {NoJob}, tlk_task_work_submit(j)
      PROVE  Fifo!Next
  <2>1. CASE submit_accept(j)
    BY <2>1, AcceptIsFifoSubmit DEF Fifo!Next
  <2>2. CASE submit_reject(j)
    <3>1. ring' = ring /\ item' = item /\ ran' = ran /\ ok' = FALSE
      BY <2>2 DEF submit_reject, queueVars, histVars, ring, queued
    <3>2. ~(j # NoJob /\ Len(ring) < SIZE)
      <4>1. Len(ring) = work_q_count /\ work_q_count \in Nat
        BY RingIsSequence, SizeAssumption DEF RingFacts, SlotInv, TypeOK
      <4> QED BY <2>2, <4>1, SizeAssumption DEF submit_reject, is_full, SlotInv
    <3>3. Fifo!Submit(j)
      BY <3>1, <3>2 DEF Fifo!Submit, ring
    <3> QED BY <3>3 DEF Fifo!Next
  <2> QED BY <1>3, <2>1, <2>2 DEF tlk_task_work_submit
<1>4. CASE Pop
  BY <1>4, PopIsFifoStart DEF Fifo!Next
<1>5. CASE RunJob
  <2>1. ring' = ring /\ item # NoJob /\ item' = NoJob /\ ok' = ok
        /\ ran' = Append(ran, item)
    BY <1>5 DEF RunJob, SlotInv, queueVars, ring, queued
  <2> QED BY <2>1 DEF Fifo!Next, Fifo!Finish, ring
<1>6. CASE UNCHANGED vars
  BY <1>1, <1>6 DEF vars, histVars
<1> QED BY <1>2, <1>3, <1>4, <1>5, <1>6 DEF Next, Main

(***************************************************************************)
(* The ring, its lock and the draining task implement the service of       *)
(* WorkFifo: bounded acceptance, each accepted job run once, in order.     *)
(***************************************************************************)
THEOREM ImplementsFifo == Spec => FifoSpec
<1>1. Init => Fifo!Init
  <2> SUFFICES ASSUME Init PROVE Fifo!Init
    OBVIOUS
  <2>1. ring \in Seq(Jobs) /\ Len(ring) = 0
    BY InitSlotInv, RingIsSequence DEF Init, RingFacts
  <2>2. ring = <<>>
    BY <2>1
  <2> QED BY <2>2 DEF Init, Fifo!Init, ring
<1>2. SlotInv /\ SlotInv' /\ [Next]_vars => [Fifo!Next]_(Fifo!fifoVars)
  BY StepIsFifoStep
<1> QED BY <1>1, <1>2, Invariance, PTL DEF Spec, FifoSpec, Fifo!Spec
=============================================================================
