----------------------------- MODULE DemosProofs -----------------------------
(***************************************************************************)
(* Proofs about the programs that MCDemos puts together: BLE connections,  *)
(* DMA, radio, USB printing, audio, UART, the bus programs, the samples    *)
(* and the controls of the USB audio programs.                             *)
(***************************************************************************)
EXTENDS MCDemos, Sequences, FiniteSetTheorems, SequenceTheorems, WellFoundedInduction, TLAPS

-----------------------------------------------------------------------------
(* The parts.  A step of the composition is a step of one of them and      *)
(* leaves the variables of the others alone.                               *)

LEMMA BleMoves == [Next]_vars => H!Next \/ UNCHANGED ble_vars
BY DEF Next, vars, RfStep, AudioStep, UsbStep, UartStep, DmaStep, BusStep, BleStep, SampleStep,
       LogStep, ControlStep, others_rest

LEMMA UsbMoves == [Next]_vars => U!Next \/ UNCHANGED usb_vars
BY DEF Next, vars, RfStep, AudioStep, UsbStep, UartStep, DmaStep, BusStep, BleStep, SampleStep,
       LogStep, ControlStep, others_rest

LEMMA DmaMoves == [Next]_vars => D!Next \/ UNCHANGED dma_vars
BY DEF Next, vars, RfStep, AudioStep, UsbStep, UartStep, DmaStep, BusStep, BleStep, SampleStep,
       LogStep, ControlStep, others_rest

LEMMA RfMoves == [Next]_vars => R!Next \/ UNCHANGED rf_vars
BY DEF Next, vars, RfStep, AudioStep, UsbStep, UartStep, DmaStep, BusStep, BleStep, SampleStep,
       LogStep, ControlStep, others_rest

LEMMA AudioMoves == [Next]_vars => A!Next \/ UNCHANGED audio_vars
BY DEF Next, vars, RfStep, AudioStep, UsbStep, UartStep, DmaStep, BusStep, BleStep, SampleStep,
       LogStep, ControlStep, others_rest

LEMMA UartMoves == [Next]_vars => T!Next \/ UNCHANGED uart_vars
BY DEF Next, vars, RfStep, AudioStep, UsbStep, UartStep, DmaStep, BusStep, BleStep, SampleStep,
       LogStep, ControlStep, others_rest

LEMMA BusMoves == [Next]_vars => B!Next \/ UNCHANGED bus_vars
BY DEF Next, vars, RfStep, AudioStep, UsbStep, UartStep, DmaStep, BusStep, BleStep, SampleStep,
       LogStep, ControlStep, others_rest

LEMMA SampleMoves == [Next]_vars => S!Next \/ UNCHANGED sample_vars
BY DEF Next, vars, RfStep, AudioStep, UsbStep, UartStep, DmaStep, BusStep, BleStep, SampleStep,
       LogStep, ControlStep, others_rest

LEMMA ControlMoves == [Next]_vars => C!Next \/ UNCHANGED control_vars
BY DEF Next, vars, RfStep, AudioStep, UsbStep, UartStep, DmaStep, BusStep, BleStep, SampleStep,
       LogStep, ControlStep, others_rest

-----------------------------------------------------------------------------
(* The connection table. *)

Used == {i \in H!Slots : table[i] # H!INVALID}
Held == {table[i] : i \in Used}
Events == [ev : {"connected", "disconnected"}, h : Handles]

\* The links as the stack saw them: w[k] is what they were when callback k of
\* those due was queued, so each callback takes the table from one to the next.
Queued(w) ==
    /\ w[1] = Held
    /\ w[Len(due) + 1] = links
    /\ \A k \in 1 .. Len(due) + 1 :
          w[k] \subseteq Handles /\ IsFiniteSet(w[k]) /\ Cardinality(w[k]) <= MAX_COUNT
    /\ \A k \in 1 .. Len(due) :
          IF due[k].ev = "connected"
          THEN due[k].h \notin w[k] /\ w[k + 1] = w[k] \cup {due[k].h}
          ELSE due[k].h \in w[k] /\ w[k + 1] = w[k] \ {due[k].h}

TableType ==
    /\ table \in [H!Slots -> Handles \cup {H!INVALID}]
    /\ count \in Nat /\ advertising \in BOOLEAN /\ due \in Seq(Events)
    /\ \A i, j \in Used : table[i] = table[j] => i = j
    /\ count = Cardinality(Used) /\ count = Cardinality(Held)
    /\ advertising \/ due # <<>> \/ count = MAX_COUNT

TableInv == TableType /\ \E w : Queued(w)

\* The cardinality that BleHost counts with is that of the theorems.
LEMMA SameCardinality == \A X : H!Cardinality(X) = Cardinality(X)
BY Zenon DEF H!Cardinality, Cardinality

LEMMA UsedFinite == /\ IsFiniteSet(H!Slots) /\ Cardinality(H!Slots) = MAX_COUNT
                    /\ IsFiniteSet(Used) /\ Cardinality(Used) <= MAX_COUNT
<1>1. IsFiniteSet(H!Slots) /\ Cardinality(H!Slots) = MAX_COUNT
  BY FS_Interval, BleAssumption DEF H!Slots
<1>2. Used \in SUBSET H!Slots
  BY DEF Used
<1> QED BY <1>1, <1>2, FS_Subset

\* The loops over the table stop at a slot of those they look for.
LEMMA FirstSlot ==
    ASSUME NEW h, H!slots_with(h) # {}
    PROVE  H!Min(H!slots_with(h)) \in H!slots_with(h)
<1>1. H!slots_with(h) \subseteq Nat
  BY BleAssumption DEF H!slots_with, H!Slots
<1> DEFINE found == H!slots_with(h)
<1> HIDE DEF found
<1>2. PICK x \in found : \A y \in found : ~(<<y, x>> \in OpToRel(<, Nat))
  BY <1>1, WFMin, NatLessThanWellFounded DEF found
<1>3. \A y \in found : x <= y
  <2> SUFFICES ASSUME NEW y \in found, y < x PROVE FALSE
    BY <1>1 DEF found
  <2>1. <<y, x>> \in OpToRel(<, Nat)
    BY <1>1 DEF found, OpToRel
  <2> QED BY <1>2, <2>1
<1>4. H!Min(found) \in found
  BY <1>3, Zenon DEF H!Min
<1> QED BY <1>4 DEF found

LEMMA TableInit == H!Init => TableInv
<1> SUFFICES ASSUME H!Init PROVE TableInv
  OBVIOUS
<1>1. Used = {} /\ Held = {}
  BY DEF H!Init, Used, Held
<1>2. TableType
  BY <1>1, FS_EmptySet DEF H!Init, TableType
<1>3. Queued([k \in {1} |-> {}])
  BY <1>1, FS_EmptySet, BleAssumption DEF H!Init, Queued
<1> QED BY <1>2, <1>3 DEF TableInv

\* A link that comes up or goes down is queued behind the others.
LEMMA LinksKeep ==
    ASSUME TableInv, NEW e \in Events, due' = Append(due, e), UNCHANGED <<table, count>>,
           links' \subseteq Handles, IsFiniteSet(links'), Cardinality(links') <= MAX_COUNT,
           IF e.ev = "connected" THEN e.h \notin links /\ links' = links \cup {e.h}
                                 ELSE e.h \in links /\ links' = links \ {e.h},
           advertising' \in BOOLEAN
    PROVE  TableInv'
<1>1. PICK w : Queued(w)
  BY DEF TableInv
<1>2. PICK n \in Nat : n = Len(due)
  BY DEF TableInv, TableType
<1>3. Held' = Held /\ Used' = Used
  BY DEF Used, Held
<1>4. /\ due' \in Seq(Events) /\ Len(due') = n + 1 /\ due' # <<>> /\ due'[n + 1] = e
      /\ \A k \in 1 .. n : due'[k] = due[k]
  BY <1>2 DEF TableInv, TableType
<1>5. TableType'
  BY <1>3, <1>4 DEF TableInv, TableType
<1>6. PICK v : (\A k \in 1 .. n + 1 : v[k] = w[k]) /\ v[n + 2] = links'
  <2> DEFINE u == [k \in 1 .. n + 2 |-> IF k <= n + 1 THEN w[k] ELSE links']
  <2>1. (\A k \in 1 .. n + 1 : u[k] = w[k]) /\ u[n + 2] = links'
    OBVIOUS
  <2> QED BY <2>1
<1>7. /\ \A k \in 1 .. n + 1 :
           w[k] \subseteq Handles /\ IsFiniteSet(w[k]) /\ Cardinality(w[k]) <= MAX_COUNT
      /\ w[1] = Held /\ w[n + 1] = links
      /\ \A k \in 1 .. n :
          IF due[k].ev = "connected"
          THEN due[k].h \notin w[k] /\ w[k + 1] = w[k] \cup {due[k].h}
          ELSE due[k].h \in w[k] /\ w[k + 1] = w[k] \ {due[k].h}
  BY <1>1, <1>2 DEF Queued
<1>8. v[1] = Held' /\ v[n + 1 + 1] = links'
  BY <1>3, <1>6, <1>7
<1>9. \A k \in 1 .. n + 1 + 1 :
         v[k] \subseteq Handles /\ IsFiniteSet(v[k]) /\ Cardinality(v[k]) <= MAX_COUNT
  BY <1>6, <1>7
<1>10. ASSUME NEW k \in 1 .. n + 1
       PROVE  IF due'[k].ev = "connected"
              THEN due'[k].h \notin v[k] /\ v[k + 1] = v[k] \cup {due'[k].h}
              ELSE due'[k].h \in v[k] /\ v[k + 1] = v[k] \ {due'[k].h}
  <2>1. CASE k \in 1 .. n
    <3>1. v[k] = w[k] /\ v[k + 1] = w[k + 1] /\ due'[k] = due[k]
      BY <1>4, <1>6, <2>1
    <3> QED BY <1>7, <2>1, <3>1
  <2>2. CASE k = n + 1
    <3>1. v[k] = links /\ v[k + 1] = links' /\ due'[k] = e
      BY <1>4, <1>6, <1>7, <2>2
    <3> QED BY <3>1, Zenon
  <2>3. k \in 1 .. n \/ k = n + 1
    OBVIOUS
  <2> QED BY <2>1, <2>2, <2>3
<1>11. Queued(v)'
  BY <1>4, <1>8, <1>9, <1>10 DEF Queued
<1> QED BY <1>5, <1>11 DEF TableInv

\* A callback that takes the table to the next of those links keeps the rest.
LEMMA CallbackKeeps ==
    ASSUME TableInv, due # <<>>, due' = Tail(due), UNCHANGED links,
           TableType', NEW w, Queued(w), Held' = w[2]
    PROVE  TableInv'
<1>1. PICK n \in Nat : n + 1 = Len(due) /\ due \in Seq(Events)
  <2>1. due \in Seq(Events) /\ Len(due) \in Nat /\ Len(due) # 0
    BY DEF TableInv, TableType
  <2>2. Len(due) - 1 \in Nat /\ Len(due) - 1 + 1 = Len(due)
    BY <2>1
  <2> QED BY <2>1, <2>2
<1>2. Len(due') = n /\ \A k \in 1 .. n : due'[k] = due[k + 1]
  BY <1>1
<1>3. PICK v : \A k \in 1 .. n + 1 : v[k] = w[k + 1]
  <2> DEFINE u == [k \in 1 .. n + 1 |-> w[k + 1]]
  <2>1. \A k \in 1 .. n + 1 : u[k] = w[k + 1]
    OBVIOUS
  <2> QED BY <2>1
<1>4. /\ \A k \in 1 .. n + 2 :
           w[k] \subseteq Handles /\ IsFiniteSet(w[k]) /\ Cardinality(w[k]) <= MAX_COUNT
      /\ w[n + 2] = links
      /\ \A k \in 1 .. n + 1 :
          IF due[k].ev = "connected"
          THEN due[k].h \notin w[k] /\ w[k + 1] = w[k] \cup {due[k].h}
          ELSE due[k].h \in w[k] /\ w[k + 1] = w[k] \ {due[k].h}
  BY <1>1 DEF Queued
<1>5. v[1] = Held' /\ v[n + 1] = links'
  BY <1>3, <1>4
<1>6. \A k \in 1 .. n + 1 :
         v[k] \subseteq Handles /\ IsFiniteSet(v[k]) /\ Cardinality(v[k]) <= MAX_COUNT
  BY <1>3, <1>4
<1>7. ASSUME NEW k \in 1 .. n
      PROVE  IF due'[k].ev = "connected"
             THEN due'[k].h \notin v[k] /\ v[k + 1] = v[k] \cup {due'[k].h}
             ELSE due'[k].h \in v[k] /\ v[k + 1] = v[k] \ {due'[k].h}
  <2>1. k + 1 \in 1 .. n + 1 /\ k \in 1 .. n + 1
    OBVIOUS
  <2>2. v[k] = w[k + 1] /\ v[k + 1] = w[k + 1 + 1] /\ due'[k] = due[k + 1]
    BY <1>2, <1>3, <2>1
  <2> QED BY <1>4, <2>1, <2>2
<1>8. Queued(v)'
  BY <1>2, <1>5, <1>6, <1>7 DEF Queued
<1> QED BY <1>8 DEF TableInv

LEMMA ConnectedKeeps == TableInv /\ H!app_connected_callback => TableInv'
<1> SUFFICES ASSUME TableInv, H!app_connected_callback PROVE TableInv'
  OBVIOUS
<1>1. PICK w : Queued(w)
  BY DEF TableInv
<1>2. PICK e \in Events : e = Head(due) /\ e = due[1] /\ e.ev = "connected" /\ 1 \in 1 .. Len(due)
  BY DEF TableInv, TableType, H!app_connected_callback
<1>3. /\ due # <<>> /\ due' = Tail(due) /\ due' \in Seq(Events) /\ UNCHANGED links
      /\ e.h \in Handles /\ e.h # H!INVALID
  BY <1>2, BleAssumption DEF TableInv, TableType, H!app_connected_callback, Events
<1>4. /\ e.h \notin Held /\ w[2] = Held \cup {e.h}
      /\ Cardinality(w[2]) <= MAX_COUNT /\ IsFiniteSet(w[1])
  <2>1. w[1] = Held /\ e.h \notin w[1] /\ w[1 + 1] = w[1] \cup {e.h}
    BY <1>1, <1>2 DEF Queued
  <2>2. 2 \in 1 .. Len(due) + 1 /\ 1 \in 1 .. Len(due) + 1
    BY <1>2 DEF TableInv, TableType
  <2>3. Cardinality(w[2]) <= MAX_COUNT /\ IsFiniteSet(w[1])
    BY <1>1, <2>2 DEF Queued
  <2> QED BY <2>1, <2>3
<1>5. IsFiniteSet(Held) /\ Cardinality(Held \cup {e.h}) = count + 1 /\ count + 1 <= MAX_COUNT
  <2>1. IsFiniteSet(Held) /\ Cardinality(Held) = count
    BY <1>1, <1>4 DEF Queued, TableInv, TableType
  <2>2. Cardinality(Held \cup {e.h}) = count + 1
    BY <1>4, <2>1, FS_AddElement
  <2> QED BY <1>4, <2>1, <2>2
<1>6. H!slots_with(H!INVALID) # {}
  <2> SUFFICES ASSUME H!slots_with(H!INVALID) = {} PROVE FALSE
    OBVIOUS
  <2>1. Used = H!Slots
    BY DEF Used, H!slots_with
  <2>2. Cardinality(Used) = count /\ count \in Nat
    BY DEF TableInv, TableType
  <2> QED BY <1>5, <2>1, <2>2, UsedFinite, BleAssumption
<1>7. PICK i \in H!Slots : table[i] = H!INVALID /\ table' = [table EXCEPT ![i] = e.h]
  <2>1. H!Min(H!slots_with(H!INVALID)) \in H!slots_with(H!INVALID)
    BY <1>6, FirstSlot
  <2>2. table' = [table EXCEPT ![H!Min(H!slots_with(H!INVALID))] = e.h]
    BY <1>2, <1>6 DEF H!app_connected_callback
  <2> QED BY <2>1, <2>2 DEF H!slots_with
<1>8. count' = count + 1 /\ advertising' = (advertising \/ count' < MAX_COUNT)
  BY <1>6 DEF H!app_connected_callback
<1>9. /\ table' \in [H!Slots -> Handles \cup {H!INVALID}]
      /\ table'[i] = e.h /\ \A j \in H!Slots \ {i} : table'[j] = table[j]
  BY <1>3, <1>7 DEF TableInv, TableType
<1>10. Used' = Used \cup {i} /\ i \notin Used
  BY <1>3, <1>7, <1>9 DEF Used
<1>11. Held' = Held \cup {e.h}
  BY <1>9, <1>10 DEF Held, Used
<1>12. \A j, k \in Used' : table'[j] = table'[k] => j = k
  <2>1. \A j \in Used : table[j] # e.h /\ table'[j] = table[j]
    BY <1>4, <1>9, <1>10 DEF Held, Used
  <2> QED BY <1>9, <1>10, <2>1 DEF TableInv, TableType
<1>13. Cardinality(Used') = count + 1
  <2>1. IsFiniteSet(Used) /\ Cardinality(Used) = count
    BY UsedFinite DEF TableInv, TableType
  <2>2. Cardinality(Used \cup {i}) = Cardinality(Used) + 1
    BY <1>10, <2>1, FS_AddElement
  <2> QED BY <1>10, <2>1, <2>2, Zenon
<1>14. count' \in Nat /\ advertising' \in BOOLEAN /\ (advertising' \/ count' = MAX_COUNT)
  <2>1. count \in Nat /\ advertising \in BOOLEAN
    BY DEF TableInv, TableType
  <2>2. count' \in Nat /\ (count' < MAX_COUNT \/ count' = MAX_COUNT)
    BY <1>5, <1>8, <2>1, BleAssumption
  <2> QED BY <1>8, <2>1, <2>2
<1>15. TableType'
  BY <1>3, <1>5, <1>8, <1>9, <1>11, <1>12, <1>13, <1>14 DEF TableType
<1> QED BY <1>1, <1>3, <1>4, <1>11, <1>15, CallbackKeeps

LEMMA DisconnectedKeeps == TableInv /\ H!app_disconnected_callback => TableInv'
<1> SUFFICES ASSUME TableInv, H!app_disconnected_callback PROVE TableInv'
  OBVIOUS
<1>1. PICK w : Queued(w)
  BY DEF TableInv
<1>2. PICK e \in Events : e = Head(due) /\ e = due[1] /\ e.ev = "disconnected" /\ 1 \in 1 .. Len(due)
  BY DEF TableInv, TableType, H!app_disconnected_callback
<1>3. /\ due # <<>> /\ due' = Tail(due) /\ due' \in Seq(Events) /\ UNCHANGED links
      /\ e.h \in Handles /\ e.h # H!INVALID
  BY <1>2, BleAssumption DEF TableInv, TableType, H!app_disconnected_callback, Events
<1>4. e.h \in Held /\ w[2] = Held \ {e.h} /\ IsFiniteSet(Held)
  <2>1. w[1] = Held /\ e.h \in w[1] /\ w[1 + 1] = w[1] \ {e.h}
    BY <1>1, <1>2 DEF Queued
  <2>2. 1 \in 1 .. Len(due) + 1
    BY <1>2 DEF TableInv, TableType
  <2> QED BY <1>1, <2>1, <2>2 DEF Queued
<1>5. H!slots_with(e.h) # {}
  BY <1>4 DEF Held, Used, H!slots_with
<1>6. PICK i \in H!Slots : table[i] = e.h /\ table' = [table EXCEPT ![i] = H!INVALID]
  <2>1. H!Min(H!slots_with(e.h)) \in H!slots_with(e.h)
    BY <1>5, FirstSlot
  <2>2. table' = [table EXCEPT ![H!Min(H!slots_with(e.h))] = H!INVALID]
    BY <1>2, <1>5 DEF H!app_disconnected_callback
  <2> QED BY <2>1, <2>2 DEF H!slots_with
<1>7. count' = count - 1 /\ advertising' = TRUE
  BY <1>2, <1>5 DEF H!app_disconnected_callback, H!advertises_again
<1>8. /\ table' \in [H!Slots -> Handles \cup {H!INVALID}]
      /\ table'[i] = H!INVALID /\ \A j \in H!Slots \ {i} : table'[j] = table[j]
  BY <1>6 DEF TableInv, TableType
<1>9. Used' = Used \ {i} /\ i \in Used
  BY <1>3, <1>6, <1>8 DEF Used
<1>10. Held' = Held \ {e.h}
  <2>1. \A j \in Used \ {i} : table[j] # e.h /\ table'[j] = table[j]
    BY <1>6, <1>8, <1>9 DEF TableInv, TableType, Used
  <2> QED BY <1>6, <1>9, <2>1 DEF Held
<1>11. \A j, k \in Used' : table'[j] = table'[k] => j = k
  BY <1>8, <1>9 DEF TableInv, TableType, Used
<1>12. Cardinality(Used') = count - 1 /\ Cardinality(Held') = count - 1
  <2>1. count = Cardinality(Used) /\ count = Cardinality(Held)
    BY DEF TableInv, TableType
  <2>2. Cardinality(Used \ {i}) = count - 1
    BY <1>9, <2>1, UsedFinite, FS_RemoveElement
  <2>3. Cardinality(Held \ {e.h}) = count - 1
    BY <1>4, <2>1, FS_RemoveElement
  <2> QED BY <1>9, <1>10, <2>2, <2>3
<1>13. count' \in Nat
  <2>1. IsFiniteSet(Used')
    BY <1>9, UsedFinite, FS_RemoveElement
  <2> QED BY <1>7, <1>12, <2>1, FS_CardinalityType
<1>14. TableType'
  BY <1>3, <1>7, <1>8, <1>11, <1>12, <1>13 DEF TableType
<1> QED BY <1>1, <1>3, <1>4, <1>10, <1>14, CallbackKeeps

LEMMA TableKeeps == TableInv /\ [Next]_vars => TableInv'
<1> SUFFICES ASSUME TableInv, [Next]_vars PROVE TableInv'
  OBVIOUS
<1>1. IsFiniteSet(links) /\ links \subseteq Handles /\ Cardinality(links) <= MAX_COUNT
  <2>1. PICK w : Queued(w)
    BY DEF TableInv
  <2>2. Len(due) + 1 \in 1 .. Len(due) + 1
    BY DEF TableInv, TableType
  <2> QED BY <2>1, <2>2 DEF Queued
<1>2. CASE H!LinkUp
  <2>1. PICK h \in Handles \ links :
           links' = links \cup {h} /\ due' = Append(due, [ev |-> "connected", h |-> h])
    BY <1>2 DEF H!LinkUp
  <2>2. PICK e \in Events : e = [ev |-> "connected", h |-> h]
    BY DEF Events
  <2>3. e.ev = "connected" /\ e.h = h /\ due' = Append(due, e)
    BY <2>1, <2>2
  <2>4. IsFiniteSet(links') /\ Cardinality(links') = Cardinality(links) + 1
    BY <1>1, <2>1, FS_AddElement
  <2>5. Cardinality(links') <= MAX_COUNT
    <3>1. Cardinality(links) \in Nat /\ Cardinality(links) < MAX_COUNT
      BY <1>1, <1>2, SameCardinality, FS_CardinalityType DEF H!LinkUp
    <3> QED BY <2>4, <3>1, BleAssumption
  <2>6. UNCHANGED <<table, count>> /\ advertising' \in BOOLEAN /\ links' \subseteq Handles
    BY <1>1, <1>2, <2>1 DEF H!LinkUp
  <2> QED BY <2>1, <2>3, <2>4, <2>5, <2>6, LinksKeep
<1>3. CASE H!LinkDown
  <2>1. PICK h \in links :
           links' = links \ {h} /\ due' = Append(due, [ev |-> "disconnected", h |-> h])
    BY <1>3 DEF H!LinkDown
  <2>2. PICK e \in Events : e = [ev |-> "disconnected", h |-> h]
    BY <1>1 DEF Events
  <2>3. e.ev # "connected" /\ e.h = h /\ due' = Append(due, e)
    BY <2>1, <2>2
  <2>4. IsFiniteSet(links') /\ Cardinality(links') = Cardinality(links) - 1
    BY <1>1, <2>1, FS_RemoveElement
  <2>5. Cardinality(links') <= MAX_COUNT
    BY <1>1, <2>4, FS_CardinalityType, BleAssumption
  <2>6. UNCHANGED <<table, count>> /\ advertising' \in BOOLEAN /\ links' \subseteq Handles
    BY <1>1, <1>3, <2>1 DEF H!LinkDown, TableInv, TableType
  <2> QED BY <2>1, <2>3, <2>4, <2>5, <2>6, LinksKeep
<1>4. CASE UNCHANGED ble_vars
  BY <1>4 DEF ble_vars, TableInv, TableType, Queued, Used, Held
<1> QED BY <1>2, <1>3, <1>4, BleMoves, ConnectedKeeps, DisconnectedKeeps DEF H!Next

(***************************************************************************)
(* For every size of the table, set of handles and number of callbacks     *)
(* that are due: app_connected_callback() always finds a free slot, and    *)
(* when the callbacks are through, the table holds exactly the links that  *)
(* are up, counted, and the device advertises unless the table is full.    *)
(***************************************************************************)
THEOREM ConnectionsExact == Spec => []TableExact
<1>1. Init => TableInv
  BY TableInit DEF Init
<1>2. TableInv => TableExact
  <2> SUFFICES ASSUME TableInv PROVE H!TableExact
    BY DEF TableExact
  <2>1. PICK w : Queued(w)
    BY DEF TableInv
  <2>2. count = Cardinality({i \in H!Slots : table[i] # H!INVALID})
    BY DEF TableInv, TableType, Used
  <2>3. ASSUME due = <<>>
        PROVE  /\ {table[i] : i \in H!Slots} \ {H!INVALID} = links
               /\ count = Cardinality(links)
               /\ advertising \/ count = MAX_COUNT
    <3>1. Held = links
      BY <2>1, <2>3 DEF Queued
    <3>2. {table[i] : i \in H!Slots} \ {H!INVALID} = Held
      BY DEF Held, Used
    <3> QED BY <2>3, <3>1, <3>2 DEF TableInv, TableType
  <2>4. ASSUME due # <<>>, Head(due).ev = "connected" PROVE H!slots_with(H!INVALID) # {}
    <3> SUFFICES ASSUME H!slots_with(H!INVALID) = {} PROVE FALSE
      OBVIOUS
    <3>1. Used = H!Slots
      BY DEF Used, H!slots_with
    <3>2. 1 \in 1 .. Len(due) /\ 2 \in 1 .. Len(due) + 1 /\ 1 \in 1 .. Len(due) + 1 /\ Head(due) = due[1]
      BY <2>4 DEF TableInv, TableType
    <3>3. due[1].h \notin w[1] /\ w[1 + 1] = w[1] \cup {due[1].h} /\ w[1] = Held
      BY <2>1, <2>4, <3>2 DEF Queued
    <3>4. IsFiniteSet(w[1]) /\ Cardinality(w[2]) <= MAX_COUNT
      BY <2>1, <3>2 DEF Queued
    <3>5. Cardinality(w[2]) = Cardinality(Held) + 1
      <4>1. w[2] = Held \cup {due[1].h} /\ due[1].h \notin Held /\ IsFiniteSet(Held)
        BY <3>3, <3>4
      <4> QED BY <4>1, FS_AddElement
    <3>6. Cardinality(Held) = MAX_COUNT
      BY <3>1, UsedFinite DEF TableInv, TableType
    <3> QED BY <3>4, <3>5, <3>6, BleAssumption
  <2> QED BY <2>2, <2>3, <2>4, SameCardinality, Zenon DEF H!TableExact
<1> QED BY <1>1, <1>2, TableKeeps, PTL DEF Spec

-----------------------------------------------------------------------------
(* The DMA program, with the interrupt and without PREVENT. *)

Waits == dbuild.interrupt /\ ~dbuild.prevent

\* The calls of a round.
Calls == {"fill", "start", "abort", "wait_abort", "dump_aborted", "wait_complete", "dump_copied"}
Round(i) ==
    CASE i \in {1, 6} -> "fill" [] i \in {2, 7} -> "start" [] i = 3 -> "abort" [] i = 4 -> "wait_abort"
      [] i = 5 -> "dump_aborted" [] i = 8 -> "wait_complete" [] i = 9 -> "dump_copied"

\* The plan is the end of a round, from place `at' on.
PlanFrom(at) ==
    /\ at \in 1 .. 9
    /\ plan \in Seq(Calls) /\ Len(plan) = 10 - at
    /\ \A i \in 1 .. 10 - at : plan[i] = Round(at - 1 + i)

\* A transfer runs only where it is to be aborted or waited for, and while it is
\* waited for the flag says whether it has ended.
TransferAt(at) ==
    /\ at \notin {3, 8} => xfer = 0
    /\ at # 8 => ~dma_complete
    /\ at \in {2, 7} => dst = 0
    /\ at = 8 => xfer <= TRANSFER_SIZE /\ dst = TRANSFER_SIZE - xfer /\ (dma_complete <=> xfer = 0)
    /\ at = 9 => dst = TRANSFER_SIZE

DmaInv ==
    /\ Waits \in BOOLEAN /\ dma_complete \in BOOLEAN /\ xfer \in Nat /\ dst \in Nat
    /\ Waits => \E at \in 1 .. 9 : PlanFrom(at) /\ TransferAt(at)

\* The first n calls of a round.
Begins(s, n) == s \in Seq(Calls) /\ Len(s) = n /\ \A i \in 1 .. n : s[i] = Round(i)

LEMMA OneMore ==
    ASSUME NEW n \in Nat, NEW s, Begins(s, n), NEW x \in Calls, x = Round(n + 1),
           NEW m, m = n + 1
    PROVE  Begins(s \o <<x>>, m)
<1>1. s \in Seq(Calls) /\ Len(s) = n /\ \A i \in 1 .. n : s[i] = Round(i)
  BY DEF Begins
<1>2. s \o <<x>> \in Seq(Calls) /\ Len(s \o <<x>>) = n + 1
  BY <1>1
<1>3. \A i \in 1 .. n + 1 : (s \o <<x>>)[i] = IF i <= n THEN s[i] ELSE x
  BY <1>1
<1>4. \A i \in 1 .. n + 1 : (s \o <<x>>)[i] = Round(i)
  BY <1>1, <1>3
<1> QED BY <1>2, <1>4 DEF Begins

LEMMA TwoMore ==
    ASSUME NEW n \in Nat, NEW s, Begins(s, n), NEW x \in Calls, x = Round(n + 1),
           NEW y \in Calls, y = Round(n + 2), NEW m, m = n + 2
    PROVE  Begins(s \o <<x, y>>, m)
<1>1. s \in Seq(Calls) /\ Len(s) = n /\ \A i \in 1 .. n : s[i] = Round(i)
  BY DEF Begins
<1>2. s \o <<x, y>> \in Seq(Calls) /\ Len(s \o <<x, y>>) = n + 2
  BY <1>1
<1>3. \A i \in 1 .. n + 2 : (s \o <<x, y>>)[i] = IF i <= n THEN s[i] ELSE IF i = n + 1 THEN x ELSE y
  BY <1>1
<1>4. \A i \in 1 .. n + 2 : (s \o <<x, y>>)[i] = Round(i)
  BY <1>1, <1>3
<1> QED BY <1>2, <1>4 DEF Begins

LEMMA RoundPlan ==
    ASSUME Waits
    PROVE  D!loop \in Seq(Calls) /\ Len(D!loop) = 9 /\ \A i \in 1 .. 9 : D!loop[i] = Round(i)
<1>1. D!loop = (<<>> \o <<"fill", "start", "abort">> \o <<"wait_abort">> \o <<"dump_aborted">>
                 \o <<"fill", "start">> \o <<"wait_complete">> \o <<"dump_copied">>)
  BY DEF Waits, D!loop, D!waited
<1>2. PICK a : a = <<>> \o <<"fill", "start", "abort">> /\ Begins(a, 3)
  <2>1. <<>> \o <<"fill", "start", "abort">> = <<"fill", "start", "abort">>
    OBVIOUS
  <2>2. /\ <<"fill", "start", "abort">>[1] = Round(1)
        /\ <<"fill", "start", "abort">>[2] = Round(2)
        /\ <<"fill", "start", "abort">>[3] = Round(3)
    BY DEF Round
  <2>3. Begins(<<"fill", "start", "abort">>, 3)
    <3>1. PICK t : t = <<"fill", "start", "abort">>
      OBVIOUS
    <3>2. t \in Seq(Calls) /\ Len(t) = 3
      BY <3>1 DEF Calls
    <3>3. t[1] = Round(1) /\ t[2] = Round(2) /\ t[3] = Round(3)
      BY <2>2, <3>1
    <3>4. \A i \in 1 .. 3 : i = 1 \/ i = 2 \/ i = 3
      OBVIOUS
    <3>5. \A i \in 1 .. 3 : t[i] = Round(i)
      BY <3>3, <3>4, Zenon
    <3>6. Begins(t, 3)
      BY <3>2, <3>5 DEF Begins
    <3> QED BY <3>1, <3>6
  <2> QED BY <2>1, <2>3
<1>3. PICK b : b = a \o <<"wait_abort">> /\ Begins(b, 4)
  <2>1. "wait_abort" \in Calls /\ "wait_abort" = Round(3 + 1)
    BY DEF Round, Calls
  <2>2. Begins(a \o <<"wait_abort">>, 4)
    BY <1>2, <2>1, 4 = 3 + 1, OneMore
  <2> QED BY <2>2
<1>4. PICK c : c = b \o <<"dump_aborted">> /\ Begins(c, 5)
  <2>1. "dump_aborted" \in Calls /\ "dump_aborted" = Round(4 + 1)
    BY DEF Round, Calls
  <2>2. Begins(b \o <<"dump_aborted">>, 5)
    BY <1>3, <2>1, 5 = 4 + 1, OneMore
  <2> QED BY <2>2
<1>5. PICK d : d = c \o <<"fill", "start">> /\ Begins(d, 7)
  <2>1. {"fill", "start"} \subseteq Calls /\ "fill" = Round(5 + 1) /\ "start" = Round(5 + 2)
    BY DEF Round, Calls
  <2>2. Begins(c \o <<"fill", "start">>, 7)
    BY <1>4, <2>1, 7 = 5 + 2, TwoMore
  <2> QED BY <2>2
<1>6. PICK e : e = d \o <<"wait_complete">> /\ Begins(e, 8)
  <2>1. "wait_complete" \in Calls /\ "wait_complete" = Round(7 + 1)
    BY DEF Round, Calls
  <2>2. Begins(d \o <<"wait_complete">>, 8)
    BY <1>5, <2>1, 8 = 7 + 1, OneMore
  <2> QED BY <2>2
<1>7. Begins(e \o <<"dump_copied">>, 9)
  <2>1. "dump_copied" \in Calls /\ "dump_copied" = Round(8 + 1)
    BY DEF Round, Calls
  <2>2. Begins(e \o <<"dump_copied">>, 9)
    BY <1>6, <2>1, 9 = 8 + 1, OneMore
  <2> QED BY <2>2
<1>8. D!loop = e \o <<"dump_copied">>
  BY <1>1, <1>2, <1>3, <1>4, <1>5, <1>6, Zenon
<1> QED BY <1>7, <1>8 DEF Begins

\* A call of main() takes the plan to its next place.
LEMMA PlanMoves ==
    ASSUME Waits, NEW at \in 1 .. 9, PlanFrom(at), plan' = D!rest_of(plan)
    PROVE  \/ at < 9 /\ PlanFrom(at + 1)'
           \/ at = 9 /\ PlanFrom(1)'
<1>1. CASE at = 9
  <2>1. Len(plan) = 1
    BY <1>1 DEF PlanFrom
  <2>2. plan' = D!loop
    BY <2>1 DEF D!rest_of
  <2> QED BY <1>1, <2>2, RoundPlan DEF PlanFrom
<1>2. CASE at < 9
  <2>1. Len(plan) # 1 /\ Len(plan) = 10 - at /\ plan \in Seq(Calls) /\ plan # <<>>
    BY <1>2 DEF PlanFrom
  <2>2. plan' = Tail(plan)
    BY <2>1 DEF D!rest_of
  <2>3. Len(plan') = 9 - at /\ plan' \in Seq(Calls)
    BY <2>1, <2>2
  <2>4. ASSUME NEW i \in 1 .. 9 - at PROVE plan'[i] = Round(at + i)
    <3>1. plan'[i] = plan[i + 1]
      BY <2>1, <2>2
    <3>2. i + 1 \in 1 .. 10 - at /\ at - 1 + (i + 1) = at + i
      OBVIOUS
    <3> QED BY <3>1, <3>2 DEF PlanFrom
  <2> QED BY <1>2, <2>3, <2>4 DEF PlanFrom
<1> QED BY <1>1, <1>2

LEMMA PlanHead ==
    ASSUME NEW at \in 1 .. 9, PlanFrom(at), NEW op, D!at_call(op)
    PROVE  Round(at) = op
<1>1. plan # <<>> /\ Head(plan) = plan[1] /\ op = Head(plan) /\ 1 \in 1 .. 10 - at
  BY DEF PlanFrom, D!at_call
<1>2. plan[1] = Round(at - 1 + 1)
  BY <1>1 DEF PlanFrom
<1> QED BY <1>1, <1>2

LEMMA DmaKeeps == DmaInv /\ [Next]_vars => DmaInv'
<1> SUFFICES ASSUME DmaInv, D!Next PROVE DmaInv'
  <2>1. CASE UNCHANGED dma_vars
    BY <2>1 DEF dma_vars, DmaInv, Waits, PlanFrom, TransferAt
  <2> QED BY <2>1, DmaMoves
<1>1. Waits' = Waits
  BY DEF D!Next, D!Main, D!Setup, D!Fill, D!Start, D!Abort, D!WaitAbort, D!WaitComplete, D!Dump,
         D!DmaByte, Waits
<1>2. dma_complete' \in BOOLEAN /\ xfer' \in Nat /\ dst' \in Nat
  <2>1. dma_complete' \in BOOLEAN
    BY Zenon DEF D!Next, D!Main, D!Setup, D!Fill, D!Start, D!Abort, D!WaitAbort, D!WaitComplete,
           D!Dump, D!DmaByte, D!after_wait, DmaInv
  <2>2. xfer' \in Nat /\ dst' \in Nat
    BY DmaAssumption DEF D!Next, D!Main, D!Setup, D!Fill, D!Start, D!Abort, D!WaitAbort,
           D!WaitComplete, D!Dump, D!DmaByte, DmaInv
  <2> QED BY <2>1, <2>2
<1>3. ASSUME Waits PROVE \E at \in 1 .. 9 : (PlanFrom(at) /\ TransferAt(at))'
  <2>1. PICK at \in 1 .. 9 : PlanFrom(at) /\ TransferAt(at)
    BY <1>3 DEF DmaInv
  <2>2. CASE D!Setup
    BY <2>1, <2>2 DEF D!Setup, PlanFrom, TransferAt
  <2>3. CASE D!Fill
    <3>1. at \in {1, 6}
      BY <2>1, <2>3, PlanHead DEF D!Fill, Round
    <3>2. PlanFrom(at + 1)'
      BY <1>3, <2>1, <2>3, <3>1, PlanMoves DEF D!Fill
    <3> QED BY <2>1, <2>3, <3>1, <3>2 DEF D!Fill, TransferAt
  <2>4. CASE D!Start
    <3>1. at \in {2, 7} /\ xfer' = TRANSFER_SIZE
      BY <2>1, <2>4, PlanHead DEF D!Start, Round
    <3>2. PlanFrom(at + 1)'
      BY <1>3, <2>1, <2>4, <3>1, PlanMoves DEF D!Start
    <3> QED BY <2>1, <2>4, <3>1, <3>2, DmaAssumption DEF D!Start, TransferAt
  <2>5. CASE D!Abort
    <3>1. at = 3
      BY <2>1, <2>5, PlanHead DEF D!Abort, Round
    <3>2. PlanFrom(at + 1)'
      BY <1>3, <2>1, <2>5, <3>1, PlanMoves DEF D!Abort
    <3> QED BY <2>1, <2>5, <3>1, <3>2 DEF D!Abort, TransferAt
  <2>6. CASE D!WaitAbort
    <3>1. at = 4
      BY <2>1, <2>6, PlanHead DEF D!WaitAbort, Round
    <3>2. PlanFrom(at + 1)'
      BY <1>3, <2>1, <2>6, <3>1, PlanMoves DEF D!WaitAbort
    <3> QED BY <2>1, <2>6, <3>1, <3>2 DEF D!WaitAbort, TransferAt
  <2>7. CASE D!WaitComplete
    <3>1. at = 8
      BY <2>1, <2>7, PlanHead DEF D!WaitComplete, Round
    <3>2. PlanFrom(at + 1)'
      BY <1>3, <2>1, <2>7, <3>1, PlanMoves DEF D!WaitComplete
    <3> QED BY <2>1, <2>7, <3>1, <3>2, DmaAssumption DEF D!WaitComplete, D!after_wait, TransferAt
  <2>8. CASE D!Dump
    <3>1. at \in {5, 9}
      BY <2>1, <2>8, PlanHead DEF D!Dump, Round
    <3>2. CASE at = 5
      <4>1. PlanFrom(at + 1)'
        BY <1>3, <2>1, <2>8, <3>2, PlanMoves DEF D!Dump
      <4> QED BY <2>1, <2>8, <3>2, <4>1 DEF D!Dump, TransferAt
    <3>3. CASE at = 9
      <4>1. PlanFrom(1)'
        BY <1>3, <2>1, <2>8, <3>3, PlanMoves DEF D!Dump
      <4> QED BY <2>1, <2>8, <3>3, <4>1 DEF D!Dump, TransferAt
    <3> QED BY <3>1, <3>2, <3>3
  <2>9. CASE D!DmaByte
    <3>1. PlanFrom(at)'
      BY <2>1, <2>9 DEF D!DmaByte, PlanFrom
    <3>2. at \in {3, 8} /\ xfer > 0 /\ xfer \in Nat /\ dst \in Nat
      BY <2>1, <2>9 DEF D!DmaByte, TransferAt, DmaInv
    <3>3. at = 3 => xfer # 1
      <4> SUFFICES ASSUME at = 3 PROVE D!at_call("abort")
        BY <2>9 DEF D!DmaByte
      <4>1. plan \in Seq(Calls) /\ Len(plan) = 7 /\ 1 \in 1 .. 7
        BY <2>1 DEF PlanFrom
      <4>2. plan[1] = Round(3 - 1 + 1)
        BY <2>1, <4>1 DEF PlanFrom
      <4>3. plan # <<>> /\ Head(plan) = plan[1]
        BY <4>1
      <4> QED BY <4>2, <4>3 DEF Round, D!at_call
    <3>4. CASE at = 3
      <4>1. ~dma_complete'
        <5>1. ~dma_complete /\ xfer # 1 /\ dma_complete' = (dma_complete \/ (xfer = 1 /\ dbuild.interrupt))
          BY <2>1, <2>9, <3>3, <3>4 DEF D!DmaByte, TransferAt
        <5> QED BY <5>1, Zenon
      <4>2. TransferAt(at)'
        BY <3>4, <4>1 DEF TransferAt
      <4> QED BY <3>1, <4>2
    <3>5. CASE at = 8
      <4>1. /\ xfer <= TRANSFER_SIZE /\ dst = TRANSFER_SIZE - xfer /\ xfer' = xfer - 1
            /\ dst' = IF dst < TRANSFER_SIZE THEN dst + 1 ELSE dst
        BY <2>1, <2>9, <3>5 DEF D!DmaByte, TransferAt
      <4>2. xfer' <= TRANSFER_SIZE /\ dst' = TRANSFER_SIZE - xfer' /\ (xfer' = 0 <=> xfer = 1)
        BY <3>2, <4>1, DmaAssumption
      <4>3. dma_complete' <=> xfer = 1
        <5>1. /\ ~dma_complete /\ dbuild.interrupt
              /\ dma_complete' = (dma_complete \/ (xfer = 1 /\ dbuild.interrupt))
          BY <1>3, <2>1, <2>9, <3>2, <3>5 DEF D!DmaByte, TransferAt, Waits
        <5> QED BY <5>1, Zenon
      <4>4. TransferAt(at)'
        BY <3>5, <4>2, <4>3 DEF TransferAt
      <4> QED BY <3>1, <4>4
    <3> QED BY <3>2, <3>4, <3>5
  <2> QED BY <2>2, <2>3, <2>4, <2>5, <2>6, <2>7, <2>8, <2>9 DEF D!Next, D!Main
<1> QED BY <1>1, <1>2, <1>3 DEF DmaInv

(***************************************************************************)
(* For every size of a transfer: with the interrupt and without PREVENT,   *)
(* main() of dma_demo dumps a whole transfer, and dumps nothing while the  *)
(* DMA still writes, in every round and wherever chn_handler comes.        *)
(***************************************************************************)
THEOREM DumpsWhole == Spec => []DumpsComplete
<1>1. Init => DmaInv
  <2> SUFFICES ASSUME D!Init PROVE DmaInv
    BY DEF Init
  <2>1. Waits \in BOOLEAN /\ dma_complete \in BOOLEAN /\ xfer \in Nat /\ dst \in Nat
    BY DEF D!Init, Waits
  <2>2. ASSUME Waits PROVE PlanFrom(1) /\ TransferAt(1)
    BY <2>2, RoundPlan DEF D!Init, PlanFrom, TransferAt
  <2> QED BY <2>1, <2>2 DEF DmaInv
<1>2. DmaInv => DumpsComplete
  <2> SUFFICES ASSUME DmaInv, Waits
               PROVE  /\ D!at_call("dump_copied") => dst = TRANSFER_SIZE
                      /\ D!at_call("dump_copied") \/ D!at_call("dump_aborted") => xfer = 0
    BY DEF DumpsComplete, D!DumpsComplete, Waits
  <2>1. PICK at \in 1 .. 9 : PlanFrom(at) /\ TransferAt(at)
    BY DEF DmaInv
  <2>2. D!at_call("dump_copied") => at = 9
    BY <2>1, PlanHead DEF Round
  <2>3. D!at_call("dump_aborted") => at = 5
    BY <2>1, PlanHead DEF Round
  <2> QED BY <2>1, <2>2, <2>3 DEF TransferAt
<1> QED BY <1>1, <1>2, DmaKeeps, PTL DEF Spec

-----------------------------------------------------------------------------
(* The radio program. *)

\* The byte that ping n carries, and its echoes.
ByteOf(n) == (n + UINT8 - 1) % UINT8

LEMMA BytesDiffer ==
    ASSUME NEW n \in 0 .. MaxPings, NEW m \in 0 .. MaxPings, ByteOf(n) = ByteOf(m)
    PROVE  n = m /\ ByteOf(n) \in 0 .. UINT8 - 1
<1>1. ASSUME NEW k \in 0 .. MaxPings PROVE ByteOf(k) = IF k = 0 THEN UINT8 - 1 ELSE k - 1
  <2>1. PICK u \in Nat : u = UINT8 /\ k < u
    BY <1>1, RfAssumption
  <2>2. k = 0 => (k + u - 1) % u = u - 1
    BY <2>1
  <2>3. k # 0 => (k + u - 1) % u = k - 1
    <3> SUFFICES ASSUME k # 0 PROVE (k + u - 1) % u = k - 1
      OBVIOUS
    <3>1. k - 1 \in 0 .. u - 1 /\ k + u - 1 = (k - 1) + u
      BY <2>1
    <3>2. ((k - 1) + u) % u = k - 1
      BY <3>1
    <3> QED BY <3>1, <3>2
  <2> QED BY <2>1, <2>2, <2>3 DEF ByteOf
<1> QED BY <1>1, RfAssumption

\* A packet carries the byte of the ping it answers, or a damaged one.
Packet(k) ==
    /\ k = [p |-> k.p, n |-> k.n]
    /\ k.n \in 0 .. pings
    /\ k.p = UINT8 \/ k.p = ByteOf(k.n)

RadioType ==
    [state : {"idle", "tx", "tx2rx", "rx", "rx2tx", "rx_last", "turn"}, tx_end : BOOLEAN,
     rx_end : BOOLEAN, rx_ok : BOOLEAN, rx_timeout_error : BOOLEAN, rx_packet : [p : Nat, n : Nat]]

RfInv ==
    /\ pings \in 0 .. MaxPings
    /\ sent_packets \in Nat /\ success_packets \in Nat /\ success_packets <= sent_packets
    /\ radio \in [{"transmitter", "receiver"} -> RadioType]
    /\ payload \in [{"transmitter", "receiver"} -> [p : Nat, n : Nat]]
    /\ payload["transmitter"] = [p |-> ByteOf(pings), n |-> pings]
    /\ Packet(payload["receiver"])
    /\ Packet(radio["transmitter"].rx_packet)
    /\ Packet(radio["receiver"].rx_packet)

\* The steps that put no new packet into a radio.
LEMMA PacketsKept ==
    ASSUME RfInv, radio' \in [{"transmitter", "receiver"} -> RadioType],
           \A n \in {"transmitter", "receiver"} : radio'[n].rx_packet = radio[n].rx_packet,
           UNCHANGED <<pings, payload>>,
           sent_packets' \in Nat, success_packets' \in Nat, success_packets' <= sent_packets'
    PROVE  RfInv'
BY DEF RfInv, Packet

\* What the driver's calls leave of a radio.
LEMMA RadioCalls ==
    ASSUME NEW r \in RadioType
    PROVE  /\ R!start_tx(r) \in RadioType /\ R!start_tx(r).rx_packet = r.rx_packet
           /\ R!start_rx(r) \in RadioType /\ R!start_rx(r).rx_packet = r.rx_packet
           /\ R!set_idle_state(r) \in RadioType /\ R!set_idle_state(r).rx_packet = r.rx_packet
<1>1. R!start_tx(r) \in RadioType /\ R!start_tx(r).rx_packet = r.rx_packet
  BY DEF R!start_tx, RadioType
<1>2. R!start_rx(r) \in RadioType /\ R!start_rx(r).rx_packet = r.rx_packet
  BY DEF R!start_rx, RadioType
<1>3. R!set_idle_state(r) \in RadioType /\ R!set_idle_state(r).rx_packet = r.rx_packet
  BY DEF R!set_idle_state, RadioType
<1> QED BY <1>1, <1>2, <1>3

LEMMA RadioSet ==
    ASSUME RfInv, NEW n \in {"transmitter", "receiver"}, NEW r \in RadioType,
           r.rx_packet = radio[n].rx_packet, radio' = [radio EXCEPT ![n] = r]
    PROVE  /\ radio' \in [{"transmitter", "receiver"} -> RadioType]
           /\ \A m \in {"transmitter", "receiver"} : radio'[m].rx_packet = radio[m].rx_packet
BY DEF RfInv

LEMMA RfKeeps == RfInv /\ [Next]_vars => RfInv'
<1> SUFFICES ASSUME RfInv, R!Next PROVE RfInv'
  <2>1. CASE UNCHANGED rf_vars
    BY <2>1 DEF rf_vars, RfInv, Packet
  <2> QED BY <2>1, RfMoves
<1> USE DEF R!T, R!R, R!Nodes
<1>1. CASE R!SendPing
  <2>1. pings' = pings + 1 /\ pings' \in 0 .. MaxPings
    BY <1>1, RfAssumption DEF R!SendPing, RfInv
  <2>2. R!next_byte(ByteOf(pings)) = ByteOf(pings')
    <3>1. PICK u \in Nat \ {0} : u = UINT8 /\ pings + 1 < u
      BY <2>1, RfAssumption
    <3>2. PICK k \in Nat : k = pings
      BY DEF RfInv
    <3>3. k = 0 => (k + u - 1) % u = u - 1
      BY <3>1
    <3>4. k # 0 => (k + u - 1) % u = k - 1
      <4>1. k # 0 => k - 1 \in 0 .. u - 1 /\ k + u - 1 = (k - 1) + u
        BY <3>1, <3>2
      <4>2. k # 0 => ((k - 1) + u) % u = k - 1
        BY <4>1
      <4> QED BY <4>1, <4>2
    <3>5. (u - 1 + 1) % u = 0 /\ (k # 0 => (k - 1 + 1) % u = k)
      BY <3>1, <3>2
    <3>6. (k + 1 + u - 1) % u = k
      <4>1. k \in 0 .. u - 1 /\ k + 1 + u - 1 = k + u
        BY <3>1, <3>2
      <4>2. (k + u) % u = k
        BY <4>1
      <4> QED BY <4>1, <4>2
    <3>7. (((k + u - 1) % u) + 1) % u = (k + 1 + u - 1) % u
      BY <3>3, <3>4, <3>5, <3>6
    <3> QED BY <2>1, <3>1, <3>2, <3>7, Zenon DEF R!next_byte, ByteOf
  <2>3. payload' = [payload EXCEPT !["transmitter"] = [p |-> R!next_byte(payload["transmitter"].p), n |-> pings']]
    BY <1>1 DEF R!SendPing, R!packet
  <2>4. payload["transmitter"].p = ByteOf(pings)
    BY DEF RfInv
  <2>5. ByteOf(pings') \in Nat
    BY <2>1, RfAssumption DEF ByteOf
  <2>6. payload' = [payload EXCEPT !["transmitter"] = [p |-> ByteOf(pings'), n |-> pings']]
    BY <2>2, <2>3, <2>4, Zenon
  <2>7. /\ payload' \in [{"transmitter", "receiver"} -> [p : Nat, n : Nat]]
        /\ payload'["transmitter"] = [p |-> ByteOf(pings'), n |-> pings']
        /\ payload'["receiver"] = payload["receiver"]
    BY <2>1, <2>5, <2>6 DEF RfInv
  <2>8. /\ radio' \in [{"transmitter", "receiver"} -> RadioType]
        /\ \A n \in {"transmitter", "receiver"} : radio'[n].rx_packet = radio[n].rx_packet
    <3>1. PICK r \in RadioType : /\ r = R!start_tx(radio["transmitter"])
                                 /\ r.rx_packet = radio["transmitter"].rx_packet
      BY RadioCalls DEF RfInv
    <3>2. radio' = [radio EXCEPT !["transmitter"] = r]
      BY <1>1, <3>1 DEF R!SendPing
    <3> QED BY <3>1, <3>2, RadioSet
  <2>9. ASSUME NEW k, Packet(k) PROVE Packet(k)'
    BY <2>1, <2>9 DEF Packet, RfInv
  <2>10. UNCHANGED <<sent_packets, success_packets>>
    BY <1>1 DEF R!SendPing
  <2>11. Packet(payload["receiver"])'
    BY <2>1, <2>7 DEF Packet, RfInv
  <2>12. Packet(radio["transmitter"].rx_packet)' /\ Packet(radio["receiver"].rx_packet)'
    BY <2>1, <2>8 DEF Packet, RfInv
  <2> QED BY <2>1, <2>7, <2>8, <2>10, <2>11, <2>12 DEF RfInv
<1>2. CASE R!PingSent \/ R!WaitPong \/ R!Listen \/ R!PingArrived \/ R!PongSent \/ R!TimePasses \/ R!RfRest
  <2>1. UNCHANGED <<pings, payload, sent_packets, success_packets>>
    BY <1>2 DEF R!PingSent, R!WaitPong, R!Listen, R!PingArrived, R!PongSent, R!TimePasses, R!RfRest, R!rvars
  <2>2. /\ radio' \in [{"transmitter", "receiver"} -> RadioType]
        /\ \A n \in {"transmitter", "receiver"} : radio'[n].rx_packet = radio[n].rx_packet
    <3>1. CASE R!PingSent
      <4>1. PICK r \in RadioType : /\ r = R!start_rx(R!set_idle_state(radio["transmitter"]))
                                   /\ r.rx_packet = radio["transmitter"].rx_packet
        BY RadioCalls DEF RfInv
      <4>2. UNCHANGED radio \/ radio' = [radio EXCEPT !["transmitter"] = r]
        BY <3>1, <4>1 DEF R!PingSent
      <4> QED BY <4>1, <4>2, RadioSet DEF RfInv
    <3>2. CASE R!WaitPong
      BY <3>2 DEF R!WaitPong, R!set_idle_state, RfInv, RadioType
    <3>3. CASE R!Listen
      BY <3>3 DEF R!Listen, R!start_rx, R!auto, RfInv, RadioType
    <3>4. CASE R!PingArrived
      <4>1. PICK r \in RadioType : /\ r = R!start_rx(radio["receiver"])
                                   /\ r.rx_packet = radio["receiver"].rx_packet
        BY RadioCalls DEF RfInv
      <4>2. PICK q \in RadioType : /\ q = R!set_idle_state(radio["receiver"])
                                   /\ q.rx_packet = radio["receiver"].rx_packet
        BY RadioCalls DEF RfInv
      <4>3. \/ UNCHANGED radio \/ radio' = [radio EXCEPT !["receiver"] = r]
            \/ radio' = [radio EXCEPT !["receiver"] = q]
        BY <3>4, <4>1, <4>2 DEF R!PingArrived
      <4> QED BY <4>1, <4>2, <4>3, RadioSet DEF RfInv
    <3>5. CASE R!PongSent
      BY <3>5 DEF R!PongSent, R!set_idle_state, RfInv, RadioType
    <3>6. CASE R!TimePasses \/ R!RfRest
      BY <3>6 DEF R!TimePasses, R!RfRest, R!rvars, RfInv
    <3> QED BY <1>2, <3>1, <3>2, <3>3, <3>4, <3>5, <3>6
  <2> QED BY <2>1, <2>2, PacketsKept DEF RfInv
<1>3. CASE R!on_pong_received
  <2>1. UNCHANGED <<pings, payload, radio>> /\ sent_packets' = sent_packets + 1
    BY <1>3 DEF R!on_pong_received
  <2>2. success_packets' = success_packets \/ success_packets' = success_packets + 1
    BY <1>3 DEF R!on_pong_received, RfInv
  <2>3. sent_packets' \in Nat /\ success_packets' \in Nat /\ success_packets' <= sent_packets'
    BY <2>1, <2>2 DEF RfInv
  <2> QED BY <2>1, <2>3, PacketsKept DEF RfInv
<1>4. CASE R!Copy
  <2>1. /\ UNCHANGED <<pings, sent_packets, success_packets>>
        /\ payload' = [payload EXCEPT !["receiver"] = radio["receiver"].rx_packet]
    BY <1>4 DEF R!Copy
  <2>2. /\ radio' \in [{"transmitter", "receiver"} -> RadioType]
        /\ \A n \in {"transmitter", "receiver"} : radio'[n].rx_packet = radio[n].rx_packet
    BY <1>4 DEF R!Copy, R!start_tx, R!auto, RfInv, RadioType
  <2>3. /\ payload' \in [{"transmitter", "receiver"} -> [p : Nat, n : Nat]]
        /\ payload'["transmitter"] = payload["transmitter"]
        /\ payload'["receiver"] = radio["receiver"].rx_packet
    BY <2>1 DEF RfInv, RadioType
  <2> QED BY <2>1, <2>2, <2>3 DEF RfInv, Packet
<1>5. ASSUME NEW n \in {"transmitter", "receiver"}, R!RadioSends(n) PROVE RfInv'
  <2>1. UNCHANGED <<pings, payload, sent_packets, success_packets>>
    BY <1>5 DEF R!RadioSends
  <2>2. PICK after \in RadioType :
           /\ after.rx_packet = radio[n].rx_packet
           /\ \/ radio' = [radio EXCEPT ![n] = after]
              \/ \E ok \in BOOLEAN, p \in {payload[n].p, R!BAD} :
                    radio' = [radio EXCEPT ![n] = after,
                                ![R!other(n)] = R!received(@, R!packet(p, payload[n].n), ok)]
    <3> DEFINE after == [radio[n] EXCEPT !.tx_end = TRUE,
                           !.state = IF @ = "tx2rx" THEN "rx_last" ELSE "idle"]
    <3>1. after \in RadioType /\ after.rx_packet = radio[n].rx_packet
      BY DEF RfInv, RadioType
    <3>2. \/ radio' = [radio EXCEPT ![n] = after]
          \/ \E ok \in BOOLEAN, p \in {payload[n].p, R!BAD} :
                    radio' = [radio EXCEPT ![n] = after,
                                ![R!other(n)] = R!received(@, R!packet(p, payload[n].n), ok)]
      BY <1>5, Zenon DEF R!RadioSends
    <3> HIDE DEF after
    <3> QED BY <3>1, <3>2
  <2>3. CASE radio' = [radio EXCEPT ![n] = after]
    <3>1. /\ radio' \in [{"transmitter", "receiver"} -> RadioType]
          /\ \A m \in {"transmitter", "receiver"} : radio'[m].rx_packet = radio[m].rx_packet
      BY <2>2, <2>3 DEF RfInv
    <3> QED BY <2>1, <3>1, PacketsKept DEF RfInv
  <2>4. ASSUME NEW ok \in BOOLEAN, NEW p \in {payload[n].p, R!BAD},
               radio' = [radio EXCEPT ![n] = after,
                           ![R!other(n)] = R!received(@, R!packet(p, payload[n].n), ok)]
        PROVE  RfInv'
    <3>1. PICK m \in {"transmitter", "receiver"} : m = R!other(n) /\ m # n
      BY DEF R!other
    <3>2. PICK k : k = R!packet(p, payload[n].n)
      OBVIOUS
    <3>3. k \in [p : Nat, n : Nat] /\ Packet(k)
      <4>1. k = [p |-> p, n |-> payload[n].n] /\ p \in Nat /\ payload[n].n \in Nat
        BY <3>2, RfAssumption DEF R!packet, R!BAD, RfInv
      <4>2. Packet(payload[n])
        BY DEF RfInv, Packet
      <4> QED BY <4>1, <4>2 DEF Packet, R!BAD
    <3>4. PICK r : r = R!received(radio[m], k, ok)
      OBVIOUS
    <3>5. r \in RadioType /\ r.rx_packet = k
      BY <3>3, <3>4 DEF R!received, RfInv, RadioType
    <3>6. radio' = [radio EXCEPT ![n] = after, ![m] = r]
      BY <2>4, <3>1, <3>2, <3>4 DEF RfInv
    <3>7. /\ radio' \in [{"transmitter", "receiver"} -> RadioType]
          /\ radio'[n].rx_packet = radio[n].rx_packet /\ radio'[m].rx_packet = k
      BY <2>2, <3>1, <3>5, <3>6 DEF RfInv
    <3>8. \A j \in {"transmitter", "receiver"} : j = n \/ j = m
      BY <3>1
    <3>9. Packet(radio[n].rx_packet) /\ Packet(radio[m].rx_packet)
      BY <3>1 DEF RfInv
    <3>10. Packet(radio'["transmitter"].rx_packet) /\ Packet(radio'["receiver"].rx_packet)
      BY <3>3, <3>7, <3>8, <3>9, Zenon
    <3> QED BY <2>1, <3>7, <3>10 DEF RfInv, Packet
  <2> QED BY <2>2, <2>3, <2>4
<1>6. ASSUME NEW n \in {"transmitter", "receiver"}, R!RadioTimeout(n) PROVE RfInv'
  <2>1. UNCHANGED <<pings, payload, sent_packets, success_packets>>
    BY <1>6 DEF R!RadioTimeout
  <2>2. /\ radio' \in [{"transmitter", "receiver"} -> RadioType]
        /\ \A m \in {"transmitter", "receiver"} : radio'[m].rx_packet = radio[m].rx_packet
    <3> DEFINE r == [radio[n] EXCEPT !.state = "idle", !.rx_end = TRUE, !.rx_ok = FALSE,
                                     !.rx_timeout_error = TRUE]
    <3>1. r \in RadioType /\ r.rx_packet = radio[n].rx_packet
      BY DEF RfInv, RadioType
    <3>2. radio' = [radio EXCEPT ![n] = r]
      BY <1>6 DEF R!RadioTimeout, RfInv
    <3> HIDE DEF r
    <3> QED BY <3>1, <3>2, RadioSet
  <2> QED BY <2>1, <2>2, PacketsKept DEF RfInv
<1> QED BY <1>1, <1>2, <1>3, <1>4, <1>5, <1>6 DEF R!Next, R!Transmitter, R!Receiver, R!Radios

(***************************************************************************)
(* For every range of the payload byte and any number of pings below it:   *)
(* a success that on_pong_received() counts is the answer to the ping it   *)
(* is counted for, in every exchange, with or without hopping, whatever    *)
(* the medium loses or damages and whatever the buffers still hold.        *)
(***************************************************************************)
THEOREM CountsOnlyEchoes == Spec => []SuccessIsEcho
<1>1. Init => RfInv
  <2> SUFFICES ASSUME R!Init PROVE RfInv
    BY DEF Init
  <2> USE DEF R!Nodes, R!T, R!R
  <2>1. ByteOf(0) = UINT8 - 1 /\ UINT8 - 1 \in Nat
    BY RfAssumption DEF ByteOf
  <2>2. /\ pings = 0 /\ sent_packets = 0 /\ success_packets = 0
        /\ payload = [n \in {"transmitter", "receiver"} |-> [p |-> UINT8 - 1, n |-> 0]]
        /\ radio = [n \in {"transmitter", "receiver"} |-> R!quiet]
    BY DEF R!Init, R!packet
  <2>3. R!quiet \in RadioType /\ R!quiet.rx_packet = [p |-> UINT8, n |-> 0]
    BY RfAssumption DEF R!quiet, R!packet, R!BAD, RadioType
  <2> QED BY <2>1, <2>2, <2>3, RfAssumption DEF RfInv, Packet
<1>2. RfInv => SuccessIsEcho
  <2> SUFFICES ASSUME RfInv, R!counts PROVE radio["transmitter"].rx_packet.n = pings
    BY DEF SuccessIsEcho, R!SuccessIsEcho, R!T, RfInv
  <2>1. PICK k : k = radio["transmitter"].rx_packet /\ Packet(k) /\ k.p = ByteOf(pings)
    BY DEF RfInv, R!counts, R!T
  <2>2. ByteOf(pings) \in 0 .. UINT8 - 1 /\ pings \in 0 .. MaxPings
    BY BytesDiffer DEF RfInv
  <2>3. k.n \in 0 .. MaxPings /\ ByteOf(k.n) = ByteOf(pings)
    BY <2>1, <2>2, RfAssumption DEF Packet
  <2> QED BY <2>1, <2>2, <2>3, BytesDiffer
<1> QED BY <1>1, <1>2, RfKeeps, PTL DEF Spec

-----------------------------------------------------------------------------
(* Printing over USB. *)

Bytes == Seq(Nat)
UsbType == [mounted : BOOLEAN, connected : BOOLEAN, tx : Bytes, rx : Bytes]
Printed == SubSeq(msg, 1, total_written)

Delivered == wire \o usb.tx = accepted \o Printed

UsbInv ==
    /\ usb \in UsbType /\ msg \in Bytes /\ accepted \in Bytes /\ wire \in Bytes
    /\ sent \in Nat /\ total_written \in 0 .. Len(msg)
    /\ upc = "idle" => total_written = 0
    /\ Delivered
    /\ Len(usb.tx) <= FIFO
    /\ desc.last < DESC_LEN /\ desc.len <= 2 * DESC_LEN

LEMMA NothingPrinted == ASSUME NEW s PROVE SubSeq(s, 1, 0) = <<>>
BY SubSeqEmpty

LEMMA PartOf ==
    ASSUME NEW s \in Bytes, NEW n \in 0 .. Len(s)
    PROVE  SubSeq(s, 1, n) \in Bytes /\ Len(SubSeq(s, 1, n)) = n
BY DEF Bytes

\* What is added behind the bytes in the FIFO is accepted behind the others.
LEMMA Regroup ==
    ASSUME NEW a \in Bytes, NEW b \in Bytes, NEW c \in Bytes
    PROVE  (a \o b) \o c = a \o (b \o c)
BY ConcatAssociative DEF Bytes

LEMMA Together ==
    ASSUME NEW a \in Bytes, NEW b \in Bytes
    PROVE  a \o b \in Bytes /\ Len(a \o b) = Len(a) + Len(b)
BY ConcatProperties DEF Bytes

LEMMA Smaller ==
    ASSUME NEW r \in Nat, NEW v \in Nat, NEW n, n = IF r < v THEN r ELSE v
    PROVE  n \in Nat /\ n <= r /\ n <= v
OBVIOUS

LEMMA UsbTypes ==
    ASSUME UsbInv
    PROVE  /\ usb.tx \in Bytes /\ usb.rx \in Bytes /\ Len(usb.tx) \in Nat /\ Len(usb.rx) \in Nat
           /\ Len(msg) \in Nat /\ total_written \in Nat /\ total_written <= Len(msg) /\ msg \in Bytes
           /\ wire \in Bytes /\ accepted \in Bytes /\ Len(usb.tx) <= FIFO
BY DEF UsbInv, UsbType, Bytes

LEMMA WriteKeeps == UsbInv /\ U!WriteChunk => UsbInv'
<1> SUFFICES ASSUME UsbInv, U!WriteChunk PROVE UsbInv'
  OBVIOUS
<1>1. UNCHANGED <<msg, accepted, wire, desc, sent>>
  BY DEF U!WriteChunk
<1>2. upc' # "idle"
  BY DEF U!WriteChunk
<1>3. CASE UNCHANGED <<usb, total_written>>
  BY <1>1, <1>2, <1>3 DEF UsbInv, Printed, Delivered
<1>4. CASE ~UNCHANGED <<usb, total_written>>
  <2>1. PICK len \in Nat, t \in Nat, f \in Nat : /\ len = Len(msg) /\ t = total_written /\ f = Len(usb.tx)
                                                 /\ t <= len /\ f <= FIFO
    BY UsbTypes
  <2>2. /\ U!rest \in Bytes /\ Len(U!rest) = len - t
        /\ \A i \in 1 .. len - t : U!rest[i] = msg[t + i]
    <3>1. SubSeq(msg, t + 1, len) = U!rest /\ msg \in Bytes
      BY <2>1, UsbTypes DEF U!rest
    <3>2. SubSeq(msg, t + 1, len) \in Bytes /\ Len(SubSeq(msg, t + 1, len)) = len - t
      BY <2>1, <3>1 DEF Bytes
    <3>3. \A i \in 1 .. len - t : SubSeq(msg, t + 1, len)[i] = msg[t + i]
      BY <2>1, <3>1 DEF Bytes
    <3> QED BY <3>1, <3>2, <3>3
  <2>3. PICK n \in Nat : /\ n = IF Len(U!rest) < U!avail THEN Len(U!rest) ELSE U!avail
                         /\ n <= len - t /\ f + n <= FIFO
    <3>1. PICK r : r = Len(U!rest)
      OBVIOUS
    <3>2. PICK v : v = U!avail
      OBVIOUS
    <3>3. r = len - t /\ r \in Nat
      BY <2>1, <2>2, <3>1
    <3>4. v = FIFO - f /\ v \in Nat
      <4>1. U!avail = FIFO - f
        BY <2>1 DEF U!avail
      <4> QED BY <2>1, <3>2, <4>1, UsbAssumption
    <3>5. PICK n : n = IF r < v THEN r ELSE v
      OBVIOUS
    <3>6. n \in Nat /\ n <= r /\ n <= v
      BY <3>3, <3>4, <3>5, Smaller
    <3>7. f + n <= FIFO
      BY ONLY <3>4, <3>6, <2>1, UsbAssumption
    <3>8. n = IF Len(U!rest) < U!avail THEN Len(U!rest) ELSE U!avail
      BY <3>1, <3>2, <3>5, Zenon
    <3>9. n <= len - t
      BY <3>3, <3>6, Zenon
    <3> QED BY <3>6, <3>7, <3>8, <3>9, Zenon
  <2>4. PICK piece \in Bytes : /\ piece = SubSeq(U!rest, 1, n) /\ Len(piece) = n
    <3>1. n \in 0 .. Len(U!rest)
      BY <2>1, <2>2, <2>3
    <3> QED BY <2>2, <3>1, PartOf
  <2>5. usb' = [usb EXCEPT !.tx = @ \o piece] /\ total_written' = t + n
    BY <1>4, <2>1, <2>3, <2>4 DEF U!WriteChunk
  <2>6. Printed \in Bytes /\ Len(Printed) = t
    BY <2>1, PartOf DEF UsbInv, Printed, Delivered
  <2>7. /\ wire \o (usb.tx \o piece) = accepted \o (Printed \o piece)
        /\ usb.tx \o piece \in Bytes /\ Len(usb.tx \o piece) = f + n
    <3>1. wire \in Bytes /\ usb.tx \in Bytes /\ accepted \in Bytes /\ Len(usb.tx) = f
      BY <2>1, UsbTypes
    <3>2. wire \o usb.tx = accepted \o Printed
      BY DEF UsbInv, Delivered
    <3> HIDE DEF Printed
    <3>3. Len(usb.tx \o piece) = Len(usb.tx) + Len(piece) /\ usb.tx \o piece \in Bytes
      BY <3>1, Together
    <3>4. (wire \o usb.tx) \o piece = wire \o (usb.tx \o piece)
      BY <3>1, Regroup
    <3>5. (accepted \o Printed) \o piece = accepted \o (Printed \o piece)
      BY <2>6, <3>1, Regroup
    <3> QED BY <2>4, <3>1, <3>2, <3>3, <3>4, <3>5, Zenon
  <2>8. SubSeq(msg, 1, t + n) = Printed \o piece
    <3>1. SubSeq(msg, 1, t + n) \in Bytes /\ Len(SubSeq(msg, 1, t + n)) = t + n
      BY <2>1, <2>3, PartOf DEF UsbInv
    <3>2. Printed \o piece \in Bytes /\ Len(Printed \o piece) = t + n
      BY <2>4, <2>6, ConcatProperties DEF Bytes
    <3>3. ASSUME NEW i \in 1 .. t + n PROVE SubSeq(msg, 1, t + n)[i] = (Printed \o piece)[i]
      <4>1. SubSeq(msg, 1, t + n)[i] = msg[i]
        BY <2>1, <2>3 DEF UsbInv, Bytes
      <4>2. (Printed \o piece)[i] = IF i <= t THEN Printed[i] ELSE piece[i - t]
        BY <2>4, <2>6, ConcatProperties DEF Bytes
      <4>3. CASE i <= t
        <5>1. Printed[i] = msg[i]
          BY <2>1, <4>3 DEF Printed, UsbInv, Bytes
        <5> QED BY <4>1, <4>2, <4>3, <5>1
      <4>4. CASE t < i
        <5>1. PICK j \in 1 .. n : j = i - t
          BY <2>1, <2>3, <4>4
        <5>2. piece[j] = U!rest[j]
          BY <2>2, <2>3, <2>4 DEF Bytes
        <5>3. U!rest[j] = msg[t + j] /\ t + j = i
          BY <2>1, <2>2, <2>3, <5>1
        <5> QED BY <2>1, <4>1, <4>2, <4>4, <5>1, <5>2, <5>3
      <4>5. i <= t \/ t < i
        BY <2>1, <2>3
      <4> QED BY <4>3, <4>4, <4>5
    <3> QED BY <3>1, <3>2, <3>3, SeqEqual DEF Bytes
  <2>9. /\ usb' \in UsbType /\ usb'.tx = usb.tx \o piece
    BY <2>5, <2>7 DEF UsbInv, UsbType
  <2>10. total_written' \in 0 .. Len(msg')
    BY <1>1, <2>1, <2>3, <2>5
  <2>11. Delivered'
    BY <1>1, <2>5, <2>7, <2>8, <2>9, Zenon DEF Printed, Delivered
  <2>12. Len(usb'.tx) <= FIFO
    BY <2>3, <2>7, <2>9
  <2> QED BY <1>1, <1>2, <2>9, <2>10, <2>11, <2>12 DEF UsbInv
<1> QED BY <1>3, <1>4

LEMMA EchoKeeps == UsbInv /\ U!EchoTask => UsbInv'
<1> SUFFICES ASSUME UsbInv, U!EchoTask PROVE UsbInv'
  OBVIOUS
<1>1. UNCHANGED <<upc, msg, total_written, wire, desc, sent>> /\ total_written = 0
  BY DEF U!EchoTask, UsbInv
<1>2. PICK r \in Nat, f \in Nat : r = Len(usb.rx) /\ f = Len(usb.tx) /\ f <= FIFO
  BY UsbTypes
<1>3. PICK n \in Nat : /\ n = IF Len(usb.rx) < U!avail THEN Len(usb.rx) ELSE U!avail
                       /\ n <= r /\ f + n <= FIFO
  BY <1>2, UsbAssumption DEF U!avail
<1>4. PICK piece \in Bytes : piece = SubSeq(usb.rx, 1, n) /\ Len(piece) = n
  <2>1. n \in 0 .. Len(usb.rx)
    BY <1>2, <1>3
  <2> QED BY <2>1, PartOf, UsbTypes
<1>5. usb' = [usb EXCEPT !.rx = <<>>, !.tx = @ \o piece] /\ accepted' = accepted \o piece
  BY <1>3, <1>4 DEF U!EchoTask
<1>6. Printed = <<>> /\ Printed' = <<>>
  BY <1>1, NothingPrinted DEF Printed
<1>7. <<>> \in Bytes /\ accepted \o <<>> = accepted /\ <<>> \o piece = piece
  BY ConcatEmptySeq DEF UsbInv, Bytes
<1>8. /\ wire \o (usb.tx \o piece) = accepted \o (<<>> \o piece)
      /\ usb.tx \o piece \in Bytes /\ Len(usb.tx \o piece) = f + n
  <2>1. wire \in Bytes /\ usb.tx \in Bytes /\ accepted \in Bytes /\ Len(usb.tx) = f
    BY <1>2, UsbTypes
  <2>2. wire \o usb.tx = accepted \o <<>>
    BY <1>6 DEF UsbInv, Delivered
  <2>3. Len(usb.tx \o piece) = Len(usb.tx) + Len(piece) /\ usb.tx \o piece \in Bytes
    BY <2>1, Together
  <2>4. (wire \o usb.tx) \o piece = wire \o (usb.tx \o piece)
    BY <2>1, Regroup
  <2>5. (accepted \o <<>>) \o piece = accepted \o (<<>> \o piece)
    BY <1>7, <2>1, Regroup
  <2> QED BY <1>4, <2>1, <2>2, <2>3, <2>4, <2>5, Zenon
<1>9. usb' \in UsbType /\ usb'.tx = usb.tx \o piece
  BY <1>5, <1>7, <1>8 DEF UsbInv, UsbType
<1>10. accepted' \in Bytes /\ accepted' \o <<>> = accepted'
  BY <1>4, <1>5, ConcatProperties, ConcatEmptySeq DEF UsbInv, Bytes
<1>11. Delivered'
  BY <1>1, <1>5, <1>6, <1>7, <1>8, <1>9, <1>10 DEF Delivered
<1>12. Len(usb'.tx) <= FIFO
  BY <1>3, <1>8, <1>9
<1> QED BY <1>1, <1>9, <1>10, <1>11, <1>12 DEF UsbInv

LEMMA HostReadsKeeps == UsbInv /\ U!HostReads => UsbInv'
<1> SUFFICES ASSUME UsbInv, U!HostReads PROVE UsbInv'
  OBVIOUS
<1>1. /\ UNCHANGED <<upc, msg, total_written, accepted, desc, sent>>
      /\ usb.tx # <<>> /\ wire' = Append(wire, Head(usb.tx)) /\ usb' = [usb EXCEPT !.tx = Tail(@)]
  BY DEF U!HostReads
<1>2. PICK t \in Bytes, w \in Bytes : t = usb.tx /\ w = wire
  BY DEF UsbInv, UsbType
<1>3. Head(t) \in Nat /\ Tail(t) \in Bytes /\ Len(Tail(t)) = Len(t) - 1
  BY <1>1, <1>2, HeadTailProperties DEF Bytes
<1>4. usb' \in UsbType /\ usb'.tx = Tail(t)
  BY <1>1, <1>2, <1>3 DEF UsbInv, UsbType
<1>5. Append(w, Head(t)) \in Bytes /\ Append(w, Head(t)) \o Tail(t) = w \o t
  <2>1. t = <<Head(t)>> \o Tail(t)
    <3>1. t # <<>> /\ <<Head(t)>> \in Bytes /\ Len(<<Head(t)>>) = 1 /\ <<Head(t)>>[1] = Head(t)
      BY <1>1, <1>2, <1>3 DEF Bytes
    <3>2. <<Head(t)>> \o Tail(t) \in Bytes /\ Len(<<Head(t)>> \o Tail(t)) = Len(t)
      BY <1>3, <3>1, ConcatProperties DEF Bytes
    <3>3. ASSUME NEW i \in 1 .. Len(t) PROVE t[i] = (<<Head(t)>> \o Tail(t))[i]
      <4>1. (<<Head(t)>> \o Tail(t))[i] = IF i <= 1 THEN <<Head(t)>>[i] ELSE Tail(t)[i - 1]
        BY <1>3, <3>1, ConcatProperties DEF Bytes
      <4>2. CASE i = 1
        BY <3>1, <4>1, <4>2 DEF Bytes
      <4>3. CASE i > 1
        BY <1>3, <3>1, <4>1, <4>3, HeadTailProperties DEF Bytes
      <4> QED BY <4>2, <4>3 DEF Bytes
    <3> QED BY <3>2, <3>3, SeqEqual DEF Bytes
  <2>2. Append(w, Head(t)) = w \o <<Head(t)>> /\ Append(w, Head(t)) \in Bytes
    BY <1>3, AppendIsConcat, AppendProperties DEF Bytes
  <2>3. (w \o <<Head(t)>>) \o Tail(t) = w \o (<<Head(t)>> \o Tail(t))
    BY <1>3, ConcatAssociative DEF Bytes
  <2> QED BY <2>1, <2>2, <2>3
<1>6. Len(usb'.tx) <= FIFO
  BY <1>2, <1>3, <1>4, UsbAssumption DEF UsbInv, Bytes
<1>7. wire' \in Bytes /\ Delivered'
  BY <1>1, <1>2, <1>4, <1>5, Zenon DEF UsbInv, Printed, Delivered
<1> QED BY <1>1, <1>4, <1>6, <1>7 DEF UsbInv

LEMMA PrintReturnKeeps == UsbInv /\ U!PrintReturn => UsbInv'
<1> SUFFICES ASSUME UsbInv, U!PrintReturn PROVE UsbInv'
  OBVIOUS
<1>1. /\ accepted' = accepted \o Printed /\ msg' = <<>> /\ total_written' = 0
      /\ UNCHANGED <<usb, wire, desc, sent>>
  BY DEF U!PrintReturn, Printed
<1>2. Printed \in Bytes
  BY PartOf DEF UsbInv, Printed, Delivered
<1>3. accepted \o Printed \in Bytes
  BY <1>2, ConcatProperties DEF UsbInv, Bytes
<1>4. Printed' = <<>> /\ accepted' \o <<>> = accepted'
  BY <1>1, <1>3, NothingPrinted, ConcatEmptySeq DEF Printed, Bytes
<1>5. msg' \in Bytes /\ total_written' \in 0 .. Len(msg')
  BY <1>1 DEF Bytes
<1>6. Delivered'
  BY <1>1, <1>4 DEF UsbInv, Delivered
<1> QED BY <1>1, <1>3, <1>5, <1>6 DEF UsbInv

LEMMA PrintCallKeeps == UsbInv /\ U!PrintBuffer => UsbInv'
<1> SUFFICES ASSUME UsbInv, U!PrintBuffer PROVE UsbInv'
  OBVIOUS
<1>1. PICK len \in 0 .. MaxBytes : msg' = [i \in 1 .. len |-> sent + i] /\ sent' = sent + len
  BY DEF U!PrintBuffer
<1>2. total_written = 0 /\ total_written' = 0 /\ UNCHANGED <<usb, accepted, wire, desc>>
  BY DEF U!PrintBuffer, UsbInv
<1>3. msg' \in Bytes /\ sent' \in Nat
  BY <1>1, UsbAssumption DEF UsbInv, Bytes
<1>4. Printed = <<>> /\ Printed' = <<>>
  BY <1>2, NothingPrinted DEF Printed
<1>5. total_written' \in 0 .. Len(msg')
  BY <1>2, <1>3 DEF Bytes
<1>6. Delivered'
  BY <1>2, <1>4 DEF UsbInv, Delivered
<1> QED BY <1>2, <1>3, <1>5, <1>6 DEF UsbInv

LEMMA UsbKeeps == UsbInv /\ [Next]_vars => UsbInv'
<1> SUFFICES ASSUME UsbInv, U!Next PROVE UsbInv'
  <2>1. CASE UNCHANGED usb_vars
    BY <2>1 DEF usb_vars, UsbInv, Printed, Delivered
  <2> QED BY <2>1, UsbMoves
<1>1. CASE U!GetString
  <2>1. UNCHANGED <<upc, usb, msg, total_written, accepted, wire, sent>>
    BY <1>1 DEF U!GetString
  <2>2. desc'.last < DESC_LEN /\ desc'.len <= 2 * DESC_LEN
    <3>1. PICK audio \in BOOLEAN, n \in 1 .. DESC_LEN + 1 :
            /\ audio \/ n # DESC_LEN
            /\ desc' = IF audio THEN U!answer(U!clamped(n))
                       ELSE IF U!refused(n) THEN U!NULL ELSE U!answer(n)
      BY <1>1 DEF U!GetString
    <3>2. \/ desc' = U!NULL
          \/ \E k \in 0 .. DESC_LEN - 1 : desc' = U!answer(k)
      BY <3>1, UsbAssumption DEF U!clamped, U!refused
    <3> QED BY <3>2, UsbAssumption DEF U!answer, U!NULL
  <2> QED BY <2>1, <2>2 DEF UsbInv, Printed, Delivered
<1>2. CASE U!Loop \/ U!Full
  BY <1>2 DEF U!Loop, U!Full, UsbInv, Printed, Delivered
<1>3. CASE U!HostWrites
  <2>1. /\ UNCHANGED <<upc, msg, total_written, accepted, wire, desc>> /\ sent' = sent + 1
        /\ usb' = [usb EXCEPT !.rx = Append(@, sent + 1)]
    BY <1>3 DEF U!HostWrites
  <2>2. usb' \in UsbType /\ usb'.tx = usb.tx /\ sent' \in Nat
    <3>1. sent + 1 \in Nat /\ sent' \in Nat
      BY <2>1 DEF UsbInv
    <3>2. PICK r \in Bytes : r = Append(usb.rx, sent + 1)
      BY <3>1, UsbTypes, AppendProperties DEF Bytes
    <3>3. usb' = [usb EXCEPT !.rx = r]
      BY <2>1, <3>2
    <3> QED BY <3>1, <3>3 DEF UsbInv, UsbType
  <2> QED BY <2>1, <2>2 DEF UsbInv, Printed, Delivered
<1>4. CASE U!HostMoves
  <2>1. UNCHANGED <<upc, msg, total_written, accepted, wire, desc, sent>>
    BY <1>4 DEF U!HostMoves
  <2>2. usb' \in UsbType /\ usb'.tx = usb.tx
    BY <1>4 DEF U!HostMoves, UsbInv, UsbType
  <2> QED BY <2>1, <2>2 DEF UsbInv, Printed, Delivered
<1> QED
  BY <1>1, <1>2, <1>3, <1>4, WriteKeeps, EchoKeeps, HostReadsKeeps, PrintReturnKeeps, PrintCallKeeps
  DEF U!Next, U!Logger

(***************************************************************************)
(* For every size of the FIFOs and the descriptor, any messages and any    *)
(* host: the bytes that the host gets are those that prints and echoes     *)
(* reported as accepted, in order (tlk_debug_log_usb_print_buffer(),       *)
(* cdc_task()), the FIFO is not overrun, and no string descriptor is       *)
(* longer than _desc_str.                                                  *)
(***************************************************************************)
THEOREM HostGetsWhatPrintsReport == Spec => []HostGetsAccepted
<1>1. Init => UsbInv
  <2> SUFFICES ASSUME U!Init PROVE UsbInv
    BY DEF Init
  <2>1. /\ upc = "idle" /\ msg = <<>> /\ total_written = 0 /\ accepted = <<>> /\ wire = <<>> /\ sent = 0
        /\ desc = U!NULL /\ usb = [mounted |-> FALSE, connected |-> FALSE, tx |-> <<>>, rx |-> <<>>]
    BY DEF U!Init
  <2>2. Printed = <<>>
    BY <2>1, NothingPrinted DEF Printed
  <2>3. <<>> \in Bytes /\ Len(<<>>) = 0
    BY DEF Bytes
  <2>4. desc.last < DESC_LEN /\ desc.len <= 2 * DESC_LEN
    BY <2>1, UsbAssumption DEF U!NULL
  <2>5. usb \in UsbType /\ usb.tx = <<>>
    BY <2>1, <2>3 DEF UsbType
  <2>6. Len(usb.tx) <= FIFO /\ total_written \in 0 .. Len(msg)
    BY <2>1, <2>3, <2>5, UsbAssumption
  <2>7. Delivered
    BY <2>1, <2>2, <2>5 DEF Delivered
  <2> QED BY <2>1, <2>2, <2>3, <2>4, <2>5, <2>6, <2>7 DEF UsbInv
<1>2. UsbInv => HostGetsAccepted
  BY DEF UsbInv, Printed, Delivered, HostGetsAccepted, U!HostGetsAccepted
<1> QED BY <1>1, <1>2, UsbKeeps, PTL DEF Spec

-----------------------------------------------------------------------------
(* Double-buffered audio. *)

Blocks == [of : Nat, n : Nat]

DmaType == [dir : {"off", "in", "out"}, buf : {0, 1}]

AudioType ==
    /\ prog \in {"demo", "mic", "spk"}
    /\ rx_index \in Nat /\ tx_index \in Nat /\ record \in Nat /\ made \in Nat
    /\ dma \in DmaType
    /\ buffer \in [0 .. 1 -> Blocks] /\ storage \in [A!Slots -> Blocks] /\ heard \in Seq(Blocks)

Playing == state \in {"playing", "stop_play"}

RecordKept == \A i \in A!Slots : i < rx_index => storage[i] = A!block(record, i)

HeardRecord ==
    \A i \in DOMAIN heard : i <= rx_index /\ i <= BUFFER_COUNT => heard[i] = A!block(record, i - 1)

\* Blocks of the record are still to be heard.
More == ~(tx_index = rx_index /\ state = "stop_play") /\ Len(heard) < rx_index

\* The buffer that plays holds the next of them.
NextLoaded ==
    /\ tx_index = Len(heard) + 1 /\ dma.buf = Len(heard) % 2
    /\ Len(heard) < BUFFER_COUNT => buffer[dma.buf] = A!block(record, Len(heard))

DemoInv ==
    /\ dma.dir = "in" => state \in {"recording", "stop_rec"} /\ dma.buf = rx_index % 2
    /\ dma.dir = "out" <=> Playing
    /\ RecordKept
    /\ Playing => HeardRecord /\ (More => NextLoaded)

MicInv ==
    /\ rx_index < COUNTER /\ dma.buf = rx_index % 2 /\ Len(heard) = made
    /\ \A i \in DOMAIN heard : heard[i] = A!block(1, i)

SpkInv ==
    /\ tx_index < COUNTER /\ dma.buf = tx_index % 2 /\ Len(heard) = made
    /\ \A i \in DOMAIN heard : heard[i] = IF i <= 2 THEN A!SILENCE ELSE A!block(1, i - 2)
    /\ buffer[dma.buf] = IF made <= 1 THEN A!SILENCE ELSE A!block(1, made - 1)
    /\ buffer[1 - dma.buf] = IF made = 0 THEN A!SILENCE ELSE A!block(1, made)

AudioInv ==
    /\ AudioType
    /\ prog = "demo" => DemoInv
    /\ prog = "mic" => MicInv
    /\ prog = "spk" => SpkInv

LEMMA Parity ==
    ASSUME NEW i \in Nat
    PROVE  i % 2 \in {0, 1} /\ (i + 1) % 2 = 1 - (i % 2)
OBVIOUS

\* The number of values of a counter is even, so its parity alternates
\* where it wraps too.
LEMMA CounterParity ==
    ASSUME NEW i \in Nat, i < COUNTER
    PROVE  /\ A!next_index(i) \in Nat /\ A!next_index(i) < COUNTER
           /\ A!next_index(i) % 2 = 1 - (i % 2)
<1>1. CASE i + 1 < COUNTER
  <2>1. A!next_index(i) = i + 1
    BY <1>1, AudioAssumption DEF A!next_index
  <2> QED BY <1>1, <2>1, Parity
<1>2. CASE i + 1 = COUNTER
  <2>1. A!next_index(i) = 0
    BY <1>2, AudioAssumption DEF A!next_index
  <2>2. 0 % 2 = 0 /\ i % 2 = 1
    BY <1>2, Parity, AudioAssumption
  <2> QED BY <2>1, <2>2, AudioAssumption
<1> QED BY <1>1, <1>2, AudioAssumption

\* A block added to what was heard.
LEMMA HeardNext ==
    ASSUME NEW s \in Seq(Blocks), NEW b \in Blocks
    PROVE  /\ Append(s, b) \in Seq(Blocks) /\ Len(Append(s, b)) = Len(s) + 1 /\ Len(s) \in Nat
           /\ Append(s, b)[Len(s) + 1] = b
           /\ \A i \in DOMAIN s : Append(s, b)[i] = s[i]
           /\ DOMAIN s = 1 .. Len(s) /\ DOMAIN Append(s, b) = 1 .. Len(s) + 1
BY AppendProperties

\* The DMA goes on to the other buffer.
LEMMA Turns ==
    ASSUME NEW d \in DmaType, NEW e, NEW i, d.buf = i, e = [d EXCEPT !.buf = 1 - d.buf]
    PROVE  e \in DmaType /\ e.dir = d.dir /\ e.buf = 1 - i
<1>1. PICK y : y = 1 - i
  OBVIOUS
<1>2. i \in {0, 1} /\ y \in {0, 1}
  BY <1>1 DEF DmaType
<1>3. e = [d EXCEPT !.buf = y]
  BY <1>1
<1>4. e \in DmaType /\ e.dir = d.dir /\ e.buf = y
  BY <1>2, <1>3 DEF DmaType
<1> QED BY <1>1, <1>4

LEMMA BlockType == \A r, i \in Nat : A!block(r, i) \in Blocks
BY DEF A!block, Blocks

LEMMA RxDoneKeeps == AudioInv /\ A!RxDone => AudioInv'
<1> SUFFICES ASSUME AudioInv, A!RxDone PROVE AudioInv'
  OBVIOUS
<1>1. /\ prog = "demo" /\ dma.dir = "in" /\ rx_index' = rx_index + 1
      /\ UNCHANGED <<prog, tx_index, heard, record, presses, made>>
      /\ dma' = [dma EXCEPT !.buf = 1 - dma.buf]
      /\ state' = IF rx_index' = BUFFER_COUNT THEN "stop_rec" ELSE state
  BY DEF A!RxDone, A!next_buf
<1>2. AudioType /\ DemoInv /\ state \in {"recording", "stop_rec"} /\ dma.buf = rx_index % 2
  BY <1>1 DEF AudioInv, DemoInv
<1>3. PICK b \in Blocks : b = A!block(record, rx_index)
  BY <1>2, BlockType DEF AudioType
<1>4. PICK f \in [0 .. 1 -> Blocks] : f = [buffer EXCEPT ![dma.buf] = b] /\ f[dma.buf] = b
  <2>1. dma.buf \in 0 .. 1
    BY <1>2 DEF AudioType, DmaType
  <2>2. [buffer EXCEPT ![dma.buf] = b] \in [0 .. 1 -> Blocks]
    BY <1>2, <2>1 DEF AudioType
  <2>3. [buffer EXCEPT ![dma.buf] = b][dma.buf] = b
    BY <1>2, <2>1 DEF AudioType
  <2> QED BY <2>2, <2>3
<1>5. /\ buffer' = f
      /\ storage' = IF rx_index \in A!Slots THEN [storage EXCEPT ![rx_index] = b] ELSE storage
  BY <1>2, <1>3, <1>4 DEF A!RxDone, A!saved_half
<1>6. rx_index' \in Nat /\ \A i \in Nat : i < rx_index' => i < rx_index \/ i = rx_index
  BY <1>1, <1>2 DEF AudioType
<1>7. dma' \in DmaType /\ dma'.dir = "in" /\ dma'.buf = rx_index' % 2
  <2>1. (rx_index + 1) % 2 = 1 - (rx_index % 2)
    BY <1>2, Parity DEF AudioType
  <2>2. dma' \in DmaType /\ dma'.dir = dma.dir /\ dma'.buf = 1 - (rx_index % 2)
    BY <1>1, <1>2, Turns DEF AudioType
  <2> QED BY <1>1, <2>1, <2>2
<1>8. storage' \in [A!Slots -> Blocks] /\ RecordKept'
  <2>1. storage' \in [A!Slots -> Blocks]
    BY <1>2, <1>5 DEF AudioType
  <2>2. ASSUME NEW i \in A!Slots, i < rx_index' PROVE storage'[i] = A!block(record, i)
    <3>1. i < rx_index \/ i = rx_index
      BY <1>6, <2>2, AudioAssumption DEF A!Slots
    <3>2. CASE i = rx_index
      BY <1>2, <1>3, <1>5, <3>2 DEF AudioType
    <3>3. CASE i < rx_index
      <4>1. storage[i] = A!block(record, i) /\ i # rx_index
        BY <1>2, <3>3, AudioAssumption DEF DemoInv, RecordKept, AudioType, A!Slots
      <4> QED BY <1>2, <1>5, <4>1 DEF AudioType
    <3> QED BY <3>1, <3>2, <3>3
  <2> QED BY <1>1, <2>1, <2>2 DEF RecordKept
<1>9. state' \in {"recording", "stop_rec"}
  BY <1>1, <1>2
<1> QED BY <1>1, <1>2, <1>5, <1>6, <1>7, <1>8, <1>9 DEF AudioInv, AudioType, DemoInv, Playing

LEMMA TxDoneKeeps == AudioInv /\ A!TxDone => AudioInv'
<1> SUFFICES ASSUME AudioInv, A!TxDone PROVE AudioInv'
  OBVIOUS
<1>1. /\ prog = "demo" /\ dma.dir = "out" /\ UNCHANGED <<prog, rx_index, storage, record, presses, made>>
      /\ dma' = [dma EXCEPT !.buf = 1 - dma.buf]
      /\ tx_index' = IF tx_index = rx_index THEN tx_index ELSE tx_index + 1
      /\ state' = IF tx_index = rx_index THEN "stop_play" ELSE state
      /\ heard' = IF tx_index = rx_index /\ state = "stop_play" THEN heard
                  ELSE Append(heard, buffer[dma.buf])
  BY DEF A!TxDone, A!next_buf, A!at_end, A!filled_index
<1>2. AudioType /\ DemoInv /\ Playing
  BY <1>1 DEF AudioInv, DemoInv
<1>3. Playing'
  BY <1>1, <1>2 DEF Playing
<1>4. dma' \in DmaType /\ dma'.dir = "out" /\ dma'.buf = 1 - dma.buf
  BY <1>1, <1>2, Turns DEF AudioType
<1>6. buffer' \in [0 .. 1 -> Blocks] /\ tx_index' \in Nat
  <2>1. tx_index' \in Nat
    BY <1>1, <1>2 DEF AudioType
  <2> QED BY <1>2, <2>1 DEF A!TxDone, A!filled_buffer, AudioType
<1>7. RecordKept' /\ DemoInv
  BY <1>1, <1>2 DEF DemoInv, RecordKept
<1>8. PICK b \in Blocks, h \in Nat, r \in Nat, t \in Nat :
        b = buffer[dma.buf] /\ h = Len(heard) /\ r = rx_index /\ t = tx_index
  <2>1. dma.buf \in 0 .. 1
    BY <1>2 DEF AudioType, DmaType
  <2> QED BY <1>2, <2>1 DEF AudioType
<1>9. CASE tx_index = rx_index /\ state = "stop_play"
  <2>1. heard' = heard /\ ~More' /\ HeardRecord'
    BY <1>1, <1>2, <1>9 DEF More, DemoInv, HeardRecord
  <2> QED BY <1>1, <1>2, <1>3, <1>4, <1>6, <1>7, <2>1 DEF AudioInv, AudioType, DemoInv
<1>10. CASE ~(tx_index = rx_index /\ state = "stop_play")
  <2>1. /\ heard' = Append(heard, b) /\ heard' \in Seq(Blocks) /\ Len(heard') = h + 1
        /\ heard'[h + 1] = b /\ \A i \in 1 .. h : heard'[i] = heard[i]
        /\ DOMAIN heard = 1 .. h /\ DOMAIN heard' = 1 .. h + 1
    BY <1>1, <1>2, <1>8, <1>10, HeardNext DEF AudioType
  <2>2. h < r => /\ t = h + 1 /\ dma.buf = h % 2
                 /\ h < BUFFER_COUNT => b = A!block(record, h)
    BY <1>2, <1>8, <1>10 DEF DemoInv, More, NextLoaded
  <2>3. HeardRecord'
    <3>1. ASSUME NEW i \in 1 .. h + 1, i <= r, i <= BUFFER_COUNT PROVE heard'[i] = A!block(record, i - 1)
      <4>1. CASE i \in 1 .. h
        BY <1>2, <1>8, <2>1, <3>1, <4>1 DEF DemoInv, HeardRecord
      <4>2. CASE i = h + 1
        <5>1. h < r /\ h < BUFFER_COUNT /\ i - 1 = h
          BY <3>1, <4>2, AudioAssumption
        <5> QED BY <2>1, <2>2, <4>2, <5>1
      <4>3. i \in 1 .. h \/ i = h + 1
        OBVIOUS
      <4> QED BY <4>1, <4>2, <4>3
    <3> QED BY <1>1, <1>8, <2>1, <3>1 DEF HeardRecord
  <2>4. ASSUME More' PROVE NextLoaded'
    <3>1. h + 1 < r /\ t = h + 1 /\ dma.buf = h % 2 /\ t # r
      BY <1>1, <1>8, <2>1, <2>2, <2>4 DEF More
    <3>2. tx_index' = t + 1 /\ Len(heard') = h + 1 /\ tx_index' = (h + 1) + 1
      BY <1>1, <1>8, <2>1, <3>1
    <3>3. dma'.buf = (h + 1) % 2
      BY <1>4, <3>1, Parity
    <3>4. ASSUME h + 1 < BUFFER_COUNT PROVE buffer'[dma'.buf] = A!block(record, h + 1)
      <4>1. t \in A!Slots /\ t < rx_index /\ t % 2 = (h + 1) % 2 /\ (h + 1) % 2 \in 0 .. 1
        BY <1>8, <3>1, <3>4, AudioAssumption, Parity DEF A!Slots
      <4>2. buffer' = [buffer EXCEPT ![t % 2] = storage[t]]
        BY <1>8, <3>1, <4>1 DEF A!TxDone, A!filled_buffer, A!at_end
      <4>3. storage[t] = A!block(record, t)
        BY <1>2, <4>1 DEF DemoInv, RecordKept
      <4> QED BY <1>2, <3>1, <3>3, <4>1, <4>2, <4>3 DEF AudioType
    <3> QED BY <1>1, <3>2, <3>3, <3>4 DEF NextLoaded
  <2> QED BY <1>1, <1>2, <1>3, <1>4, <1>6, <1>7, <2>1, <2>3, <2>4 DEF AudioInv, AudioType, DemoInv
<1> QED BY <1>9, <1>10

LEMMA MainKeeps == AudioInv /\ (A!KeyPress \/ A!Main) => AudioInv'
<1> SUFFICES ASSUME AudioInv, A!KeyPress \/ A!Main PROVE AudioInv'
  OBVIOUS
<1>0. prog = "demo" /\ UNCHANGED <<prog, made>> /\ AudioType /\ DemoInv
  BY DEF A!KeyPress, A!Main, A!StartRecording, A!StartPlaying, A!Stop, AudioInv
<1>1. CASE A!KeyPress
  <2>1. /\ UNCHANGED <<prog, rx_index, tx_index, dma, buffer, storage, heard, record, made>>
        /\ \/ state = "idle" /\ state' \in {"start_rec", "start_play"}
           \/ state = "recording" /\ state' = "stop_rec"
           \/ state = "playing" /\ state' = "stop_play"
    BY <1>1 DEF A!KeyPress
  <2>2. Playing' = Playing /\ (state \in {"recording", "stop_rec"} => state' \in {"recording", "stop_rec"})
    BY <2>1 DEF Playing
  <2>3. AudioType' /\ RecordKept' /\ (HeardRecord => HeardRecord') /\ (NextLoaded => NextLoaded')
    BY <1>0, <2>1 DEF AudioType, DemoInv, RecordKept, HeardRecord, NextLoaded
  <2>4. More' => More
    BY <2>1 DEF More
  <2> QED BY <1>0, <2>1, <2>2, <2>3, <2>4 DEF AudioInv, DemoInv
<1>2. CASE A!StartRecording
  <2>1. /\ rx_index' = 0 /\ storage' = [i \in A!Slots |-> A!SILENCE] /\ dma' = [dir |-> "in", buf |-> 0]
        /\ state' = "recording" /\ record' = record + 1 /\ UNCHANGED <<tx_index, buffer, heard>>
    BY <1>2 DEF A!StartRecording, A!first_index, A!ll_head
  <2>2. A!SILENCE \in Blocks
    BY DEF A!SILENCE, Blocks
  <2>3. AudioType'
    BY <1>0, <2>1, <2>2 DEF AudioType, DmaType
  <2>4. RecordKept'
    BY <2>1, AudioAssumption DEF RecordKept, A!Slots
  <2>5. 0 % 2 = 0
    OBVIOUS
  <2> QED BY <1>0, <2>1, <2>3, <2>4, <2>5 DEF AudioInv, DemoInv, Playing
<1>3. CASE A!StartPlaying
  <2>1. /\ tx_index' = (IF rx_index = 0 THEN 0 ELSE 1) /\ dma' = [dir |-> "out", buf |-> 0]
        /\ buffer' = (IF rx_index = 0 THEN buffer ELSE [buffer EXCEPT ![0] = storage[0]])
        /\ state' = "playing" /\ heard' = <<>> /\ UNCHANGED <<rx_index, storage, record>>
    BY <1>3 DEF A!StartPlaying, A!ll_head
  <2>2. 0 \in A!Slots /\ 0 \in 0 .. 1
    BY AudioAssumption DEF A!Slots
  <2>3. AudioType'
    BY <1>0, <2>1, <2>2 DEF AudioType, DmaType
  <2>4. RecordKept' /\ HeardRecord'
    BY <1>0, <2>1 DEF DemoInv, RecordKept, HeardRecord
  <2>5. More' => NextLoaded'
    <3>1. SUFFICES ASSUME 0 < rx_index PROVE NextLoaded'
      BY <2>1 DEF More
    <3>2. tx_index' = 0 + 1 /\ Len(heard') = 0 /\ dma'.buf = 0 /\ 0 % 2 = 0
      BY <2>1, <3>1
    <3>3. storage[0] = A!block(record, 0)
      BY <1>0, <2>2, <3>1 DEF DemoInv, RecordKept
    <3>4. buffer'[0] = storage[0]
      BY <1>0, <2>1, <2>2, <3>1 DEF AudioType
    <3> QED BY <2>1, <3>2, <3>3, <3>4 DEF NextLoaded
  <2> QED BY <1>0, <2>1, <2>3, <2>4, <2>5 DEF AudioInv, DemoInv, Playing
<1>4. CASE A!Stop
  <2>1. /\ dma' = [dir |-> "off", buf |-> 0] /\ state' = "idle"
        /\ UNCHANGED <<rx_index, tx_index, buffer, storage, heard, record>>
    BY <1>4 DEF A!Stop, A!off, A!ll_head
  <2>2. AudioType' /\ RecordKept'
    BY <1>0, <2>1 DEF AudioType, DmaType, DemoInv, RecordKept
  <2> QED BY <1>0, <2>1, <2>2 DEF AudioInv, DemoInv, Playing
<1> QED BY <1>1, <1>2, <1>3, <1>4 DEF A!Main

LEMMA MicKeeps == AudioInv /\ A!MicDone => AudioInv'
<1> SUFFICES ASSUME AudioInv, A!MicDone PROVE AudioInv'
  OBVIOUS
<1>1. /\ prog = "mic" /\ AudioType /\ MicInv
      /\ UNCHANGED <<prog, tx_index, storage, record>>
      /\ made' = made + 1 /\ dma' = [dma EXCEPT !.buf = 1 - dma.buf]
      /\ buffer' = [buffer EXCEPT ![dma.buf] = A!block(1, made + 1)]
      /\ heard' = Append(heard, buffer'[rx_index % 2]) /\ rx_index' = A!next_index(rx_index)
  BY DEF A!MicDone, A!next_buf, AudioInv
<1>2. PICK b \in Blocks, h \in Nat : b = A!block(1, h + 1) /\ h = made /\ h = Len(heard)
  <2>1. PICK h \in Nat : h = made /\ h = Len(heard)
    BY <1>1 DEF AudioType, MicInv
  <2>2. h + 1 \in Nat /\ 1 \in Nat
    OBVIOUS
  <2>3. A!block(1, h + 1) \in Blocks
    BY <2>2, BlockType
  <2> QED BY <2>1, <2>3
<1>3. rx_index' \in Nat /\ rx_index' < COUNTER /\ rx_index' % 2 = 1 - (rx_index % 2) /\ dma.buf = rx_index % 2
  BY <1>1, CounterParity DEF AudioType, MicInv
<1>4. dma' \in DmaType /\ dma'.buf = 1 - (rx_index % 2)
  <2>1. dma \in DmaType
    BY <1>1 DEF AudioType
  <2>2. dma' \in DmaType /\ dma'.buf = 1 - dma.buf
    BY <1>1, <2>1, Turns
  <2> QED BY <1>3, <2>2
<1>5. dma' \in DmaType /\ dma'.buf = rx_index' % 2
  BY <1>3, <1>4
<1>6. buffer' \in [0 .. 1 -> Blocks] /\ buffer'[rx_index % 2] = b
  BY <1>1, <1>2, <1>3 DEF AudioType
<1>7. /\ heard' \in Seq(Blocks) /\ Len(heard') = h + 1 /\ heard'[h + 1] = b
      /\ \A i \in 1 .. h : heard'[i] = heard[i]
      /\ DOMAIN heard = 1 .. h /\ DOMAIN heard' = 1 .. h + 1
  BY <1>1, <1>2, <1>6, HeardNext DEF AudioType
<1>8. ASSUME NEW i \in 1 .. h + 1 PROVE heard'[i] = A!block(1, i)
  <2>1. CASE i \in 1 .. h
    BY <1>1, <1>7, <2>1 DEF MicInv
  <2>2. CASE i = h + 1
    BY <1>2, <1>7, <2>2
  <2>3. i \in 1 .. h \/ i = h + 1
    OBVIOUS
  <2> QED BY <2>1, <2>2, <2>3
<1>9. made' \in Nat /\ Len(heard') = made'
  BY <1>1, <1>2, <1>7
<1> QED BY <1>1, <1>3, <1>5, <1>6, <1>7, <1>8, <1>9 DEF AudioInv, AudioType, MicInv

LEMMA SpkKeeps == AudioInv /\ A!SpkDone => AudioInv'
<1> SUFFICES ASSUME AudioInv, A!SpkDone PROVE AudioInv'
  OBVIOUS
<1>1. /\ prog = "spk" /\ AudioType /\ SpkInv
      /\ UNCHANGED <<prog, rx_index, storage, record>>
      /\ made' = made + 1 /\ dma' = [dma EXCEPT !.buf = 1 - dma.buf]
      /\ heard' = Append(heard, buffer[dma.buf]) /\ tx_index' = A!next_index(tx_index)
  BY DEF A!SpkDone, A!next_buf, AudioInv
<1>2. PICK b \in Blocks, c \in Blocks, h \in Nat :
        b = buffer[dma.buf] /\ c = A!block(1, h + 1) /\ h = made /\ h = Len(heard)
  <2>1. PICK h \in Nat : h = made /\ h = Len(heard)
    BY <1>1 DEF AudioType, SpkInv
  <2>2. h + 1 \in Nat /\ 1 \in Nat /\ dma.buf \in 0 .. 1
    BY <1>1 DEF AudioType, DmaType
  <2>3. A!block(1, h + 1) \in Blocks /\ buffer[dma.buf] \in Blocks
    BY <1>1, <2>2, BlockType DEF AudioType
  <2> QED BY <2>1, <2>3
<1>3. tx_index' \in Nat /\ tx_index' < COUNTER /\ tx_index' % 2 = 1 - (tx_index % 2) /\ dma.buf = tx_index % 2
  BY <1>1, CounterParity DEF AudioType, SpkInv
<1>4. PICK x \in {0, 1}, y \in {0, 1} : x = dma.buf /\ y = 1 - x /\ x = 1 - y /\ x # y
  BY <1>1 DEF AudioType, DmaType
<1>5. dma' \in DmaType /\ dma'.buf = y /\ y = tx_index' % 2
  <2>1. dma' \in DmaType /\ dma'.buf = 1 - x
    BY <1>1, <1>4, Turns DEF AudioType
  <2>2. tx_index' % 2 = 1 - x
    BY <1>3, <1>4
  <2> QED BY <1>4, <2>1, <2>2
<1>6. buffer' = [buffer EXCEPT ![x] = c]
  BY <1>1, <1>2, <1>3, <1>4 DEF A!SpkDone, A!next_buf
<1>7. buffer' \in [0 .. 1 -> Blocks] /\ buffer'[x] = c /\ buffer'[y] = buffer[y]
  BY <1>1, <1>4, <1>6 DEF AudioType
<1>8. /\ heard' \in Seq(Blocks) /\ Len(heard') = h + 1 /\ heard'[h + 1] = b
      /\ \A i \in 1 .. h : heard'[i] = heard[i]
      /\ DOMAIN heard = 1 .. h /\ DOMAIN heard' = 1 .. h + 1
  BY <1>1, <1>2, HeardNext DEF AudioType
<1>9. ASSUME NEW i \in 1 .. h + 1 PROVE heard'[i] = IF i <= 2 THEN A!SILENCE ELSE A!block(1, i - 2)
  <2>1. CASE i \in 1 .. h
    BY <1>1, <1>8, <2>1 DEF SpkInv
  <2>2. CASE i = h + 1
    <3>1. b = IF h <= 1 THEN A!SILENCE ELSE A!block(1, h - 1)
      BY <1>1, <1>2 DEF SpkInv
    <3>2. (h <= 1) = (i <= 2) /\ h - 1 = i - 2
      BY <2>2
    <3> QED BY <1>8, <2>2, <3>1, <3>2
  <2>3. i \in 1 .. h \/ i = h + 1
    OBVIOUS
  <2> QED BY <2>1, <2>2, <2>3
<1>10. made' = h + 1 /\ made' \in Nat /\ Len(heard') = made'
  BY <1>1, <1>2, <1>8
<1>11. buffer'[dma'.buf] = IF made' <= 1 THEN A!SILENCE ELSE A!block(1, made' - 1)
  <2>1. buffer[y] = IF h = 0 THEN A!SILENCE ELSE A!block(1, h)
    BY <1>1, <1>2, <1>4 DEF SpkInv
  <2>2. (made' <= 1) = (h = 0) /\ made' - 1 = h
    BY <1>10
  <2> QED BY <1>5, <1>7, <2>1, <2>2
<1>12. buffer'[1 - dma'.buf] = IF made' = 0 THEN A!SILENCE ELSE A!block(1, made')
  <2>1. 1 - dma'.buf = x /\ made' # 0
    BY <1>4, <1>5, <1>10
  <2> QED BY <1>2, <1>7, <1>10, <2>1
<1>13. SpkInv'
  BY <1>3, <1>5, <1>8, <1>9, <1>10, <1>11, <1>12 DEF SpkInv
<1> QED BY <1>1, <1>3, <1>5, <1>7, <1>8, <1>10, <1>13 DEF AudioInv, AudioType

LEMMA AudioKeeps == AudioInv /\ [Next]_vars => AudioInv'
<1> SUFFICES ASSUME AudioInv, A!Next PROVE AudioInv'
  <2>1. CASE UNCHANGED audio_vars
    BY <2>1 DEF audio_vars, AudioInv, AudioType, DemoInv, MicInv, SpkInv, Playing, RecordKept,
                HeardRecord, More, NextLoaded
  <2> QED BY <2>1, AudioMoves
<1>1. CASE A!SetItf
  <2>1. PICK d \in {"off", "in", "out"} : dma' = [dma EXCEPT !.dir = d]
    BY <1>1 DEF A!SetItf
  <2>2. dma' \in DmaType /\ dma'.buf = dma.buf
    BY <2>1 DEF AudioInv, AudioType, DmaType
  <2>3. prog # "demo" /\ UNCHANGED <<prog, rx_index, tx_index, buffer, storage, heard, record, made>>
    BY <1>1 DEF A!SetItf
  <2> QED BY <2>2, <2>3 DEF AudioInv, AudioType, MicInv, SpkInv
<1>2. CASE A!AudioRest
  BY <1>2 DEF A!AudioRest, A!avars, AudioInv, AudioType, DemoInv, MicInv, SpkInv, Playing, RecordKept,
              HeardRecord, More, NextLoaded
<1> QED BY <1>1, <1>2, RxDoneKeeps, TxDoneKeeps, MainKeeps, MicKeeps, SpkKeeps DEF A!Next

(***************************************************************************)
(* For every capacity of the record, every even range of the counters and  *)
(* any presses, starts and stops: a playback is the current record, block  *)
(* by block, and what the USB microphone and the USB speaker pass on is    *)
(* each block once, whole and in order (save_buffer(), fill_buffer(),      *)
(* send_buffer()).                                                         *)
(***************************************************************************)
THEOREM AudioInOrder == Spec => []StreamInOrder
<1>1. Init => AudioInv
  <2> SUFFICES ASSUME A!Init PROVE AudioInv
    BY DEF Init
  <2>1. /\ prog \in {"demo", "mic", "spk"} /\ state = "idle" /\ rx_index = 0 /\ tx_index = 0
        /\ dma = [dir |-> "off", buf |-> 0] /\ buffer = [b \in 0 .. 1 |-> A!SILENCE]
        /\ storage = [i \in A!Slots |-> A!SILENCE] /\ heard = <<>> /\ record = 0 /\ made = 0
    BY DEF A!Init, A!off, A!ll_head
  <2>2. AudioType
    BY <2>1 DEF AudioType, DmaType, A!SILENCE, Blocks
  <2>3. DemoInv
    BY <2>1, AudioAssumption DEF DemoInv, Playing, RecordKept, A!Slots
  <2>4. 0 % 2 = 0 /\ 0 < COUNTER /\ Len(heard) = 0 /\ DOMAIN heard = {}
    BY <2>1, AudioAssumption
  <2>5. MicInv
    BY <2>1, <2>4 DEF MicInv
  <2>6. SpkInv
    BY <2>1, <2>4 DEF SpkInv
  <2> QED BY <2>2, <2>3, <2>5, <2>6 DEF AudioInv
<1>2. AudioInv => StreamInOrder
  BY DEF AudioInv, DemoInv, MicInv, SpkInv, Playing, RecordKept, HeardRecord, StreamInOrder,
         A!StreamInOrder
<1> QED BY <1>1, <1>2, AudioKeeps, PTL DEF Spec

-----------------------------------------------------------------------------
(* Answers to what a UART receives. *)

\* What is left of a round of uart_demo: no reception is under way, one is
\* awaited, one has come, its echo was started.
Idle == {<<>>, <<"clear", "print", "listen">>, <<"print", "listen">>, <<"sent", "listen">>, <<"listen">>,
         <<"print", "print", "print">>, <<"sent", "print", "print">>, <<"print", "print">>,
         <<"sent", "print">>, <<"print">>, <<"sent">>}
Waiting == {<<"print", "await", "print", "print", "echo", "reset", "print", "print">>,
            <<"sent", "await", "print", "print", "echo", "reset", "print", "print">>,
            <<"await", "print", "print", "echo", "reset", "print", "print">>,
            <<"print", "await", "print", "echo", "print", "reset">>,
            <<"sent", "await", "print", "echo", "print", "reset">>,
            <<"await", "print", "echo", "print", "reset">>}
Come == {<<"print", "print", "echo", "reset", "print", "print">>,
         <<"sent", "print", "echo", "reset", "print", "print">>,
         <<"print", "echo", "reset", "print", "print">>, <<"sent", "echo", "reset", "print", "print">>,
         <<"echo", "reset", "print", "print">>,
         <<"print", "echo", "print", "reset">>, <<"sent", "echo", "print", "reset">>,
         <<"echo", "print", "reset">>}
Echoed == {<<"sent", "reset", "print", "print">>, <<"reset", "print", "print">>,
           <<"sent", "print", "reset">>, <<"print", "reset">>, <<"sent", "reset">>, <<"reset">>}
\* The same for hci: a command may come, one was handled.
Open == {<<>>, <<"listen">>, <<"test">>}
Handled == {<<"print", "reset">>, <<"sent", "reset">>, <<"reset">>}

Clean(s) == s = <<>> \/ Head(s) # "sent"
SentAt(s) == [s EXCEPT ![1] = "sent"]

LEMMA InIdle ==
    ASSUME NEW s \in Idle, s # <<>>
    PROVE  /\ Head(s) \in {"clear", "print", "sent", "listen"}
           /\ Head(s) \in {"clear", "sent"} => Tail(s) \in Idle /\ Clean(Tail(s))
           /\ Head(s) = "print" => SentAt(s) \in Idle /\ SentAt(s) # <<>> /\ Head(SentAt(s)) = "sent"
<1>1. CASE s = <<"clear", "print", "listen">>
  BY <1>1 DEF Idle, Clean, SentAt
<1>2. CASE s = <<"print", "listen">>
  BY <1>2 DEF Idle, Clean, SentAt
<1>3. CASE s = <<"sent", "listen">>
  BY <1>3 DEF Idle, Clean, SentAt
<1>4. CASE s = <<"listen">>
  BY <1>4 DEF Idle, Clean, SentAt
<1>5. CASE s = <<"print", "print", "print">>
  BY <1>5 DEF Idle, Clean, SentAt
<1>6. CASE s = <<"sent", "print", "print">>
  BY <1>6 DEF Idle, Clean, SentAt
<1>7. CASE s = <<"print", "print">>
  BY <1>7 DEF Idle, Clean, SentAt
<1>8. CASE s = <<"sent", "print">>
  BY <1>8 DEF Idle, Clean, SentAt
<1>9. CASE s = <<"print">>
  BY <1>9 DEF Idle, Clean, SentAt
<1>10. CASE s = <<"sent">>
  BY <1>10 DEF Idle, Clean, SentAt
<1> QED BY <1>1, <1>2, <1>3, <1>4, <1>5, <1>6, <1>7, <1>8, <1>9, <1>10 DEF Idle

LEMMA InWaiting ==
    ASSUME NEW s \in Waiting
    PROVE  /\ s # <<>> /\ Head(s) \in {"print", "sent", "await"}
           /\ Head(s) = "await" => Tail(s) \in Come /\ Clean(Tail(s))
           /\ Head(s) = "sent" => Tail(s) \in Waiting /\ Clean(Tail(s))
           /\ Head(s) = "print" => SentAt(s) \in Waiting /\ SentAt(s) # <<>> /\ Head(SentAt(s)) = "sent"
<1>1. CASE s = <<"print", "await", "print", "print", "echo", "reset", "print", "print">>
  BY <1>1 DEF Waiting, Come, Clean, SentAt
<1>2. CASE s = <<"sent", "await", "print", "print", "echo", "reset", "print", "print">>
  BY <1>2 DEF Waiting, Come, Clean, SentAt
<1>3. CASE s = <<"await", "print", "print", "echo", "reset", "print", "print">>
  BY <1>3 DEF Waiting, Come, Clean, SentAt
<1>4. CASE s = <<"print", "await", "print", "echo", "print", "reset">>
  BY <1>4 DEF Waiting, Come, Clean, SentAt
<1>5. CASE s = <<"sent", "await", "print", "echo", "print", "reset">>
  BY <1>5 DEF Waiting, Come, Clean, SentAt
<1>6. CASE s = <<"await", "print", "echo", "print", "reset">>
  BY <1>6 DEF Waiting, Come, Clean, SentAt
<1> QED BY <1>1, <1>2, <1>3, <1>4, <1>5, <1>6 DEF Waiting

LEMMA InCome ==
    ASSUME NEW s \in Come
    PROVE  /\ s # <<>> /\ Head(s) \in {"print", "sent", "echo"}
           /\ Head(s) = "sent" => Tail(s) \in Come /\ Clean(Tail(s))
           /\ Head(s) = "print" => SentAt(s) \in Come /\ SentAt(s) # <<>> /\ Head(SentAt(s)) = "sent"
           /\ Head(s) = "echo" => SentAt(s) \in Echoed /\ SentAt(s) # <<>> /\ Head(SentAt(s)) = "sent"
<1>1. CASE s = <<"print", "print", "echo", "reset", "print", "print">>
  BY <1>1 DEF Come, Echoed, Clean, SentAt
<1>2. CASE s = <<"sent", "print", "echo", "reset", "print", "print">>
  BY <1>2 DEF Come, Echoed, Clean, SentAt
<1>3. CASE s = <<"print", "echo", "reset", "print", "print">>
  BY <1>3 DEF Come, Echoed, Clean, SentAt
<1>4. CASE s = <<"sent", "echo", "reset", "print", "print">>
  BY <1>4 DEF Come, Echoed, Clean, SentAt
<1>5. CASE s = <<"echo", "reset", "print", "print">>
  BY <1>5 DEF Come, Echoed, Clean, SentAt
<1>6. CASE s = <<"print", "echo", "print", "reset">>
  BY <1>6 DEF Come, Echoed, Clean, SentAt
<1>7. CASE s = <<"sent", "echo", "print", "reset">>
  BY <1>7 DEF Come, Echoed, Clean, SentAt
<1>8. CASE s = <<"echo", "print", "reset">>
  BY <1>8 DEF Come, Echoed, Clean, SentAt
<1> QED BY <1>1, <1>2, <1>3, <1>4, <1>5, <1>6, <1>7, <1>8 DEF Come

LEMMA InEchoed ==
    ASSUME NEW s \in Echoed
    PROVE  /\ s # <<>> /\ Head(s) \in {"print", "sent", "reset"}
           /\ Head(s) = "sent" => Tail(s) \in Echoed /\ Clean(Tail(s))
           /\ Head(s) = "print" => SentAt(s) \in Echoed /\ SentAt(s) # <<>> /\ Head(SentAt(s)) = "sent"
           /\ Head(s) = "reset" => Tail(s) \in Idle /\ Clean(Tail(s))
<1>1. CASE s = <<"sent", "reset", "print", "print">>
  BY <1>1 DEF Idle, Echoed, Clean, SentAt
<1>2. CASE s = <<"reset", "print", "print">>
  BY <1>2 DEF Idle, Echoed, Clean, SentAt
<1>3. CASE s = <<"sent", "print", "reset">>
  BY <1>3 DEF Idle, Echoed, Clean, SentAt
<1>4. CASE s = <<"print", "reset">>
  BY <1>4 DEF Idle, Echoed, Clean, SentAt
<1>5. CASE s = <<"sent", "reset">>
  BY <1>5 DEF Idle, Echoed, Clean, SentAt
<1>6. CASE s = <<"reset">>
  BY <1>6 DEF Idle, Echoed, Clean, SentAt
<1> QED BY <1>1, <1>2, <1>3, <1>4, <1>5, <1>6 DEF Echoed

LEMMA InOpen ==
    ASSUME NEW s \in Open, s # <<>>
    PROVE  Head(s) \in {"listen", "test"}
BY DEF Open

LEMMA InHandled ==
    ASSUME NEW s \in Handled
    PROVE  /\ s # <<>> /\ Head(s) \in {"print", "sent", "reset"} /\ s \notin Open
           /\ Head(s) = "sent" => Tail(s) \in Handled /\ Clean(Tail(s))
           /\ Head(s) = "print" => SentAt(s) \in Handled /\ SentAt(s) # <<>> /\ Head(SentAt(s)) = "sent"
           /\ Head(s) = "reset" => Tail(s) \in Open /\ Clean(Tail(s))
<1>1. CASE s = <<"print", "reset">>
  BY <1>1 DEF Handled, Open, Clean, SentAt
<1>2. CASE s = <<"sent", "reset">>
  BY <1>2 DEF Handled, Open, Clean, SentAt
<1>3. CASE s = <<"reset">>
  BY <1>3 DEF Handled, Open, Clean, SentAt
<1> QED BY <1>1, <1>2, <1>3 DEF Handled

UartType ==
    /\ uprog \in {"c", "cpp", "hci"} /\ tx \in {"none", "text", "data"}
    /\ tx_done \in BOOLEAN /\ rx_done \in BOOLEAN /\ rx_count \in Nat
    /\ rx \in [on : BOOLEAN, n : Nat] /\ rx.n <= RX_SIZE
    /\ data \in [1 .. RX_SIZE -> Nat] /\ receptions \in Seq(Nat) /\ answered \in Seq(Seq(Nat))

\* A transmission is polled for while it runs, and its flag is cleared.
Polled == IF T!at_op("sent") THEN tx_done = (tx = "none") ELSE tx = "none" /\ tx_done = FALSE

Answers == \A k \in DOMAIN answered : answered[k] = [i \in 1 .. receptions[k] |-> k]

\* All receptions are answered; the buffer holds the bytes of the next so far.
AllAnswered ==
    /\ Len(answered) = Len(receptions)
    /\ \A i \in 1 .. rx.n : data[i] = Len(receptions) + 1
NothingCounted == rx_count = 0 /\ rx_done = FALSE

\* The last one is not, and the buffer holds it.
OnePending ==
    /\ Len(receptions) = Len(answered) + 1 /\ rx.n = 0
    /\ rx_count = receptions[Len(receptions)] /\ rx_count <= RX_SIZE
    /\ \A i \in 1 .. rx_count : data[i] = Len(receptions)

IdleOk == script \in Idle /\ tx # "data" /\ ~rx.on /\ NothingCounted /\ AllAnswered
WaitingOk ==
    script \in Waiting /\ tx # "data" /\ ((NothingCounted /\ AllAnswered) \/ (~rx.on /\ OnePending))
ComeOk == script \in Come /\ tx # "data" /\ ~rx.on /\ OnePending
EchoedOk == script \in Echoed /\ ~rx.on /\ (IF tx = "data" THEN OnePending ELSE AllAnswered)
EchoInv == IdleOk \/ WaitingOk \/ ComeOk \/ EchoedOk

OpenOk == script \in Open /\ ((rx_count = 0 /\ AllAnswered) \/ (rx_count > 0 /\ OnePending))
HandledOk == script \in Handled /\ AllAnswered /\ rx.n = 0
HciInv == tx # "data" /\ (rx.n > 0 => rx.n < RX_SIZE) /\ (OpenOk \/ HandledOk)

UartInv ==
    /\ UartType /\ Polled /\ Answers
    /\ ~rx.on => rx.n = 0
    /\ IF uprog = "hci" THEN HciInv ELSE EchoInv

\* A step of main() that leaves the buffer and the counts alone.
LEMMA OnlyScript ==
    ASSUME UartInv, UNCHANGED <<uprog, rx_count, rx_done, rx, data, receptions, answered>>,
           tx' \in {"none", "text", "data"}, tx_done' \in BOOLEAN
    PROVE  /\ UartType' /\ Answers' /\ (~rx'.on => rx'.n = 0)
           /\ NothingCounted' = NothingCounted /\ AllAnswered' = AllAnswered /\ OnePending' = OnePending
<1>1. UartType' /\ Answers' /\ (~rx'.on => rx'.n = 0)
  BY DEF UartInv, UartType, Answers
<1>2. NothingCounted' = NothingCounted /\ AllAnswered' = AllAnswered /\ OnePending' = OnePending
  BY DEF NothingCounted, AllAnswered, OnePending
<1> QED BY <1>1, <1>2

\* The phases of main() go on from one to the next.
LEMMA ScriptKeeps ==
    UartInv /\ (T!NextRound \/ T!Send \/ T!Sent \/ T!Await) => UartInv'
<1> SUFFICES ASSUME UartInv, T!NextRound \/ T!Send \/ T!Sent \/ T!Await PROVE UartInv'
  OBVIOUS
<1>1. /\ UNCHANGED <<uprog, rx_count, rx_done, rx, data, receptions, answered>>
      /\ tx' \in {"none", "text", "data"} /\ tx_done' \in BOOLEAN
  BY DEF T!NextRound, T!Send, T!Sent, T!Await, UartInv, UartType
<1>2. /\ UartType' /\ Answers' /\ (~rx'.on => rx'.n = 0)
      /\ NothingCounted' = NothingCounted /\ AllAnswered' = AllAnswered /\ OnePending' = OnePending
  BY <1>1, OnlyScript
<1>3. CASE T!NextRound
  <2>1. script = <<>> /\ script' = T!round /\ tx' = tx /\ tx_done' = tx_done
    BY <1>3 DEF T!NextRound
  <2>2. Polled'
    <3>1. script' # <<>> /\ Head(script') # "sent"
      BY <2>1 DEF T!round, T!c_round, T!cpp_round, T!hci_round
    <3> QED BY <2>1, <3>1 DEF UartInv, Polled, T!at_op
  <2>3. CASE uprog = "hci"
    <3>1. script' \in Open /\ HciInv /\ ~HandledOk
      BY <2>1, <2>3, InHandled DEF T!round, T!hci_round, Open, UartInv, HandledOk
    <3>2. OpenOk' /\ HciInv'
      BY <1>1, <1>2, <2>1, <3>1 DEF OpenOk, HciInv
    <3> QED BY <1>1, <1>2, <2>2, <2>3, <3>2 DEF UartInv
  <2>4. CASE uprog # "hci"
    <3>1. script' \in Idle /\ EchoInv
      BY <2>1, <2>4 DEF T!round, T!c_round, T!cpp_round, Idle, UartInv, UartType
    <3>2. IdleOk
      BY <2>1, <3>1, InWaiting, InCome, InEchoed DEF EchoInv, WaitingOk, ComeOk, EchoedOk
    <3>3. IdleOk'
      BY <1>1, <1>2, <2>1, <3>1, <3>2 DEF IdleOk
    <3> QED BY <1>1, <1>2, <2>2, <2>4, <3>3 DEF UartInv, EchoInv
  <2> QED BY <2>3, <2>4
<1>4. CASE T!Send
  <2>1. /\ script # <<>> /\ script' = SentAt(script) /\ tx = "none" /\ UNCHANGED tx_done
        /\ \/ Head(script) = "print" /\ tx' = "text"
           \/ Head(script) = "echo" /\ tx' = "data"
    BY <1>4 DEF T!Send, T!at_op, SentAt
  <2>2. tx_done = FALSE /\ tx' # "none"
    BY <2>1 DEF UartInv, Polled, T!at_op
  <2>3. ASSUME script' # <<>>, Head(script') = "sent" PROVE Polled'
    BY <2>1, <2>2, <2>3 DEF Polled, T!at_op
  <2>4. CASE uprog = "hci"
    <3>1. HandledOk
      BY <2>1, <2>4, InOpen DEF UartInv, HciInv, OpenOk
    <3>2. Head(script) = "print" /\ script' \in Handled /\ Polled'
      BY <2>1, <2>3, <3>1, InHandled DEF HandledOk
    <3>3. HciInv'
      BY <1>1, <1>2, <2>1, <2>4, <3>1, <3>2 DEF UartInv, HciInv, HandledOk
    <3> QED BY <1>1, <1>2, <2>4, <3>2, <3>3 DEF UartInv
  <2>5. CASE uprog # "hci"
    <3>1. CASE IdleOk
      <4>1. Head(script) = "print" /\ script' \in Idle /\ Polled'
        BY <2>1, <2>3, <3>1, InIdle DEF IdleOk
      <4>2. IdleOk'
        BY <1>1, <1>2, <2>1, <3>1, <4>1 DEF IdleOk
      <4> QED BY <1>1, <1>2, <2>5, <4>1, <4>2 DEF UartInv, EchoInv
    <3>2. CASE WaitingOk
      <4>1. Head(script) = "print" /\ script' \in Waiting /\ Polled'
        BY <2>1, <2>3, <3>2, InWaiting DEF WaitingOk
      <4>2. WaitingOk'
        BY <1>1, <1>2, <2>1, <3>2, <4>1 DEF WaitingOk
      <4> QED BY <1>1, <1>2, <2>5, <4>1, <4>2 DEF UartInv, EchoInv
    <3>3. CASE ComeOk
      <4>1. /\ Polled' /\ (Head(script) = "print" => script' \in Come)
            /\ Head(script) = "echo" => script' \in Echoed
        BY <2>1, <2>3, <3>3, InCome DEF ComeOk
      <4>2. ComeOk' \/ EchoedOk'
        BY <1>1, <1>2, <2>1, <3>3, <4>1 DEF ComeOk, EchoedOk
      <4> QED BY <1>1, <1>2, <2>5, <4>1, <4>2 DEF UartInv, EchoInv
    <3>4. CASE EchoedOk
      <4>1. Head(script) = "print" /\ script' \in Echoed /\ Polled'
        BY <2>1, <2>3, <3>4, InEchoed DEF EchoedOk
      <4>2. EchoedOk'
        BY <1>1, <1>2, <2>1, <3>4, <4>1 DEF EchoedOk
      <4> QED BY <1>1, <1>2, <2>5, <4>1, <4>2 DEF UartInv, EchoInv
    <3> QED BY <2>5, <3>1, <3>2, <3>3, <3>4 DEF UartInv, EchoInv
  <2> QED BY <2>4, <2>5
<1>5. CASE T!Sent
  <2>1. /\ script # <<>> /\ Head(script) = "sent" /\ script' = Tail(script) /\ tx = "none" /\ tx' = tx
        /\ tx_done' = FALSE
    BY <1>5 DEF T!Sent, T!at_op, UartInv, Polled
  <2>2. ASSUME Clean(script') PROVE Polled'
    BY <2>1, <2>2 DEF Polled, T!at_op, Clean
  <2>3. CASE uprog = "hci"
    <3>1. HandledOk
      BY <2>1, <2>3, InOpen DEF UartInv, HciInv, OpenOk
    <3>2. script' \in Handled /\ Polled'
      BY <2>1, <2>2, <3>1, InHandled DEF HandledOk
    <3>3. HciInv'
      BY <1>1, <1>2, <2>1, <2>3, <3>1, <3>2 DEF UartInv, HciInv, HandledOk
    <3> QED BY <1>1, <1>2, <2>3, <3>2, <3>3 DEF UartInv
  <2>4. CASE uprog # "hci"
    <3>1. /\ Polled' /\ (script \in Idle => script' \in Idle) /\ (script \in Waiting => script' \in Waiting)
          /\ (script \in Come => script' \in Come) /\ (script \in Echoed => script' \in Echoed)
      <4>1. EchoInv
        BY <2>4 DEF UartInv
      <4> QED BY <2>1, <2>2, <4>1, InIdle, InWaiting, InCome, InEchoed
              DEF EchoInv, IdleOk, WaitingOk, ComeOk, EchoedOk
    <3>2. EchoInv'
      BY <1>1, <1>2, <2>1, <2>4, <3>1 DEF UartInv, EchoInv, IdleOk, WaitingOk, ComeOk, EchoedOk
    <3> QED BY <1>1, <1>2, <2>4, <3>1, <3>2 DEF UartInv
  <2> QED BY <2>3, <2>4
<1>6. CASE T!Await
  <2>1. /\ script # <<>> /\ Head(script) = "await" /\ script' = Tail(script) /\ tx' = tx /\ tx_done' = tx_done
        /\ IF uprog = "cpp" THEN rx_done ELSE rx_count # 0
    BY <1>6 DEF T!Await, T!at_op
  <2>2. uprog # "hci"
    BY <2>1, InOpen, InHandled DEF UartInv, HciInv, OpenOk, HandledOk
  <2>3. WaitingOk /\ ~NothingCounted
    BY <2>1, <2>2, InIdle, InCome, InEchoed
    DEF UartInv, EchoInv, IdleOk, ComeOk, EchoedOk, NothingCounted
  <2>4. script' \in Come /\ Clean(script')
    BY <2>1, <2>3, InWaiting DEF WaitingOk
  <2>5. Polled'
    BY <2>1, <2>4 DEF UartInv, Polled, T!at_op, Clean
  <2>6. ComeOk'
    BY <1>1, <1>2, <2>1, <2>3, <2>4 DEF WaitingOk, ComeOk
  <2> QED BY <1>1, <1>2, <2>2, <2>5, <2>6 DEF UartInv, EchoInv
<1> QED BY <1>3, <1>4, <1>5, <1>6

LEMMA ClearKeeps == UartInv /\ T!Clear => UartInv'
<1> SUFFICES ASSUME UartInv, T!Clear PROVE UartInv'
  OBVIOUS
<1>1. /\ script # <<>> /\ Head(script) = "clear" /\ script' = Tail(script) /\ data' = T!clean
      /\ UNCHANGED <<uprog, tx_done, rx_count, rx_done, tx, rx, receptions, answered>>
  BY DEF T!Clear, T!at_op
<1>2. uprog # "hci"
  BY <1>1, InOpen, InHandled DEF UartInv, HciInv, OpenOk, HandledOk
<1>3. IdleOk
  BY <1>1, <1>2, InWaiting, InCome, InEchoed DEF UartInv, EchoInv, WaitingOk, ComeOk, EchoedOk
<1>4. script' \in Idle /\ Clean(script')
  BY <1>1, <1>3, InIdle DEF IdleOk
<1>5. Polled'
  BY <1>1, <1>4 DEF UartInv, Polled, T!at_op, Clean
<1>6. UartType' /\ Answers' /\ (~rx'.on => rx'.n = 0)
  BY <1>1 DEF UartInv, UartType, Answers, T!clean
<1>7. rx.n = 0
  BY <1>3 DEF UartInv, IdleOk
<1>8. IdleOk'
  BY <1>1, <1>3, <1>4, <1>7 DEF IdleOk, NothingCounted, AllAnswered
<1> QED BY <1>1, <1>2, <1>5, <1>6, <1>8 DEF UartInv, EchoInv

LEMMA ListenKeeps == UartInv /\ T!Listen => UartInv'
<1> SUFFICES ASSUME UartInv, T!Listen PROVE UartInv'
  OBVIOUS
<1>1. PICK ok \in BOOLEAN, denied \in BOOLEAN :
        /\ ok => ~rx.on
        /\ denied => uprog = "c"
        /\ rx' = IF ok THEN [on |-> TRUE, n |-> 0] ELSE rx
        /\ script' = T!after_listen(ok, denied)
  BY DEF T!Listen
<1>2. /\ script # <<>> /\ Head(script) = "listen"
      /\ UNCHANGED <<uprog, tx_done, rx_count, rx_done, tx, data, receptions, answered>>
  BY DEF T!Listen, T!at_op
<1>3. rx' \in [on : BOOLEAN, n : Nat] /\ rx'.n <= RX_SIZE /\ (~rx'.on => rx'.n = 0) /\ rx'.n = rx.n
  <2>1. CASE ok
    BY <1>1, <2>1, UartAssumption DEF UartInv, UartType
  <2>2. CASE ~ok
    BY <1>1, <2>2 DEF UartInv, UartType
  <2> QED BY <2>1, <2>2
<1>4. UartType' /\ Answers'
  BY <1>2, <1>3 DEF UartInv, UartType, Answers
<1>5. /\ NothingCounted' = NothingCounted /\ AllAnswered' = AllAnswered /\ OnePending' = OnePending
  BY <1>2, <1>3 DEF NothingCounted, AllAnswered, OnePending
<1>6. tx = "none" /\ tx_done = FALSE
  BY <1>2 DEF UartInv, Polled, T!at_op
<1>7. CASE uprog = "hci"
  <2>1. script' \in Open /\ Clean(script')
    BY <1>1, <1>7 DEF T!after_listen, Open, Clean
  <2>2. OpenOk
    BY <1>2, <1>7, InHandled DEF UartInv, HciInv, HandledOk
  <2>3. HciInv'
    BY <1>2, <1>3, <1>5, <1>6, <1>7, <2>1, <2>2 DEF UartInv, HciInv, OpenOk
  <2>4. Polled'
    BY <1>2, <1>6, <2>1 DEF Polled, T!at_op, Clean
  <2> QED BY <1>2, <1>3, <1>4, <1>7, <2>3, <2>4 DEF UartInv
<1>8. CASE uprog # "hci"
  <2>1. IdleOk
    BY <1>2, <1>8, InWaiting, InCome, InEchoed DEF UartInv, EchoInv, WaitingOk, ComeOk, EchoedOk
  <2>2. Clean(script') /\ (IF ok THEN script' \in Waiting ELSE script' \in Idle)
    <3>1. uprog = "c" \/ uprog = "cpp"
      BY <1>8 DEF UartInv, UartType
    <3>2. CASE ok
      BY <1>1, <3>1, <3>2 DEF T!after_listen, T!c_answer, T!cpp_answer, Waiting, Clean
    <3>3. CASE ~ok
      BY <1>1, <3>1, <3>3 DEF T!after_listen, T!c_failed, T!cpp_failed, Idle, Clean
    <3> QED BY <3>2, <3>3
  <2>3. WaitingOk' \/ IdleOk'
    BY <1>1, <1>2, <1>5, <2>1, <2>2 DEF IdleOk, WaitingOk
  <2>4. Polled'
    BY <1>2, <1>6, <2>2 DEF Polled, T!at_op, Clean
  <2> QED BY <1>2, <1>3, <1>4, <1>8, <2>3, <2>4 DEF UartInv, EchoInv
<1> QED BY <1>7, <1>8

LEMMA ResetKeeps == UartInv /\ T!Reset => UartInv'
<1> SUFFICES ASSUME UartInv, T!Reset PROVE UartInv'
  OBVIOUS
<1>1. /\ script # <<>> /\ Head(script) = "reset" /\ script' = Tail(script)
      /\ rx_count' = 0 /\ rx_done' = FALSE
      /\ UNCHANGED <<uprog, tx_done, tx, rx, data, receptions, answered>>
  BY DEF T!Reset, T!at_op, T!cleared
<1>2. tx = "none" /\ tx_done = FALSE
  BY <1>1 DEF UartInv, Polled, T!at_op
<1>3. UartType' /\ Answers' /\ (~rx'.on => rx'.n = 0) /\ NothingCounted' /\ AllAnswered' = AllAnswered
  BY <1>1 DEF UartInv, UartType, Answers, NothingCounted, AllAnswered
<1>4. ASSUME Clean(script') PROVE Polled'
  BY <1>1, <1>2, <1>4 DEF Polled, T!at_op, Clean
<1>5. CASE uprog = "hci"
  <2>1. HandledOk /\ script' \in Open /\ Clean(script')
    BY <1>1, <1>5, InOpen, InHandled DEF UartInv, HciInv, OpenOk, HandledOk
  <2>2. HciInv'
    BY <1>1, <1>3, <1>5, <2>1 DEF UartInv, HciInv, OpenOk, HandledOk
  <2> QED BY <1>1, <1>3, <1>4, <1>5, <2>1, <2>2 DEF UartInv
<1>6. CASE uprog # "hci"
  <2>1. EchoedOk
    BY <1>1, <1>6, InIdle, InWaiting, InCome DEF UartInv, EchoInv, IdleOk, WaitingOk, ComeOk
  <2>2. script' \in Idle /\ Clean(script')
    BY <1>1, <2>1, InEchoed DEF EchoedOk
  <2>3. IdleOk'
    BY <1>1, <1>2, <1>3, <2>1, <2>2 DEF EchoedOk, IdleOk
  <2> QED BY <1>1, <1>3, <1>4, <1>6, <2>2, <2>3 DEF UartInv, EchoInv
<1> QED BY <1>5, <1>6

\* The pending reception is answered with what the buffer holds.
LEMMA Answered ==
    ASSUME UartInv, OnePending, answered' = Append(answered, SubSeq(data, 1, rx_count)),
           UNCHANGED <<rx, data, receptions>>
    PROVE  answered' \in Seq(Seq(Nat)) /\ Answers' /\ AllAnswered'
<1>1. PICK a \in Nat, c \in Nat : /\ a = Len(answered) /\ Len(receptions) = a + 1
                                  /\ c = rx_count /\ c = receptions[a + 1] /\ c <= RX_SIZE
  BY DEF UartInv, UartType, OnePending
<1>2. PICK s : s = SubSeq(data, 1, rx_count)
  OBVIOUS
<1>3. s = [i \in 1 .. c |-> a + 1]
  <2>1. s = SubSeq(data, 1, c) /\ 1 \in Int /\ c \in Int /\ \A i \in 1 .. c : data[i] = a + 1 /\ data[i] \in Nat
    BY <1>1, <1>2 DEF OnePending
  <2>2. /\ s \in Seq(Nat) /\ Len(s) = IF 1 <= c THEN c - 1 + 1 ELSE 0
        /\ \A i \in 1 .. c - 1 + 1 : s[i] = data[1 + i - 1]
    BY <2>1, SubSeqProperties
  <2>3. Len(s) = c /\ \A i \in 1 .. c : s[i] = a + 1
    BY <2>1, <2>2
  <2> DEFINE t == [i \in 1 .. c |-> a + 1]
  <2>4. t \in Seq(Nat) /\ Len(t) = c /\ \A i \in 1 .. c : t[i] = a + 1
    <3>1. a + 1 \in Nat
      OBVIOUS
    <3> QED BY <3>1
  <2> HIDE DEF t
  <2>5. s = t
    BY <2>2, <2>3, <2>4, SeqEqual
  <2> QED BY <2>5 DEF t
<1>4. s \in Seq(Nat)
  BY <1>1, <1>3
<1>5. /\ answered' \in Seq(Seq(Nat)) /\ Len(answered') = a + 1 /\ DOMAIN answered' = 1 .. a + 1
      /\ answered'[a + 1] = s /\ DOMAIN answered = 1 .. a /\ \A k \in 1 .. a : answered'[k] = answered[k]
  <2>1. answered \in Seq(Seq(Nat)) /\ answered' = Append(answered, s)
    BY <1>2 DEF UartInv, UartType
  <2> QED BY <1>1, <1>4, <2>1, AppendProperties
<1>6. ASSUME NEW k \in 1 .. a + 1 PROVE answered'[k] = [i \in 1 .. receptions[k] |-> k]
  <2>1. CASE k \in 1 .. a
    BY <1>5, <2>1 DEF UartInv, Answers
  <2>2. CASE k = a + 1
    BY <1>1, <1>3, <1>5, <2>2
  <2>3. k \in 1 .. a \/ k = a + 1
    OBVIOUS
  <2> QED BY <2>1, <2>2, <2>3
<1>7. Answers'
  BY <1>5, <1>6 DEF Answers
<1>8. AllAnswered'
  <2>1. rx.n = 0
    BY DEF OnePending
  <2> QED BY <1>1, <1>5, <2>1 DEF AllAnswered
<1> QED BY <1>5, <1>7, <1>8

LEMMA HandleKeeps == UartInv /\ T!Handle => UartInv'
<1> SUFFICES ASSUME UartInv, T!Handle PROVE UartInv'
  OBVIOUS
<1>1. /\ script # <<>> /\ Head(script) = "test"
      /\ UNCHANGED <<uprog, tx_done, rx_count, rx_done, tx, rx, data, receptions>>
      /\ \/ rx_count = 0 /\ script' = <<>> /\ UNCHANGED answered
         \/ /\ rx_count > 0 /\ answered' = Append(answered, SubSeq(data, 1, rx_count))
            /\ script' \in {<<"reset">>, <<"print", "reset">>}
  BY DEF T!Handle, T!at_op
<1>2. uprog = "hci"
  BY <1>1, InIdle, InWaiting, InCome, InEchoed DEF UartInv, EchoInv, IdleOk, WaitingOk, ComeOk, EchoedOk
<1>3. OpenOk
  BY <1>1, <1>2, InHandled DEF UartInv, HciInv, HandledOk
<1>4. tx = "none" /\ tx_done = FALSE
  BY <1>1 DEF UartInv, Polled, T!at_op
<1>5. Polled'
  <2>1. script' = <<>> \/ Head(script') # "sent"
    BY <1>1
  <2> QED BY <1>1, <1>4, <2>1 DEF Polled, T!at_op
<1>6. CASE rx_count = 0
  <2>1. script' = <<>> /\ UNCHANGED answered /\ rx_count = 0 /\ AllAnswered
    BY <1>1, <1>3, <1>6 DEF OpenOk
  <2>2. script' \in Open
    BY <2>1 DEF Open
  <2>3. UartType' /\ Answers' /\ AllAnswered'
    BY <1>1, <2>1 DEF UartInv, UartType, Answers, AllAnswered
  <2>4. HciInv'
    BY <1>1, <1>2, <2>1, <2>2, <2>3 DEF UartInv, HciInv, OpenOk
  <2> QED BY <1>1, <1>2, <1>5, <2>3, <2>4 DEF UartInv
<1>7. CASE rx_count # 0
  <2>1. OnePending /\ answered' = Append(answered, SubSeq(data, 1, rx_count))
    BY <1>1, <1>3, <1>7 DEF OpenOk
  <2>2. answered' \in Seq(Seq(Nat)) /\ Answers' /\ AllAnswered'
    BY <1>1, <2>1, Answered
  <2>3. script' \in Handled /\ rx.n = 0
    BY <1>1, <1>7, <2>1 DEF Handled, OnePending
  <2>4. UartType'
    BY <1>1, <2>2 DEF UartInv, UartType
  <2>5. HciInv'
    BY <1>1, <1>2, <2>2, <2>3 DEF UartInv, HciInv, HandledOk
  <2> QED BY <1>1, <1>2, <1>5, <2>2, <2>4, <2>5 DEF UartInv
<1> QED BY <1>6, <1>7

LEMMA TxHandlerKeeps == UartInv /\ T!tx_handler => UartInv'
<1> SUFFICES ASSUME UartInv, T!tx_handler PROVE UartInv'
  OBVIOUS
<1>1. /\ tx # "none" /\ tx' = "none" /\ tx_done' = TRUE
      /\ answered' = IF tx = "data" THEN Append(answered, SubSeq(data, 1, rx_count)) ELSE answered
      /\ UNCHANGED <<uprog, script, rx_count, rx_done, rx, data, receptions>>
  BY DEF T!tx_handler
<1>2. Polled'
  BY <1>1 DEF UartInv, Polled, T!at_op
<1>3. CASE tx = "data"
  <2>1. uprog # "hci" /\ EchoedOk /\ OnePending
    BY <1>3 DEF UartInv, HciInv, EchoInv, IdleOk, WaitingOk, ComeOk, EchoedOk
  <2>2. answered' \in Seq(Seq(Nat)) /\ Answers' /\ AllAnswered'
    BY <1>1, <1>3, <2>1, Answered
  <2>3. UartType' /\ EchoedOk'
    BY <1>1, <2>1, <2>2 DEF UartInv, UartType, EchoedOk
  <2> QED BY <1>1, <1>2, <2>1, <2>2, <2>3 DEF UartInv, EchoInv
<1>4. CASE tx # "data"
  <2>1. /\ UartType' /\ Answers' /\ (~rx'.on => rx'.n = 0)
        /\ NothingCounted' = NothingCounted /\ AllAnswered' = AllAnswered /\ OnePending' = OnePending
    BY <1>1, <1>4, OnlyScript
  <2>2. CASE uprog = "hci"
    <3>1. HciInv'
      BY <1>1, <2>1, <2>2 DEF UartInv, HciInv, OpenOk, HandledOk
    <3> QED BY <1>1, <1>2, <2>1, <2>2, <3>1 DEF UartInv
  <2>3. CASE uprog # "hci"
    <3>1. EchoInv'
      BY <1>1, <1>4, <2>1, <2>3 DEF UartInv, EchoInv, IdleOk, WaitingOk, ComeOk, EchoedOk
    <3> QED BY <1>1, <1>2, <2>1, <2>3, <3>1 DEF UartInv
  <2> QED BY <2>2, <2>3
<1> QED BY <1>3, <1>4

LEMMA PeerKeeps == UartInv /\ T!PeerByte => UartInv'
<1> SUFFICES ASSUME UartInv, T!PeerByte PROVE UartInv'
  OBVIOUS
<1>1. /\ rx.on /\ rx.n < RX_SIZE /\ T!may_send
      /\ rx' = [rx EXCEPT !.n = @ + 1]
      /\ data' = [data EXCEPT ![rx.n + 1] = Len(receptions) + 1]
      /\ UNCHANGED <<uprog, script, tx_done, rx_count, rx_done, tx, receptions, answered>>
  BY DEF T!PeerByte
<1>2. PICK n \in Nat, k \in Nat : n = rx.n /\ k = Len(receptions) + 1 /\ n < RX_SIZE
  BY <1>1 DEF UartInv, UartType
<1>3. PICK m \in Nat : m = n + 1 /\ m \in 1 .. RX_SIZE /\ \A i \in 1 .. m : i \in 1 .. n \/ i = m
  BY <1>2, UartAssumption
<1>4. rx' = [rx EXCEPT !.n = m] /\ data' = [data EXCEPT ![m] = k]
  BY <1>1, <1>2, <1>3
<1>5. rx' \in [on : BOOLEAN, n : Nat] /\ rx'.n = m /\ rx'.on /\ data' \in [1 .. RX_SIZE -> Nat]
  <2>1. rx' \in [on : BOOLEAN, n : Nat] /\ rx'.n = m /\ rx'.on
    BY <1>1, <1>4 DEF UartInv, UartType
  <2>2. data' \in [1 .. RX_SIZE -> Nat]
    BY <1>4 DEF UartInv, UartType
  <2> QED BY <2>1, <2>2
<1>6. UartType' /\ Answers' /\ (~rx'.on => rx'.n = 0)
  BY <1>1, <1>3, <1>5 DEF UartInv, UartType, Answers
<1>7. Polled'
  BY <1>1 DEF UartInv, Polled, T!at_op
<1>8. ASSUME AllAnswered PROVE AllAnswered'
  <2>1. \A i \in 1 .. n : data[i] = k
    BY <1>2, <1>8 DEF AllAnswered
  <2>2. ASSUME NEW i \in 1 .. m PROVE data'[i] = k
    <3>1. i \in 1 .. RX_SIZE
      BY <1>3, UartAssumption
    <3>2. CASE i = m
      BY <1>4, <3>1, <3>2 DEF UartInv, UartType
    <3>3. CASE i # m
      BY <1>3, <1>4, <2>1, <3>1, <3>3 DEF UartInv, UartType
    <3> QED BY <3>2, <3>3
  <2> QED BY <1>1, <1>2, <1>5, <1>8, <2>2 DEF AllAnswered
<1>9. CASE uprog = "hci"
  <2>1. script \in Open /\ rx_count = 0 /\ m < RX_SIZE
    BY <1>1, <1>2, <1>3, <1>9 DEF T!may_send, T!hci_round, Open
  <2>2. OpenOk /\ AllAnswered
    BY <1>9, <2>1, InHandled DEF UartInv, HciInv, OpenOk, HandledOk
  <2>3. HciInv'
    BY <1>1, <1>5, <1>8, <1>9, <2>1, <2>2 DEF UartInv, HciInv, OpenOk
  <2> QED BY <1>1, <1>6, <1>7, <1>9, <2>3 DEF UartInv
<1>10. CASE uprog # "hci"
  <2>1. WaitingOk /\ NothingCounted /\ AllAnswered
    BY <1>1, <1>10 DEF UartInv, EchoInv, IdleOk, WaitingOk, ComeOk, EchoedOk
  <2>2. NothingCounted' /\ WaitingOk'
    BY <1>1, <1>8, <2>1 DEF WaitingOk, NothingCounted
  <2> QED BY <1>1, <1>6, <1>7, <1>10, <2>2 DEF UartInv, EchoInv
<1> QED BY <1>9, <1>10

LEMMA RxHandlerKeeps == UartInv /\ T!rx_handler => UartInv'
<1> SUFFICES ASSUME UartInv, T!rx_handler PROVE UartInv'
  OBVIOUS
<1>1. /\ rx.on /\ rx.n > 0 /\ rx' = [on |-> FALSE, n |-> 0]
      /\ rx_count' = (IF uprog = "hci" THEN rx.n % RX_SIZE ELSE rx.n)
      /\ rx_done' = (uprog = "cpp") /\ receptions' = Append(receptions, rx.n)
      /\ UNCHANGED <<uprog, script, tx_done, tx, data, answered>>
  BY DEF T!rx_handler
<1>2. AllAnswered /\ (uprog = "hci" => script \in Open /\ rx.n < RX_SIZE) /\ (uprog # "hci" => WaitingOk)
  <2>1. CASE uprog = "hci"
    BY <1>1, <2>1 DEF UartInv, HciInv, OpenOk, HandledOk, OnePending
  <2>2. CASE uprog # "hci"
    BY <1>1, <2>2 DEF UartInv, EchoInv, IdleOk, WaitingOk, ComeOk, EchoedOk
  <2> QED BY <2>1, <2>2
<1>3. PICK n \in Nat, a \in Nat : /\ n = rx.n /\ n > 0 /\ n <= RX_SIZE /\ a = Len(receptions) /\ a = Len(answered)
                                  /\ \A i \in 1 .. n : data[i] = a + 1
  BY <1>1, <1>2 DEF UartInv, UartType, AllAnswered
<1>4. rx_count' = n
  <2>1. CASE uprog = "hci"
    <3>1. n < RX_SIZE /\ n % RX_SIZE = n
      BY <1>2, <1>3, <2>1, UartAssumption
    <3> QED BY <1>1, <1>3, <2>1, <3>1
  <2>2. CASE uprog # "hci"
    BY <1>1, <1>3, <2>2
  <2> QED BY <2>1, <2>2
<1>5. /\ receptions' \in Seq(Nat) /\ Len(receptions') = a + 1 /\ receptions'[a + 1] = n
      /\ \A j \in 1 .. a : receptions'[j] = receptions[j]
  <2>1. receptions \in Seq(Nat) /\ receptions' = Append(receptions, n)
    BY <1>1, <1>3 DEF UartInv, UartType
  <2>2. Len(receptions) = a /\ n \in Nat
    BY <1>3
  <2> QED BY ONLY <2>1, <2>2, AppendProperties
<1>6. OnePending'
  <2>1. rx'.n = 0 /\ Len(receptions') = Len(answered') + 1 /\ rx_count' = receptions'[Len(receptions')]
    BY <1>1, <1>3, <1>4, <1>5
  <2>2. \A i \in 1 .. rx_count' : data'[i] = Len(receptions')
    BY <1>1, <1>3, <1>4, <1>5
  <2> QED BY <1>3, <1>4, <2>1, <2>2 DEF OnePending
<1>7. UartType'
  <2>1. rx' \in [on : BOOLEAN, n : Nat] /\ rx'.n <= RX_SIZE
    BY <1>1, UartAssumption
  <2> QED BY <1>1, <1>3, <1>4, <1>5, <2>1 DEF UartInv, UartType
<1>8. Answers'
  <2>1. DOMAIN answered = 1 .. a
    BY <1>3 DEF UartInv, UartType
  <2> QED BY <1>1, <1>5, <2>1 DEF UartInv, Answers
<1>9. Polled'
  BY <1>1 DEF UartInv, Polled, T!at_op
<1>10. CASE uprog = "hci"
  <2>1. HciInv'
    BY <1>1, <1>2, <1>3, <1>4, <1>6, <1>10 DEF UartInv, HciInv, OpenOk
  <2> QED BY <1>1, <1>7, <1>8, <1>9, <1>10, <2>1 DEF UartInv
<1>11. CASE uprog # "hci"
  <2>1. WaitingOk'
    BY <1>1, <1>2, <1>6, <1>11 DEF WaitingOk
  <2> QED BY <1>1, <1>7, <1>8, <1>9, <1>11, <2>1 DEF UartInv, EchoInv
<1> QED BY <1>10, <1>11

LEMMA UartKeeps == UartInv /\ [Next]_vars => UartInv'
<1> SUFFICES ASSUME UartInv, T!Next PROVE UartInv'
  <2>1. CASE UNCHANGED uart_vars
    BY <2>1 DEF uart_vars, UartInv, UartType, Polled, T!at_op, Answers, HciInv, EchoInv, OpenOk, HandledOk,
                IdleOk, WaitingOk, ComeOk, EchoedOk, AllAnswered, NothingCounted, OnePending
  <2> QED BY <2>1, UartMoves
<1>1. CASE T!UartRest
  BY <1>1 DEF T!UartRest, T!uvars, UartInv, UartType, Polled, T!at_op, Answers, HciInv, EchoInv, OpenOk,
              HandledOk, IdleOk, WaitingOk, ComeOk, EchoedOk, AllAnswered, NothingCounted, OnePending
<1> QED
  BY <1>1, ScriptKeeps, ClearKeeps, ListenKeeps, ResetKeeps, HandleKeeps, TxHandlerKeeps, PeerKeeps,
     RxHandlerKeeps
  DEF T!Next, T!Main

(***************************************************************************)
(* For every size of the buffer and number of receptions: uart_demo echoes *)
(* and ble_controller_demo handles each reception once, in order, with all *)
(* of its bytes and no other, however the handlers interleave with         *)
(* main() and whatever receptions fail to start.                           *)
(***************************************************************************)
THEOREM EachReceptionAnswered == Spec => []AnswersReceptions
<1>1. Init => UartInv
  <2> SUFFICES ASSUME T!Init PROVE UartInv
    BY DEF Init
  <2>1. /\ uprog \in {"c", "cpp", "hci"} /\ script = <<>> /\ tx_done = FALSE /\ rx_count = 0 /\ rx_done = FALSE
        /\ tx = "none" /\ rx = [on |-> FALSE, n |-> 0] /\ data = [i \in 1 .. RX_SIZE |-> 0]
        /\ receptions = <<>> /\ answered = <<>>
    BY DEF T!Init, T!clean
  <2>2. UartType
    <3>1. rx \in [on : BOOLEAN, n : Nat] /\ rx.n <= RX_SIZE
      BY <2>1, UartAssumption
    <3>2. data \in [1 .. RX_SIZE -> Nat] /\ receptions \in Seq(Nat) /\ answered \in Seq(Seq(Nat))
      BY <2>1
    <3> QED BY <2>1, <3>1, <3>2 DEF UartType
  <2>3. Polled /\ Answers /\ AllAnswered /\ NothingCounted /\ rx.n = 0 /\ ~rx.on
    BY <2>1 DEF Polled, T!at_op, Answers, AllAnswered, NothingCounted
  <2>4. script \in Idle /\ script \in Open
    BY <2>1 DEF Idle, Open
  <2>5. HciInv /\ EchoInv
    BY <2>1, <2>3, <2>4 DEF HciInv, OpenOk, EchoInv, IdleOk
  <2> QED BY <2>2, <2>3, <2>5 DEF UartInv
<1>2. UartInv => AnswersReceptions
  <2> SUFFICES ASSUME UartInv PROVE AnswersReceptions
    OBVIOUS
  <2>1. AllAnswered \/ OnePending
    BY DEF UartInv, HciInv, EchoInv, OpenOk, HandledOk, IdleOk, WaitingOk, ComeOk, EchoedOk
  <2>2. Len(answered) <= Len(receptions)
    BY <2>1 DEF UartInv, UartType, AllAnswered, OnePending
  <2> QED BY <2>2 DEF UartInv, Answers, AnswersReceptions, T!AnswersReceptions
<1> QED BY <1>1, <1>2, UartKeeps, PTL DEF Spec

-----------------------------------------------------------------------------
(* The bus programs. *)

\* A register of the clock holds the two digits of its part of the time.
RtcInv ==
    /\ chip.halt \in BOOLEAN
    /\ \A i \in 1 .. 7 : chip.time[i] \in Nat /\ chip.digits[i] = B!digits(chip.time[i] % 100)
    /\ \A i \in 1 .. 6 : chip.time[i] < 60
    /\ chip.time[3] < 24 /\ chip.time[7] \in 2000 .. 2099
    /\ chip.time = [i \in 1 .. 7 |-> chip.time[i]]
    /\ shown.got = shown.real

\* What the slave has is a beginning; what the master of i2c has at the read is nothing.
BusInv ==
    /\ bus \in {"i2c", "spi", "rtc"}
    /\ s_rx \in B!sent_part
    /\ bus = "i2c" => /\ s_tx \in B!sent_part
                      /\ bpc = "read" => rx_buffer = {}
                      /\ (bpc = "judge" /\ B!successful) => read_ok /\ rx_buffer = B!All
    /\ bus = "spi" => ((1 \in rx_buffer => read_ok) /\ (led => read_ok))
    /\ RtcInv

LEMMA Beginnings ==
    /\ B!All \in B!sent_part /\ {} \in B!sent_part
    /\ \A p \in B!sent_part : p \subseteq B!All /\ (BUFFER_SIZE \in p => p = B!All)
    /\ \A p, q \in B!sent_part : q \cup p \in B!sent_part
<1>1. PICK n \in Nat : n = BUFFER_SIZE
  BY BusAssumption
<1>2. B!sent_part = {1 .. k : k \in 0 .. n} /\ B!All = 1 .. n
  BY <1>1 DEF B!sent_part, B!All
<1>3. 1 .. n \in {1 .. k : k \in 0 .. n} /\ {} \in {1 .. k : k \in 0 .. n}
  <2>1. 1 .. 0 = {}
    OBVIOUS
  <2> QED BY <2>1
<1>4. ASSUME NEW k \in 0 .. n PROVE 1 .. k \subseteq 1 .. n /\ (n \in 1 .. k => 1 .. k = 1 .. n)
  OBVIOUS
<1>5. ASSUME NEW k \in 0 .. n, NEW m \in 0 .. n PROVE \E j \in 0 .. n : (1 .. k) \cup (1 .. m) = 1 .. j
  <2>1. CASE k <= m
    BY <2>1
  <2>2. CASE m <= k
    BY <2>2
  <2> QED BY <2>1, <2>2
<1>6. \A p \in B!sent_part : p \subseteq B!All /\ (BUFFER_SIZE \in p => p = B!All)
  BY <1>1, <1>2, <1>4
<1>7. ASSUME NEW p \in B!sent_part, NEW q \in B!sent_part PROVE q \cup p \in B!sent_part
  <2>1. PICK k \in 0 .. n : q = 1 .. k
    BY <1>2
  <2>2. PICK m \in 0 .. n : p = 1 .. m
    BY <1>2
  <2>3. \E j \in 0 .. n : (1 .. k) \cup (1 .. m) = 1 .. j
    BY <1>5
  <2>4. PICK j \in 0 .. n : q \cup p = 1 .. j
    BY ONLY <2>1, <2>2, <2>3
  <2> QED BY <1>2, <2>4
<1> QED BY <1>2, <1>3, <1>6, <1>7, Zenon

\* Binary-coded decimals there and back.
LEMMA Bcd ==
    ASSUME NEW v \in 0 .. 99
    PROVE  /\ B!bin_to_bcd(v) \div 16 = v \div 10 /\ B!bin_to_bcd(v) % 16 = v % 10
           /\ B!bcd_to_bin((v \div 10) * 16 + (v % 10)) = v
           /\ v < 80 => B!bin_to_bcd(v) < 128
<1> USE DEF B!bin_to_bcd, B!bcd_to_bin
<1>1. PICK a \in 0 .. 9, b \in 0 .. 9 : a = v \div 10 /\ b = v % 10 /\ v = a * 10 + b
  OBVIOUS
<1>2. (a * 16 + b) \div 16 = a /\ (a * 16 + b) % 16 = b
  OBVIOUS
<1> QED BY <1>1, <1>2

\* The register of a part of the time, as the chip takes it in.
LEMMA StoredDigits ==
    ASSUME NEW t, \A i \in 1 .. 7 : t[i] \in Nat, \A i \in 1 .. 6 : t[i] < 60, t[7] \in 2000 .. 2099,
           NEW i \in 1 .. 7
    PROVE  /\ B!read_back(i, B!set_time(t)[i]) = B!digits(t[i] % 100)
           /\ ~(B!set_time(t)[1] >= 128)
<1>1. PICK v \in 0 .. 99 : v = t[i] % 100 /\ (i = 1 => v < 60)
  OBVIOUS
<1>2. B!set_time(t)[i] = B!bin_to_bcd(v)
  <2>1. i # 7 => t[i] % 100 = t[i]
    OBVIOUS
  <2> QED BY <1>1, <2>1 DEF B!set_time
<1>3. B!read_back(i, B!bin_to_bcd(v)) = B!digits(v)
  <2>1. PICK x : x = B!bin_to_bcd(v)
    OBVIOUS
  <2>2. x \in Nat /\ x \div 16 = v \div 10 /\ x % 16 = v % 10 /\ (i = 1 => x % 128 = x)
    <3>1. x \in Nat
      BY <2>1 DEF B!bin_to_bcd
    <3>2. i = 1 => x < 128
      BY <1>1, <2>1, Bcd
    <3> QED BY <2>1, <3>1, <3>2, Bcd
  <2> QED BY <2>1, <2>2 DEF B!read_back, B!digits
<1>4. ~(B!set_time(t)[1] >= 128)
  <2>1. t[1] \in 0 .. 59
    OBVIOUS
  <2>2. B!set_time(t)[1] = B!bin_to_bcd(t[1])
    BY DEF B!set_time
  <2>3. B!bin_to_bcd(t[1]) \in Nat /\ B!bin_to_bcd(t[1]) < 128
    BY <2>1, Bcd DEF B!bin_to_bcd
  <2> QED BY <2>2, <2>3
<1> QED BY <1>1, <1>2, <1>3, <1>4

\* What is printed is the time of the chip.
LEMMA ReadsTime == RtcInv => B!read_time = chip.time
<1> SUFFICES ASSUME RtcInv, NEW i \in 1 .. 7 PROVE B!read_time[i] = chip.time[i]
  BY DEF RtcInv, B!read_time
<1>1. PICK v \in 0 .. 99 : v = chip.time[i] % 100 /\ (i <= 6 => v = chip.time[i]) /\ (i <= 6 => v < 60)
        /\ (i = 3 => v < 24) /\ (i = 7 => 2000 + v = chip.time[i])
  BY DEF RtcInv
<1>2. chip.digits[i].tens = v \div 10 /\ chip.digits[i].ones = v % 10
  BY <1>1 DEF RtcInv, B!digits
<1>3. PICK w \in Nat : w = (v \div 10) * 16 + (v % 10) /\ (v < 60 => w < 128) /\ (v < 24 => w < 64)
  OBVIOUS
<1>4. B!bcd_to_bin(w) = v
  BY <1>3, Bcd
<1>5. B!raw(i) = w + (IF i = 1 /\ chip.halt THEN 128 ELSE 0)
  BY <1>2, <1>3 DEF B!raw, B!register
<1>6. CASE i = 1
  <2>1. B!raw(i) % 128 = w
    <3>1. w < 128 /\ (w + 128) % 128 = w /\ (w + 0) % 128 = w
      BY <1>1, <1>3, <1>6
    <3> QED BY <1>5, <3>1
  <2> QED BY <1>1, <1>4, <1>6, <2>1 DEF B!read_time
<1>7. CASE i = 3
  <2>1. B!raw(i) % 64 = w
    BY <1>1, <1>3, <1>5, <1>7
  <2> QED BY <1>1, <1>4, <1>7, <2>1 DEF B!read_time
<1>8. CASE i = 7
  <2>1. B!raw(i) = w
    BY <1>3, <1>5, <1>8
  <2> QED BY <1>1, <1>4, <1>8, <2>1 DEF B!read_time
<1>9. CASE i \in {2, 4, 5, 6}
  <2>1. B!raw(i) = w
    BY <1>3, <1>5, <1>9
  <2> QED BY <1>1, <1>4, <1>9, <2>1 DEF B!read_time
<1> QED BY <1>6, <1>7, <1>8, <1>9

LEMMA RtcStarts == B!Init => RtcInv
<1> SUFFICES ASSUME B!Init PROVE RtcInv
  OBVIOUS
<1>1. PICK t \in Times : chip = [digits |-> [i \in 1 .. 7 |-> B!digits(t[i] % 100)], halt |-> TRUE, time |-> t]
  BY DEF B!Init
<1>2. t \in [1 .. 7 -> Nat] /\ (\A i \in 1 .. 6 : t[i] < 60) /\ t[3] < 24 /\ t[7] \in 2000 .. 2099
  BY TimesAssumption
<1>3. shown.got = shown.real
  BY DEF B!Init, B!silent
<1> QED BY <1>1, <1>2, <1>3 DEF RtcInv

LEMMA RtcKeeps == ASSUME RtcInv, B!SetTime \/ B!ShowTime \/ B!ClockRuns PROVE RtcInv'
<1>1. CASE B!SetTime
  <2>1. PICK t \in Times, n \in {0, 3, 7} :
          LET buf == B!set_time(t)
          IN  chip' = [digits |-> [i \in 1 .. 7 |-> IF i <= n THEN B!read_back(i, buf[i]) ELSE chip.digits[i]],
                       halt |-> IF n > 0 THEN buf[1] >= 128 ELSE chip.halt,
                       time |-> [i \in 1 .. 7 |-> IF i <= n THEN t[i] ELSE chip.time[i]]]
    BY <1>1 DEF B!SetTime
  <2>2. t \in [1 .. 7 -> Nat] /\ (\A i \in 1 .. 6 : t[i] < 60) /\ t[3] < 24 /\ t[7] \in 2000 .. 2099
    BY TimesAssumption
  <2>3. \A i \in 1 .. 7 : B!read_back(i, B!set_time(t)[i]) = B!digits(t[i] % 100)
    BY <2>2, StoredDigits
  <2>4. ~(B!set_time(t)[1] >= 128)
    BY <2>2, StoredDigits
  <2>5. chip'.halt \in BOOLEAN
    <3>1. chip.halt \in BOOLEAN
      BY DEF RtcInv
    <3>2. chip'.halt = (IF n > 0 THEN B!set_time(t)[1] >= 128 ELSE chip.halt)
      BY <2>1
    <3>3. (B!set_time(t)[1] >= 128) = FALSE
      BY <2>4
    <3>4. chip'.halt \in {FALSE, chip.halt}
      BY ONLY <3>2, <3>3, Zenon
    <3> QED BY <3>1, <3>4
  <2>6. \A i \in 1 .. 7 : chip'.time[i] = IF i <= n THEN t[i] ELSE chip.time[i]
    BY <2>1
  <2>7. \A i \in 1 .. 7 : chip'.digits[i] = IF i <= n THEN B!digits(t[i] % 100) ELSE chip.digits[i]
    BY <2>1, <2>3
  <2>8. chip'.time = [i \in 1 .. 7 |-> chip'.time[i]]
    BY <2>1
  <2>9. \A i \in 1 .. 7 : chip'.time[i] \in Nat /\ chip'.digits[i] = B!digits(chip'.time[i] % 100)
    BY <2>2, <2>6, <2>7 DEF RtcInv
  <2>10. (\A i \in 1 .. 6 : chip'.time[i] < 60) /\ chip'.time[3] < 24 /\ chip'.time[7] \in 2000 .. 2099
    BY <2>2, <2>6 DEF RtcInv
  <2>11. UNCHANGED shown
    BY <1>1 DEF B!SetTime
  <2> QED BY <2>5, <2>8, <2>9, <2>10, <2>11 DEF RtcInv
<1>2. CASE B!ShowTime
  <2>1. UNCHANGED chip /\ shown'.got = B!read_time /\ shown'.real = chip.time
    BY <1>2 DEF B!ShowTime
  <2> QED BY <2>1, ReadsTime DEF RtcInv
<1>3. CASE B!ClockRuns
  <2>1. PICK t \in Times : chip' = [digits |-> [i \in 1 .. 7 |-> B!digits(t[i] % 100)], halt |-> FALSE, time |-> t]
    BY <1>3 DEF B!ClockRuns
  <2>2. t \in [1 .. 7 -> Nat] /\ (\A i \in 1 .. 6 : t[i] < 60) /\ t[3] < 24 /\ t[7] \in 2000 .. 2099
    BY TimesAssumption
  <2>3. UNCHANGED shown
    BY <1>3 DEF B!ClockRuns
  <2> QED BY <2>1, <2>2, <2>3 DEF RtcInv
<1> QED BY <1>1, <1>2, <1>3

LEMMA BusKeeps == BusInv /\ [Next]_vars => BusInv'
<1> SUFFICES ASSUME BusInv, [Next]_vars PROVE BusInv'
  OBVIOUS
<1>1. CASE B!I2cWrite
  <2>1. PICK p \in B!sent_part : s_rx' = B!carried(p, s_rx, B!All)
    BY <1>1 DEF B!I2cWrite
  <2>2. s_rx' = s_rx \cup p
    BY <2>1, Beginnings DEF B!carried, BusInv
  <2>3. s_rx' \in B!sent_part
    BY <2>2, Beginnings DEF BusInv
  <2>4. bus = "i2c" /\ rx_buffer' = {} /\ bpc' = "read" /\ UNCHANGED <<bus, s_tx, led, read_ok, chip, shown>>
    BY <1>1 DEF B!I2cWrite, B!cleared
  <2> QED BY <2>3, <2>4 DEF BusInv, RtcInv
<1>2. CASE B!I2cRead
  <2>1. PICK p \in B!sent_part : /\ s_tx' \in {s_rx, s_tx}
                                 /\ rx_buffer' = B!carried(p, rx_buffer, s_tx')
                                 /\ read_ok' = (p = B!All)
    BY <1>2 DEF B!I2cRead, B!handler
  <2>2. /\ bus = "i2c" /\ bpc = "read" /\ bpc' = "judge" /\ UNCHANGED <<bus, s_rx, led, chip, shown>>
    BY <1>2 DEF B!I2cRead
  <2>3. s_tx' \in B!sent_part
    BY <2>1, <2>2 DEF BusInv
  <2>4. rx_buffer' = s_tx' \cap p
    BY <2>1, <2>2 DEF BusInv, B!carried
  <2>5. B!successful' => p = B!All /\ s_tx' = B!All
    <3> SUFFICES ASSUME B!successful' PROVE BUFFER_SIZE \in p /\ BUFFER_SIZE \in s_tx'
      BY <2>3, Beginnings
    <3> QED BY <2>4 DEF B!successful
  <2>6. bus' \in {"i2c", "spi", "rtc"} /\ s_rx' \in B!sent_part /\ bus' = "i2c" /\ bpc' = "judge"
    BY <2>2 DEF BusInv
  <2>7. B!successful' => read_ok' /\ rx_buffer' = B!All
    BY <2>1, <2>4, <2>5
  <2>8. RtcInv'
    BY <2>2 DEF BusInv, RtcInv, B!digits
  <2> QED BY <2>3, <2>6, <2>7, <2>8 DEF BusInv
<1>3. CASE B!Judge
  BY <1>3 DEF B!Judge, BusInv, RtcInv
<1>4. CASE B!SpiWrite
  <2>1. PICK p \in B!sent_part : s_rx' = B!carried(p, s_rx, B!All)
    BY <1>4 DEF B!SpiWrite
  <2>2. s_rx' = s_rx \cup p
    BY <2>1, Beginnings DEF B!carried, BusInv
  <2>3. s_rx' \in B!sent_part
    BY <2>2, Beginnings DEF BusInv
  <2>4. bus = "spi" /\ led' = FALSE /\ UNCHANGED <<bus, rx_buffer, s_tx, read_ok, chip, shown>>
    BY <1>4 DEF B!SpiWrite
  <2> QED BY <2>3, <2>4 DEF BusInv, RtcInv
<1>5. CASE B!SpiRead
  <2>1. PICK p \in B!sent_part : /\ rx_buffer' = B!carried(p, rx_buffer, B!All)
                                 /\ read_ok' = (read_ok \/ 1 \in p)
    BY <1>5 DEF B!SpiRead
  <2>2. bus = "spi" /\ led' = (1 \in rx_buffer') /\ UNCHANGED <<bus, s_rx, s_tx, chip, shown>>
    BY <1>5 DEF B!SpiRead
  <2>3. 1 \in rx_buffer' => 1 \in rx_buffer \/ 1 \in p
    BY <2>1 DEF B!carried
  <2>4. (1 \in rx_buffer => read_ok) /\ RtcInv /\ s_rx \in B!sent_part
    BY <2>2 DEF BusInv
  <2>5. 1 \in rx_buffer' => read_ok'
    BY <2>1, <2>3, <2>4
  <2>6. bus' = "spi" /\ s_rx' \in B!sent_part /\ (led' => read_ok')
    BY <2>2, <2>4, <2>5
  <2>7. RtcInv'
    BY <2>2, <2>4 DEF RtcInv, B!digits
  <2> QED BY <2>5, <2>6, <2>7 DEF BusInv
<1>6. CASE B!SetTime \/ B!ShowTime \/ B!ClockRuns
  <2>1. RtcInv'
    BY <1>6, RtcKeeps DEF BusInv
  <2>2. bus = "rtc" /\ UNCHANGED <<bus, bpc, rx_buffer, s_rx, s_tx, led, read_ok>>
    BY <1>6 DEF B!SetTime, B!ShowTime, B!ClockRuns
  <2> QED BY <2>1, <2>2 DEF BusInv
<1>7. CASE UNCHANGED bus_vars
  BY <1>7 DEF bus_vars, BusInv, RtcInv, B!successful, B!digits
<1> QED BY <1>1, <1>2, <1>3, <1>4, <1>5, <1>6, <1>7, BusMoves DEF B!Next

LEMMA BusStarts == Init => BusInv
<1> SUFFICES ASSUME B!Init PROVE BusInv
  BY DEF Init
<1>1. RtcInv
  BY RtcStarts
<1>2. bus \in {"i2c", "spi", "rtc"} /\ bpc = "top" /\ rx_buffer = {} /\ s_rx = {} /\ s_tx = B!All /\ led = FALSE
  BY DEF B!Init
<1> QED BY <1>1, <1>2, Beginnings DEF BusInv

-----------------------------------------------------------------------------
(* The samples. *)

\* Division with remainder is unique.
LEMMA Remainder ==
    ASSUME NEW u \in Nat \ {0}, NEW y \in Nat, NEW k \in Int, NEW r \in 0 .. u - 1, y = u * k + r
    PROVE  y % u = r
<1>1. PICK q \in Int, s \in 0 .. u - 1 : y = u * q + s /\ s = y % u
  <2>1. y \div u \in Int /\ y % u \in 0 .. u - 1 /\ y = u * (y \div u) + (y % u)
    OBVIOUS
  <2> QED BY <2>1
<1>2. PICK d \in Int : d = k - q
  OBVIOUS
<1>3. u * d = s - r
  <2>1. u * (k - q) = u * k - u * q
    OBVIOUS
  <2> QED BY <1>1, <1>2, <2>1
<1>4. PICK p \in Int : p = u * d
  OBVIOUS
<1>5. d >= 1 => p >= u
  BY <1>4
<1>6. d <= -1 => p <= -u
  BY <1>4
<1>7. d = 0 => p = 0
  BY <1>4
<1>8. p = s - r
  BY ONLY <1>3, <1>4
<1> QED BY ONLY <1>1, <1>5, <1>6, <1>7, <1>8, u \in Nat \ {0}, d \in Int, p \in Int, r \in 0 .. u - 1,
               s \in 0 .. u - 1

LEMMA NextRemainder ==
    ASSUME NEW u \in Nat \ {0}, NEW y \in Nat
    PROVE  ((y % u) + 1) % u = (y + 1) % u /\ (y + u) % u = y % u
<1>1. PICK q \in Int, s \in 0 .. u - 1 : y = u * q + s /\ s = y % u
  <2>1. y \div u \in Int /\ y % u \in 0 .. u - 1 /\ y = u * (y \div u) + (y % u)
    OBVIOUS
  <2> QED BY <2>1
<1>2. (y + u) % u = s
  <2>1. y + u = u * (q + 1) + s
    <3>1. u * (q + 1) = u * q + u
      OBVIOUS
    <3> QED BY <1>1, <3>1
  <2>2. y + u \in Nat /\ q + 1 \in Int
    OBVIOUS
  <2> QED BY <2>1, <2>2, Remainder
<1>3. CASE s + 1 < u
  <2>1. y + 1 = u * q + (s + 1) /\ s + 1 \in 0 .. u - 1 /\ y + 1 \in Nat
    BY <1>1, <1>3
  <2>2. (y + 1) % u = s + 1
    BY <2>1, Remainder
  <2>3. (s + 1) % u = s + 1
    BY <1>3
  <2> QED BY <1>1, <1>2, <2>2, <2>3
<1>4. CASE s + 1 = u
  <2>1. y + 1 = u * (q + 1) + 0
    <3>1. u * (q + 1) = u * q + u
      OBVIOUS
    <3>2. PICK p \in Int, t \in Int : p = u * q /\ t = u * (q + 1)
      OBVIOUS
    <3>3. t = p + u /\ y = p + s /\ s + 1 = u
      BY ONLY <1>1, <1>4, <3>1, <3>2
    <3>4. y + 1 = t + 0
      BY ONLY <3>3, p \in Int, t \in Int, y \in Nat, s \in 0 .. u - 1, u \in Nat \ {0}
    <3> QED BY ONLY <3>2, <3>4
  <2>2. 0 \in 0 .. u - 1 /\ y + 1 \in Nat /\ q + 1 \in Int
    OBVIOUS
  <2>3. (y + 1) % u = 0
    BY <2>1, <2>2, Remainder
  <2>4. (s + 1) % u = 0
    BY <1>4
  <2> QED BY <1>1, <1>2, <2>3, <2>4
<1> QED BY <1>1, <1>3, <1>4

\* The flash is clean or counts up from its first byte.
Counting(m) ==
    /\ m \in [S!Cells -> 0 .. UINT8 - 1]
    /\ \/ \A i \in S!Cells : m[i] = S!CLEAN
       \/ \A i \in S!Cells : m[i] = (m[0] + i) % UINT8

\* A whole write takes one such content to another.
LEMMA CountsUp ==
    ASSUME Counting(copy), NEW m, m = [i \in S!Cells |-> S!counted_up(i)]
    PROVE  Counting(m)
<1>1. PICK u \in Nat \ {0} : u = UINT8
  BY RfAssumption
<1>2. PICK n \in Nat : n = CELLS /\ S!Cells = 0 .. n - 1
  BY SamplesAssumption DEF S!Cells
<1>3. \A i \in S!Cells : m[i] = S!counted_up(i)
  OBVIOUS
<1>4. \A i \in S!Cells : copy[i] \in 0 .. u - 1
  BY <1>1 DEF Counting
<1>5. m \in [S!Cells -> 0 .. UINT8 - 1]
  <2> SUFFICES ASSUME NEW i \in S!Cells PROVE S!counted_up(i) \in 0 .. u - 1
    BY <1>1
  <2>1. i \in Nat /\ copy[i] \in Nat
    BY <1>2, <1>4
  <2>2. i % u \in 0 .. u - 1 /\ (copy[i] + 1) % u \in 0 .. u - 1
    BY <2>1
  <2>3. S!counted_up(i) = i % u \/ S!counted_up(i) = (copy[i] + 1) % u
    BY <1>1 DEF S!counted_up
  <2> QED BY <2>2, <2>3
<1>6. CASE S!is_clean
  <2>1. \A i \in S!Cells : m[i] = i % u
    BY <1>1, <1>3, <1>6 DEF S!counted_up
  <2>2. ASSUME NEW i \in S!Cells PROVE m[i] = (m[0] + i) % u
    <3>1. 0 \in S!Cells
      BY <1>2, <2>2
    <3>2. m[0] = 0 /\ i \in Nat
      BY <1>2, <2>1, <3>1
    <3> QED BY <2>1, <3>2
  <2> QED BY <1>1, <1>5, <2>2 DEF Counting
<1>7. CASE ~S!is_clean
  <2>1. \A i \in S!Cells : m[i] = (copy[i] + 1) % u
    BY <1>1, <1>3, <1>7 DEF S!counted_up
  <2>2. \A i \in S!Cells : copy[i] = (copy[0] + i) % u
    BY <1>1, <1>7 DEF Counting, S!is_clean
  <2>3. ASSUME NEW i \in S!Cells PROVE m[i] = (m[0] + i) % u
    <3>1. 0 \in S!Cells
      BY <1>2, <2>3
    <3>2. PICK c \in 0 .. u - 1 : c = copy[0]
      BY <1>4, <3>1
    <3>3. i \in Nat
      BY <1>2
    <3>4. m[i] = (((c + i) % u) + 1) % u /\ m[0] = (c + 1) % u
      BY <2>1, <2>2, <3>1, <3>2
    <3>5. (((c + i) % u) + 1) % u = (c + i + 1) % u
      <4>1. c + i \in Nat
        BY <3>3
      <4> QED BY <4>1, NextRemainder
    <3>6. CASE c + 1 < u
      <4>1. (c + 1) % u = c + 1 /\ c + i + 1 = c + 1 + i
        BY <3>3, <3>6
      <4> QED BY <3>4, <3>5, <4>1
    <3>7. CASE c + 1 = u
      <4>1. (c + 1) % u = 0 /\ c + i + 1 = i + u /\ 0 + i = i
        BY <3>3, <3>7
      <4>2. (i + u) % u = i % u
        BY <3>3, NextRemainder
      <4> QED BY <3>4, <3>5, <4>1, <4>2
    <3> QED BY <3>6, <3>7
  <2> QED BY <1>1, <1>5, <2>3 DEF Counting
<1> QED BY <1>6, <1>7

\* nv_storage_demo: a write that is under way has done its first cells.
NvInv ==
    /\ sample = "nv" => mpc \in {"boot", "write", "end"}
    /\ torn \in BOOLEAN /\ done \in Nat
    /\ ~torn =>
          IF mpc = "write"
          THEN /\ Counting(copy) /\ done <= CELLS
               /\ mem = [i \in S!Cells |-> IF i < done THEN S!counted_up(i) ELSE copy[i]]
          ELSE Counting(mem)

PsaInv ==
    /\ sample = "psa" => mpc \in {S!psa_calls[i] : i \in 1 .. 8} \cup {"failed"}
    /\ sample # "psa" => ~key
    /\ mpc \in {"end", "failed"} => ~key
    /\ tests_ok \in BOOLEAN /\ failed \in BOOLEAN /\ tests_ok = ~failed

\* wdt_demo: the window that is left is longer than the delay that is left.
WdtInv ==
    sample = "wdt" =>
        /\ mpc \in {"boot", "start", "pass", "feed", "loop"} /\ ticks \in Nat /\ left \in Nat
        /\ mpc \in {"boot", "start"} => left = 0
        /\ mpc = "pass" => left = WINDOW - PAUSE + ticks
        /\ mpc \in {"feed", "loop"} => led1
        /\ (mpc = "boot" /\ reason = "wdt") => led1

SampleInv == sample \in {"nv", "psa", "wdt"} /\ NvInv /\ PsaInv /\ WdtInv

LEMMA SampleStarts == Init => SampleInv
<1> SUFFICES ASSUME S!Init PROVE SampleInv
  BY DEF Init
<1>1. /\ sample \in {"nv", "psa", "wdt"} /\ mpc = S!first_pc
      /\ mem = [i \in S!Cells |-> S!CLEAN] /\ copy = mem /\ done = 0 /\ torn = FALSE
      /\ key = FALSE /\ tests_ok = TRUE /\ failed = FALSE
      /\ left = 0 /\ ticks = 0 /\ led1 = FALSE /\ reason = "other"
  BY DEF S!Init
<1>2. Counting(mem)
  <2>1. S!CLEAN \in 0 .. UINT8 - 1
    BY RfAssumption DEF S!CLEAN
  <2> QED BY <1>1, <2>1 DEF Counting
<1>3. mpc = IF sample = "psa" THEN "init" ELSE "boot"
  BY <1>1 DEF S!first_pc
<1>4. NvInv
  BY <1>1, <1>2, <1>3 DEF NvInv
<1>5. PsaInv
  <2>1. S!psa_calls[1] = "init"
    BY DEF S!psa_calls
  <2>2. "init" \in {S!psa_calls[i] : i \in 1 .. 8}
    BY <2>1
  <2>3. tests_ok = ~failed
    BY <1>1
  <2>4. mpc \notin {"end", "failed"} /\ (sample = "psa" => mpc = "init")
    BY <1>3
  <2> QED BY <1>1, <2>2, <2>3, <2>4, Zenon DEF PsaInv
<1>6. WdtInv
  BY <1>1, <1>3 DEF WdtInv
<1> QED BY <1>1, <1>4, <1>5, <1>6 DEF SampleInv

\* The call after one of the chain is one of the chain.
LEMMA Following ==
    ASSUME NEW c \in {S!psa_calls[i] : i \in 1 .. Len(S!psa_calls) - 1}
    PROVE  S!following(c) \in {S!psa_calls[i] : i \in 1 .. 8} /\ S!following(c) # "failed"
<1>1. Len(S!psa_calls) = 8
  BY DEF S!psa_calls
<1>2. PICK n \in 1 .. 7 : c = S!psa_calls[n]
  BY <1>1
<1> DEFINE Chain == {S!psa_calls[i] : i \in 2 .. 8}
           After(x) == \E i \in 1 .. 7 : S!psa_calls[i] = c /\ S!psa_calls[i + 1] = x
<1>3. S!following(c) = CHOOSE x \in Chain : After(x)
  BY <1>1 DEF S!following
<1>4. S!psa_calls[n + 1] \in Chain /\ After(S!psa_calls[n + 1])
  <2>1. n + 1 \in 2 .. 8
    OBVIOUS
  <2> QED BY <1>2, <2>1
<1> HIDE DEF After
<1>5. S!following(c) \in Chain
  BY <1>3, <1>4, Zenon
<1>6. \A i \in 2 .. 8 : S!psa_calls[i] # "failed"
  BY DEF S!psa_calls
<1> QED BY <1>5, <1>6

LEMMA NvKeeps == ASSUME SampleInv, S!NvRead \/ S!NvWrite PROVE SampleInv'
<1>1. sample = "nv" /\ UNCHANGED <<sample, key, tests_ok, failed, left, ticks, led1, reason, boots>>
  BY DEF S!NvRead, S!NvWrite, S!psa, S!wdt
<1>2. NvInv /\ PsaInv
  BY DEF SampleInv
<1>3. NvInv'
  <2>1. CASE S!NvRead
    <3>1. mpc = "boot" /\ done' = 0 /\ UNCHANGED <<mem, torn>>
          /\ (mpc' = "end" \/ (mpc' = "write" /\ copy' = mem))
      BY <2>1 DEF S!NvRead
    <3>2. ~torn => Counting(mem)
      BY <1>2, <3>1 DEF NvInv
    <3>3. CASE mpc' = "end"
      <4>1. Counting(mem)' <=> Counting(mem)
        BY <3>1 DEF Counting, S!Cells, S!CLEAN
      <4> QED BY <1>1, <1>2, <3>1, <3>2, <3>3, <4>1 DEF NvInv
    <3>4. CASE mpc' = "write" /\ copy' = mem
      <4>1. Counting(copy)' <=> Counting(mem)
        BY <3>4 DEF Counting, S!Cells, S!CLEAN
      <4>2. ~torn => mem = [i \in S!Cells |-> IF i < 0 THEN S!counted_up(i)' ELSE copy'[i]]
        <5> SUFFICES ASSUME mem \in [S!Cells -> 0 .. UINT8 - 1]
                     PROVE  mem = [i \in S!Cells |-> IF i < 0 THEN S!counted_up(i)' ELSE copy'[i]]
          BY <3>2 DEF Counting
        <5>1. \A i \in S!Cells : ~(i < 0)
          BY SamplesAssumption DEF S!Cells
        <5> QED BY <3>4, <5>1
      <4>3. (~torn => (mem = [i \in S!Cells |-> IF i < done THEN S!counted_up(i) ELSE copy[i]])')
        BY <3>1, <4>2 DEF S!Cells
      <4>4. done' \in Nat /\ done' <= CELLS
        BY <3>1, SamplesAssumption
      <4> QED BY <1>1, <1>2, <3>1, <3>2, <3>4, <4>1, <4>3, <4>4 DEF NvInv
    <3> QED BY <3>1, <3>3, <3>4
  <2>2. CASE S!NvWrite
    <3>1. mpc = "write" /\ UNCHANGED copy
      BY <2>2 DEF S!NvWrite
    <3>2. ~torn => /\ Counting(copy) /\ done <= CELLS
                  /\ mem = [i \in S!Cells |-> IF i < done THEN S!counted_up(i) ELSE copy[i]]
      BY <1>2, <3>1 DEF NvInv
    <3>3. done \in Nat /\ CELLS \in Nat /\ torn \in BOOLEAN
      BY <1>2, SamplesAssumption DEF NvInv
    <3>4. \A i : S!counted_up(i)' = S!counted_up(i)
      BY <3>1 DEF S!counted_up, S!is_clean, S!Cells, S!CLEAN
    <3>5. CASE done < CELLS /\ mem' = [mem EXCEPT ![done] = S!counted_up(done)] /\ done' = done + 1
               /\ UNCHANGED <<mpc, torn>>
      <4>1. ASSUME ~torn
            PROVE  mem' = [i \in S!Cells |-> IF i < done' THEN S!counted_up(i)' ELSE copy'[i]]
        <5>1. mem = [i \in S!Cells |-> IF i < done THEN S!counted_up(i) ELSE copy[i]]
          BY <3>2, <4>1
        <5>2. mem' = [i \in S!Cells |-> IF i = done THEN S!counted_up(done) ELSE mem[i]]
          BY <3>5, <5>1
        <5>3. ASSUME NEW i \in S!Cells
              PROVE  (IF i = done THEN S!counted_up(done) ELSE mem[i])
                        = IF i < done' THEN S!counted_up(i)' ELSE copy'[i]
          <6>1. i \in Nat
            BY SamplesAssumption DEF S!Cells
          <6>2. i < done' <=> i = done \/ i < done
            BY <3>3, <3>5, <6>1
          <6>3. mem[i] = IF i < done THEN S!counted_up(i) ELSE copy[i]
            BY <5>1
          <6>4. ~(done < done)
            BY <3>3
          <6> QED BY ONLY <3>1, <3>4, <6>2, <6>3, <6>4
        <5> QED BY ONLY <5>2, <5>3
      <4>2. (Counting(copy) <=> Counting(copy)') /\ done' <= CELLS /\ done' \in Nat
        BY <3>1, <3>3, <3>5 DEF Counting, S!Cells, S!CLEAN
      <4>3. ~torn' => (mem = [i \in S!Cells |-> IF i < done THEN S!counted_up(i) ELSE copy[i]])'
        BY <3>5, <4>1 DEF S!Cells
      <4> QED BY <1>1, <3>1, <3>2, <3>3, <3>5, <4>2, <4>3 DEF NvInv
    <3>6. CASE mpc' = "end" /\ torn' = (torn \/ done > 0) /\ UNCHANGED <<mem, done>>
      <4>1. ASSUME ~torn' PROVE Counting(mem)'
        <5>3. ~torn /\ ~(done > 0)
          BY <3>6, <4>1, Zenon
        <5>1. ~torn /\ done = 0
          BY <3>3, <5>3
        <5>2. mem = copy
          <6>1. copy \in [S!Cells -> 0 .. UINT8 - 1] /\ \A i \in S!Cells : ~(i < 0)
            BY <3>2, <5>1, SamplesAssumption DEF Counting, S!Cells
          <6> QED BY <3>2, <5>1, <6>1
        <5> QED BY <3>1, <3>2, <3>6, <5>1, <5>2 DEF Counting, S!Cells, S!CLEAN
      <4> QED BY <1>1, <3>3, <3>6, <4>1 DEF NvInv
    <3>7. CASE done = CELLS /\ mpc' = "end" /\ UNCHANGED <<mem, done, torn>>
      <4>1. ASSUME ~torn' PROVE Counting(mem)'
        <5>1. \A i \in S!Cells : i < done
          BY <3>7, SamplesAssumption DEF S!Cells
        <5>2. mem = [i \in S!Cells |-> S!counted_up(i)]
          BY <3>2, <3>7, <4>1, <5>1
        <5>3. Counting(mem)
          BY <3>2, <3>7, <4>1, <5>2, CountsUp
        <5> QED BY <3>7, <5>3 DEF Counting, S!Cells, S!CLEAN
      <4> QED BY <1>1, <3>3, <3>7, <4>1 DEF NvInv
    <3> QED BY <2>2, <3>5, <3>6, <3>7 DEF S!NvWrite
  <2> QED BY <2>1, <2>2
<1>4. PsaInv'
  BY <1>1, <1>2 DEF PsaInv
<1>5. WdtInv'
  BY <1>1 DEF WdtInv
<1> QED BY <1>1, <1>3, <1>4, <1>5 DEF SampleInv

LEMMA PsaKeeps == ASSUME SampleInv, S!PsaCall PROVE SampleInv'
<1>1. sample = "psa" /\ UNCHANGED <<sample, mem, copy, done, torn, left, ticks, led1, reason, boots>>
  BY DEF S!PsaCall, S!nv, S!wdt
<1>2. NvInv /\ PsaInv
  BY DEF SampleInv
<1>3. mpc \in {S!psa_calls[i] : i \in 1 .. Len(S!psa_calls) - 1}
  BY DEF S!PsaCall
<1>4. PICK calls : calls = {S!psa_calls[i] : i \in 1 .. 8}
  OBVIOUS
<1>5. "end" \in calls /\ "write" \notin calls \cup {"failed"} /\ mpc \in calls
  <2>1. Len(S!psa_calls) = 8 /\ S!psa_calls[8] = "end" /\ \A i \in 1 .. 8 : S!psa_calls[i] # "write"
    BY DEF S!psa_calls
  <2> QED BY <1>3, <1>4, <2>1
<1>6. S!following(mpc) \in calls /\ S!following(mpc) # "failed"
  BY <1>3, <1>4, Following
<1>7. tests_ok \in BOOLEAN /\ failed \in BOOLEAN /\ tests_ok = ~failed
  BY <1>2 DEF PsaInv
<1>8. mpc' \in calls \cup {"failed"} /\ (mpc' \in {"end", "failed"} => ~key')
      /\ tests_ok' \in BOOLEAN /\ failed' \in BOOLEAN /\ tests_ok' = ~failed'
  <2>1. CASE /\ mpc' = S!following(mpc)
             /\ key' = (mpc' # "end" /\ (key \/ mpc = "generate_key"))
             /\ UNCHANGED <<tests_ok, failed>>
    BY <1>6, <1>7, <2>1
  <2>2. CASE /\ mpc' = IF mpc = "init" THEN "failed" ELSE "end"
             /\ key' = FALSE /\ tests_ok' = FALSE /\ failed' = TRUE
    BY <1>5, <2>2
  <2> QED BY <2>1, <2>2, Zenon DEF S!PsaCall
<1>9. PsaInv'
  BY <1>1, <1>4, <1>8 DEF PsaInv, S!psa_calls
<1>10. NvInv'
  <2>1. mpc # "write" /\ mpc' # "write"
    BY <1>5, <1>8
  <2>2. Counting(mem)' <=> Counting(mem)
    BY <1>1 DEF Counting, S!Cells, S!CLEAN
  <2> QED BY <1>1, <1>2, <2>1, <2>2 DEF NvInv
<1>11. WdtInv'
  BY <1>1 DEF WdtInv
<1> QED BY <1>1, <1>9, <1>10, <1>11 DEF SampleInv

LEMMA WdtKeeps == ASSUME SampleInv, S!WdtStep \/ S!Second PROVE SampleInv'
<1>1. sample = "wdt" /\ UNCHANGED <<sample, mem, copy, done, torn, key, tests_ok, failed>>
  BY DEF S!WdtStep, S!Second, S!nv, S!psa
<1>2. /\ NvInv /\ PsaInv
      /\ mpc \in {"boot", "start", "pass", "feed", "loop"} /\ ticks \in Nat /\ left \in Nat
      /\ mpc \in {"boot", "start"} => left = 0
      /\ mpc = "pass" => left = WINDOW - PAUSE + ticks
      /\ mpc \in {"feed", "loop"} => led1
      /\ (mpc = "boot" /\ reason = "wdt") => led1
  BY <1>1 DEF SampleInv, WdtInv
<1>3. WINDOW \in Nat /\ PAUSE \in Nat /\ PAUSE < WINDOW
  BY SamplesAssumption
<1>4. /\ mpc' \in {"boot", "start", "pass", "feed", "loop"} /\ ticks' \in Nat /\ left' \in Nat
      /\ mpc' \in {"boot", "start"} => left' = 0
      /\ mpc' = "pass" => left' = WINDOW - PAUSE + ticks'
      /\ mpc' \in {"feed", "loop"} => led1'
      /\ (mpc' = "boot" /\ reason' = "wdt") => led1'
  <2>1. CASE S!WdtStep
    <3>1. CASE mpc = "boot" /\ mpc' = "start" /\ led1' = FALSE /\ ticks' = PAUSE /\ UNCHANGED left
      BY <1>2, <1>3, <3>1
    <3>2. CASE mpc = "start" /\ ticks = 0 /\ mpc' = "pass" /\ left' = WINDOW /\ ticks' = PAUSE /\ UNCHANGED led1
      BY <1>2, <1>3, <3>2
    <3>3. CASE mpc = "pass" /\ ticks = 0 /\ mpc' = "feed" /\ led1' = TRUE /\ UNCHANGED <<left, ticks>>
      BY <1>2, <3>3
    <3>4. CASE mpc = "feed" /\ mpc' = "loop" /\ left' = WINDOW /\ UNCHANGED <<led1, ticks>>
      BY <1>2, <1>3, <3>4
    <3> QED BY <2>1, <3>1, <3>2, <3>3, <3>4 DEF S!WdtStep
  <2>2. CASE S!Second
    <3>1. /\ mpc = "loop" \/ ticks > 0
          /\ ticks' = IF ticks > 0 THEN ticks - 1 ELSE 0
          /\ UNCHANGED led1
      BY <2>2 DEF S!Second
    <3>2. ticks' \in Nat
      BY <1>2, <3>1
    <3>3. CASE left = 1
      <4>1. mpc' = "boot" /\ reason' = "wdt" /\ left' = 0
        BY <2>2, <3>3 DEF S!Second
      <4>2. mpc # "pass"
        BY <1>2, <1>3, <3>1, <3>3
      <4>3. mpc \in {"feed", "loop"}
        BY <1>2, <3>3, <4>2
      <4>4. led1'
        BY <1>2, <3>1, <4>3
      <4> QED BY <3>2, <4>1, <4>4
    <3>4. CASE left # 1
      <4>1. left' = (IF left > 0 THEN left - 1 ELSE 0) /\ UNCHANGED <<mpc, reason>>
        BY <2>2, <3>4 DEF S!Second
      <4>2. left' \in Nat
        BY <1>2, <4>1
      <4>3. mpc = "pass" => left' = WINDOW - PAUSE + ticks'
        BY <1>2, <1>3, <3>1, <4>1
      <4> QED BY <1>2, <3>1, <3>2, <4>1, <4>2, <4>3
    <3> QED BY <3>3, <3>4
  <2> QED BY <2>1, <2>2
<1>5. WdtInv'
  BY <1>4 DEF WdtInv
<1>6. NvInv'
  <2>1. Counting(mem)' <=> Counting(mem)
    BY <1>1 DEF Counting, S!Cells, S!CLEAN
  <2>2. mpc # "write" /\ mpc' # "write"
    BY <1>2, <1>4
  <2> QED BY <1>1, <1>2, <2>1, <2>2 DEF NvInv
<1>7. PsaInv'
  BY <1>1, <1>2, <1>4 DEF PsaInv
<1> QED BY <1>1, <1>5, <1>6, <1>7 DEF SampleInv

\* Between two writes, or after the last, the flash holds such a content.
LEMMA WrittenWhole ==
    ASSUME SampleInv, ~torn, ~(mpc = "write" /\ done \in 1 .. CELLS - 1)
    PROVE  Counting(mem)
<1>1. NvInv
  BY DEF SampleInv
<1>2. CASE mpc # "write"
  BY <1>1, <1>2 DEF NvInv
<1>3. CASE mpc = "write"
  <2>1. /\ Counting(copy) /\ done <= CELLS /\ done \in Nat
        /\ mem = [i \in S!Cells |-> IF i < done THEN S!counted_up(i) ELSE copy[i]]
    BY <1>1, <1>3 DEF NvInv
  <2>2. PICK n \in Nat : n = CELLS /\ S!Cells = 0 .. n - 1
    BY SamplesAssumption DEF S!Cells
  <2>3. done = 0 \/ done = n
    BY <1>3, <2>1, <2>2
  <2>4. CASE done = 0
    <3>1. copy \in [S!Cells -> 0 .. UINT8 - 1] /\ \A i \in S!Cells : ~(i < 0)
      BY <2>1, <2>2 DEF Counting
    <3>2. mem = copy
      BY <2>1, <2>4, <3>1
    <3> QED BY <2>1, <3>2
  <2>5. CASE done = n
    <3>1. \A i \in S!Cells : i < done
      BY <2>2, <2>5
    <3>2. mem = [i \in S!Cells |-> S!counted_up(i)]
      BY <2>1, <3>1
    <3> QED BY <2>1, <3>2, CountsUp
  <2> QED BY <2>3, <2>4, <2>5
<1> QED BY <1>2, <1>3

LEMMA SampleResetKeeps == ASSUME SampleInv, S!Reset PROVE SampleInv'
<1>1. /\ mpc' = IF sample = "psa" THEN "init" ELSE "boot"
      /\ reason' = "other"
      /\ torn' = (torn \/ (sample = "nv" /\ mpc = "write" /\ done \in 1 .. CELLS - 1))
      /\ left' = 0 /\ ticks' = 0 /\ key' = FALSE /\ tests_ok' = TRUE /\ failed' = FALSE
      /\ UNCHANGED <<sample, mem, copy, done, led1>>
  BY DEF S!Reset, S!first_pc
<1>2. NvInv /\ sample \in {"nv", "psa", "wdt"}
  BY DEF SampleInv
<1>3. ASSUME ~torn' PROVE Counting(mem)
  <2>1. ~torn /\ ~(sample = "nv" /\ mpc = "write" /\ done \in 1 .. CELLS - 1)
    BY <1>1, <1>3, Zenon
  <2>2. ~(mpc = "write" /\ done \in 1 .. CELLS - 1)
    <3> SUFFICES ASSUME mpc = "write" PROVE sample = "nv"
      BY <2>1
    <3>1. sample # "psa"
      <4> SUFFICES ASSUME sample = "psa" PROVE FALSE
        OBVIOUS
      <4>1. mpc \in {S!psa_calls[i] : i \in 1 .. 8} \cup {"failed"}
        BY DEF SampleInv, PsaInv
      <4>2. \A i \in 1 .. 8 : S!psa_calls[i] # "write"
        BY DEF S!psa_calls
      <4> QED BY <4>1, <4>2
    <3>2. sample # "wdt"
      BY DEF SampleInv, WdtInv
    <3> QED BY <1>2, <3>1, <3>2
  <2> QED BY <2>1, <2>2, WrittenWhole
<1>4. NvInv'
  <2>1. Counting(mem)' <=> Counting(mem)
    BY <1>1 DEF Counting, S!Cells, S!CLEAN
  <2>2. torn' \in BOOLEAN /\ done' \in Nat
    BY <1>1, <1>2 DEF NvInv
  <2> QED BY <1>1, <1>2, <1>3, <2>1, <2>2 DEF NvInv
<1>5. PsaInv'
  <2>1. "init" \in {S!psa_calls[i] : i \in 1 .. 8}
    <3>1. S!psa_calls[1] = "init"
      BY DEF S!psa_calls
    <3> QED BY <3>1
  <2>2. tests_ok' = ~failed' /\ mpc' \notin {"end", "failed"} /\ (sample' = "psa" => mpc' = "init") /\ ~key'
        /\ tests_ok' \in BOOLEAN /\ failed' \in BOOLEAN
    BY <1>1
  <2> QED BY <2>1, <2>2 DEF PsaInv, S!psa_calls
<1>6. WdtInv'
  BY <1>1 DEF WdtInv
<1> QED BY <1>1, <1>2, <1>4, <1>5, <1>6 DEF SampleInv

LEMMA SampleKeeps == SampleInv /\ [Next]_vars => SampleInv'
<1> SUFFICES ASSUME SampleInv, [Next]_vars PROVE SampleInv'
  OBVIOUS
<1>1. CASE S!NvRead \/ S!NvWrite
  BY <1>1, NvKeeps
<1>2. CASE S!PsaCall
  BY <1>2, PsaKeeps
<1>3. CASE S!WdtStep \/ S!Second
  BY <1>3, WdtKeeps
<1>4. CASE S!Reset
  BY <1>4, SampleResetKeeps
<1>5. CASE S!Over \/ UNCHANGED sample_vars
  <2>1. UNCHANGED sample_vars
    BY <1>5 DEF S!Over, S!svars, sample_vars
  <2>2. Counting(mem)' <=> Counting(mem)
    BY <2>1 DEF sample_vars, Counting, S!Cells, S!CLEAN
  <2>3. Counting(copy)' <=> Counting(copy)
    BY <2>1 DEF sample_vars, Counting, S!Cells, S!CLEAN
  <2>4. \A i : S!counted_up(i)' = S!counted_up(i)
    BY <2>1 DEF sample_vars, S!counted_up, S!is_clean, S!Cells, S!CLEAN
  <2>5. (mem = [i \in S!Cells |-> IF i < done THEN S!counted_up(i) ELSE copy[i]])'
           <=> mem = [i \in S!Cells |-> IF i < done THEN S!counted_up(i) ELSE copy[i]]
    BY <2>1 DEF sample_vars, S!counted_up, S!is_clean, S!Cells, S!CLEAN
  <2>6. UNCHANGED <<sample, mpc, done, torn, key, tests_ok, failed, left, ticks, led1, reason>>
    BY <2>1 DEF sample_vars
  <2>7. NvInv'
    BY <2>2, <2>3, <2>5, <2>6, Zenon DEF SampleInv, NvInv
  <2>8. PsaInv' /\ WdtInv'
    BY <2>6 DEF SampleInv, PsaInv, WdtInv, S!psa_calls
  <2> QED BY <2>6, <2>7, <2>8 DEF SampleInv
<1> QED BY <1>1, <1>2, <1>3, <1>4, <1>5, SampleMoves DEF S!Next

LEMMA SamplesTrue == SampleInv => S!SamplesShow
<1> SUFFICES ASSUME SampleInv PROVE S!SamplesShow
  OBVIOUS
<1>1. (~torn /\ ~(mpc = "write" /\ done \in 1 .. CELLS - 1)) =>
          \/ \A i \in S!Cells : mem[i] = S!CLEAN
          \/ \A i \in S!Cells : mem[i] = (mem[0] + i) % UINT8
  BY WrittenWhole, Zenon DEF Counting
<1>2. PsaInv /\ WdtInv
  BY DEF SampleInv
<1>3. mpc \in {"end", "failed"} => ~key
  BY <1>2 DEF PsaInv
<1>4. tests_ok = ~failed
  BY <1>2 DEF PsaInv
<1>5. (sample = "wdt" /\ mpc = "boot" /\ reason = "wdt") => led1
  BY <1>2 DEF WdtInv
<1> QED BY <1>1, <1>3, <1>4, <1>5, Zenon DEF S!SamplesShow

LEMMA BusTrue == BusInv => B!ReportsTrue
BY DEF BusInv, RtcInv, B!ReportsTrue

-----------------------------------------------------------------------------
(* The controls. *)

Byte == 0 .. 255

ControlInv ==
    /\ setting \in [{1, 2} -> [1 .. 2 -> Byte]]
    /\ mute_state = (setting[1][1] # 0)
    /\ volume_cur = C!int16(setting[2])

LEMMA ControlStarts == Init => ControlInv
<1> SUFFICES ASSUME C!Init PROVE ControlInv
  BY DEF Init
<1>1. setting = [c \in {1, 2} |-> <<0, 0>>] /\ mute_state = FALSE /\ volume_cur = 0
  BY DEF C!Init, C!MUTE, C!VOLUME
<1>2. <<0, 0>> \in [1 .. 2 -> Byte] /\ <<0, 0>>[1] = 0 /\ <<0, 0>>[2] = 0
  BY DEF Byte
<1>3. C!int16(setting[2]) = 0
  BY <1>1, <1>2 DEF C!int16
<1> QED BY <1>1, <1>2, <1>3 DEF ControlInv

LEMMA ControlKeeps == ControlInv /\ [Next]_vars => ControlInv'
<1> SUFFICES ASSUME ControlInv, [Next]_vars PROVE ControlInv'
  OBVIOUS
<1>1. CASE UNCHANGED <<mute_state, volume_cur, setting>>
  BY <1>1 DEF ControlInv, C!int16
<1>2. CASE C!Set
  <2>1. PICK d \in HostData :
          IF C!accepts(request')
          THEN /\ mute_state' = IF request'.ctrl = C!MUTE THEN d[1] # 0 ELSE mute_state
               /\ volume_cur' = IF request'.ctrl = C!VOLUME THEN C!int16(d) ELSE volume_cur
               /\ setting' = [setting EXCEPT ![request'.ctrl] = d]
               /\ answer' = d
          ELSE answer' = C!STALL /\ UNCHANGED <<mute_state, volume_cur, setting>>
    BY <1>2 DEF C!Set
  <2>2. CASE C!accepts(request')
    <3>1. PICK c \in {1, 2} : c = request'.ctrl
      BY <2>2 DEF C!accepts, C!MUTE, C!VOLUME
    <3>2. /\ mute_state' = IF c = 1 THEN d[1] # 0 ELSE mute_state
          /\ volume_cur' = IF c = 2 THEN C!int16(d) ELSE volume_cur
          /\ setting' = [setting EXCEPT ![c] = d]
      BY <2>1, <2>2, <3>1 DEF C!MUTE, C!VOLUME
    <3>3. d \in [1 .. 2 -> Byte]
      BY ControlAssumption DEF Byte
    <3>4. setting' \in [{1, 2} -> [1 .. 2 -> Byte]]
      BY <3>2, <3>3 DEF ControlInv
    <3>5. CASE c = 1
      <4>1. setting'[1] = d /\ setting'[2] = setting[2]
        BY <3>2, <3>5 DEF ControlInv
      <4>2. mute_state' = (d[1] # 0) /\ volume_cur' = volume_cur
        BY <3>2, <3>5
      <4> QED BY <3>4, <4>1, <4>2 DEF ControlInv, C!int16
    <3>6. CASE c = 2
      <4>1. setting'[2] = d /\ setting'[1] = setting[1]
        BY <3>2, <3>6 DEF ControlInv
      <4>2. mute_state' = mute_state /\ volume_cur' = C!int16(d)
        BY <3>2, <3>6
      <4> QED BY <3>4, <4>1, <4>2 DEF ControlInv, C!int16
    <3> QED BY <3>1, <3>5, <3>6
  <2>3. CASE ~C!accepts(request')
    BY <1>1, <2>1, <2>3
  <2> QED BY <2>2, <2>3
<1> QED BY <1>1, <1>2, ControlMoves DEF C!Next, C!Get, control_vars
LEMMA Fields ==
    ASSUME NEW v \in Int
    PROVE  /\ C!bytes(v, 1) = <<v % 256>>
           /\ C!bytes(v, 2) \in [1 .. 2 -> Int]
           /\ C!bytes(v, 2)[1] = v % 256 /\ C!bytes(v, 2)[2] = (v \div 256) % 256
<1>1. 256 ^ 0 = 1 /\ 256 ^ 1 = 256 /\ 1 - 1 = 0 /\ 2 - 1 = 1 /\ v \div 1 = v
  OBVIOUS
<1>2. (v \div 256 ^ (1 - 1)) % 256 = v % 256 /\ (v \div 256 ^ (2 - 1)) % 256 = (v \div 256) % 256
  BY ONLY <1>1, Zenon
<1>3. 1 \in 1 .. 1 /\ 1 \in 1 .. 2 /\ 2 \in 1 .. 2 /\ (\A i \in 1 .. 1 : i = 1) /\ \A i \in 1 .. 2 : i = 1 \/ i = 2
  OBVIOUS
<1>4. C!bytes(v, 1)[1] = v % 256
  BY <1>2, <1>3, Zenon DEF C!bytes
<1>5. C!bytes(v, 2)[1] = v % 256 /\ C!bytes(v, 2)[2] = (v \div 256) % 256
  BY <1>2, <1>3, Zenon DEF C!bytes
<1>6. v % 256 \in Int /\ (v \div 256) % 256 \in Int
  OBVIOUS
<1>7. C!bytes(v, 2) \in [1 .. 2 -> Int]
  <2>1. \A i \in 1 .. 2 : (v \div 256 ^ (i - 1)) % 256 \in Int
    BY ONLY <1>2, <1>3, <1>6, Zenon
  <2> QED BY <2>1, Zenon DEF C!bytes
<1>8. C!bytes(v, 1) = <<v % 256>>
  <2>1. C!bytes(v, 1) = [i \in 1 .. 1 |-> v % 256]
    <3>1. \A i \in 1 .. 1 : (v \div 256 ^ (i - 1)) % 256 = v % 256
      BY ONLY <1>2, <1>3, Zenon
    <3> QED BY <3>1, Zenon DEF C!bytes
  <2> QED BY <1>6, <2>1
<1> QED BY <1>5, <1>7, <1>8

\* A range block is four fields after one another; concatenation as a name,
\* which the provers do not look into.
Join(s, t) == s \o t

LEMMA JoinsField ==
    ASSUME NEW s \in Seq(Int), NEW t \in Seq(Int), Len(t) = 2
    PROVE  /\ Join(s, t) \in Seq(Int) /\ Len(Join(s, t)) = Len(s) + 2
           /\ \A i \in 1 .. Len(s) : Join(s, t)[i] = s[i]
           /\ Join(s, t)[Len(s) + 1] = t[1] /\ Join(s, t)[Len(s) + 2] = t[2]
<1> DEFINE j == s \o t
<1>1. /\ j \in Seq(Int) /\ Len(j) = Len(s) + Len(t)
      /\ \A i \in 1 .. Len(s) + Len(t) : j[i] = IF i <= Len(s) THEN s[i] ELSE t[i - Len(s)]
  BY ConcatProperties
<1>2. j = Join(s, t)
  BY DEF Join
<1> HIDE DEF j
<1>3. PICK n \in Nat : n = Len(s)
  OBVIOUS
<1>4. \A i \in 1 .. n : j[i] = s[i]
  BY <1>1, <1>3
<1>5. j[n + 1] = t[1]
  <2>1. n + 1 \in 1 .. n + 2 /\ ~(n + 1 <= n) /\ n + 1 - n = 1
    OBVIOUS
  <2> QED BY <1>1, <1>3, <2>1
<1>6. j[n + 2] = t[2]
  <2>1. n + 2 \in 1 .. n + 2 /\ ~(n + 2 <= n) /\ n + 2 - n = 2
    OBVIOUS
  <2> QED BY <1>1, <1>3, <2>1
<1> QED BY <1>1, <1>2, <1>3, <1>4, <1>5, <1>6

HasFields(r, b, c) ==
    /\ SubSeq(r, 3, 4)[1] = b[1] /\ SubSeq(r, 3, 4)[2] = b[2]
    /\ SubSeq(r, 5, 6)[1] = c[1] /\ SubSeq(r, 5, 6)[2] = c[2]

LEMMA BlockParts ==
    ASSUME NEW a \in Seq(Int), NEW b \in Seq(Int), NEW c \in Seq(Int), NEW d \in Seq(Int),
           Len(a) = 2, Len(b) = 2, Len(c) = 2, Len(d) = 2
    PROVE  HasFields(Join(Join(Join(a, b), c), d), b, c)
<1> DEFINE r == Join(Join(Join(a, b), c), d)
<1> HIDE DEF r
<1>1. PICK p : p = Join(a, b)
  OBVIOUS
<1>2. PICK q : q = Join(p, c)
  OBVIOUS
<1>3. r = Join(q, d)
  BY <1>1, <1>2, Zenon DEF r
<1>4. p \in Seq(Int) /\ Len(p) = 4 /\ p[3] = b[1] /\ p[4] = b[2]
  <2>1. /\ p \in Seq(Int) /\ Len(p) = Len(a) + 2
        /\ p[Len(a) + 1] = b[1] /\ p[Len(a) + 2] = b[2]
    BY <1>1, JoinsField, Zenon
  <2> QED BY <2>1
<1>5. q \in Seq(Int) /\ Len(q) = 6 /\ q[3] = b[1] /\ q[4] = b[2] /\ q[5] = c[1] /\ q[6] = c[2]
  <2>1. /\ q \in Seq(Int) /\ Len(q) = Len(p) + 2 /\ \A i \in 1 .. Len(p) : q[i] = p[i]
        /\ q[Len(p) + 1] = c[1] /\ q[Len(p) + 2] = c[2]
    BY <1>2, <1>4, JoinsField, Zenon
  <2> QED BY <1>4, <2>1
<1>8. /\ r \in Seq(Int) /\ Len(r) = 8
      /\ r[3] = b[1] /\ r[4] = b[2] /\ r[5] = c[1] /\ r[6] = c[2]
  <2>1. q \in Seq(Int) /\ d \in Seq(Int) /\ Len(d) = 2 /\ Len(q) = 6
    BY <1>5
  <2>2. Join(q, d) \in Seq(Int) /\ Len(Join(q, d)) = Len(q) + 2 /\ \A i \in 1 .. Len(q) : Join(q, d)[i] = q[i]
    BY <2>1, JoinsField, Zenon
  <2>3. Len(r) = 8 /\ \A i \in 1 .. 6 : r[i] = q[i]
    BY <1>3, <2>1, <2>2
  <2> QED BY <1>3, <1>5, <2>2, <2>3
<1>9. \A i \in 3 .. 6 : r[i] \in Int
  <2>1. r \in [1 .. Len(r) -> Int]
    BY <1>8, LenProperties
  <2> QED BY <1>8, <2>1
<1>6. SubSeq(r, 3, 4)[1] = r[3] /\ SubSeq(r, 3, 4)[2] = r[4]
  <2>1. \A i \in 1 .. 4 - 3 + 1 : SubSeq(r, 3, 4)[i] = r[3 + i - 1]
    BY <1>9, SubSeqProperties
  <2> QED BY <2>1
<1>7. SubSeq(r, 5, 6)[1] = r[5] /\ SubSeq(r, 5, 6)[2] = r[6]
  <2>1. \A i \in 1 .. 6 - 5 + 1 : SubSeq(r, 5, 6)[i] = r[5 + i - 1]
    BY <1>9, SubSeqProperties
  <2> QED BY <2>1
<1>10. HasFields(r, b, c)
  BY <1>6, <1>7, <1>8 DEF HasFields
<1> QED BY <1>10, Zenon DEF r

\* What was stored reads back, though it is kept as a signed number.
LEMMA Signed ==
    ASSUME NEW d \in [1 .. 2 -> Byte]
    PROVE  /\ C!int16(d) \in Int /\ -128 * 256 <= C!int16(d) /\ C!int16(d) < 128 * 256
           /\ C!bytes(C!int16(d), 2) = d
<1>1. d[1] \in 0 .. 255 /\ d[2] \in 0 .. 255
  BY DEF Byte
<1>2. PICK x \in 0 .. 255 : x = d[1]
  BY <1>1
<1>3. PICK y \in 0 .. 255 : y = d[2]
  BY <1>1
<1>4. PICK v : v = C!int16(d)
  OBVIOUS
<1>5. v = IF x + 256 * y < 32768 THEN x + 256 * y ELSE x + 256 * y - 65536
  BY <1>2, <1>3, <1>4 DEF C!int16
<1>6. v \in Int /\ -32768 <= v /\ v <= 32767 /\ v % 256 = x /\ (v \div 256) % 256 = y
  <2>1. CASE x + 256 * y < 32768
    <3>1. v = x + 256 * y
      BY <1>5, <2>1
    <3>2. v \div 256 = y /\ v % 256 = x /\ y % 256 = y
      BY ONLY <3>1, x \in 0 .. 255, y \in 0 .. 255
    <3>3. v \in Int /\ -32768 <= v /\ v <= 32767
      BY ONLY <3>1, <2>1, x \in 0 .. 255, y \in 0 .. 255
    <3> QED BY <3>2, <3>3
  <2>2. CASE ~(x + 256 * y < 32768)
    <3>1. v = x + 256 * y - 65536
      BY <1>5, <2>2
    <3>2. v \in Int /\ -32768 <= v /\ v <= 32767
      BY ONLY <2>2, <3>1, x \in 0 .. 255, y \in 0 .. 255
    <3>3. v = x + 256 * (y - 256)
      BY ONLY <3>1, x \in 0 .. 255, y \in 0 .. 255
    <3>4. v \div 256 = y - 256 /\ v % 256 = x
      BY ONLY <3>3, v \in Int, x \in 0 .. 255, y \in 0 .. 255
    <3>5. (y - 256) % 256 = y
      BY ONLY y \in 0 .. 255
    <3> QED BY <3>2, <3>4, <3>5
  <2> QED BY <2>1, <2>2
<1>7. C!bytes(v, 2) \in [1 .. 2 -> Int] /\ C!bytes(v, 2)[1] = x /\ C!bytes(v, 2)[2] = y
  <2>1. v \in Int /\ v % 256 = x /\ (v \div 256) % 256 = y
    BY <1>6
  <2> QED BY <2>1, Fields, Zenon
<1>8. \A i \in 1 .. 2 : C!bytes(v, 2)[i] = d[i]
  BY <1>2, <1>3, <1>7
<1>9. C!bytes(v, 2) = d
  BY <1>7, <1>8
<1> QED BY <1>4, <1>6, <1>9

Fu(c, k) == C!get_req_entity_cb([entity |-> "feature_unit", ctrl |-> c, kind |-> k])
Clk(c, k) == C!get_req_entity_cb([entity |-> "clock", ctrl |-> c, kind |-> k])

LEMMA AnswerParts ==
    /\ Fu(1, "CUR") = C!bytes(IF mute_state THEN 1 ELSE 0, 1)
    /\ Fu(2, "CUR") = C!bytes(volume_cur, 2)
    /\ Fu(2, "RANGE") = C!range_block(2, C!volume_min, C!volume_max, C!volume_res)
    /\ Clk(1, "CUR") = C!bytes(SAMPLE_RATE, 4)
    /\ Clk(1, "RANGE") = C!range_block(4, SAMPLE_RATE, SAMPLE_RATE, 0)
<1>1. \A r : /\ r.entity = "feature_unit" => C!get_req_entity_cb(r) = C!feature_answer(r)
             /\ r.entity = "clock" => C!get_req_entity_cb(r) = C!clock_answer(r)
  BY DEF C!get_req_entity_cb
<1>2. /\ Fu(1, "CUR") = C!feature_answer([entity |-> "feature_unit", ctrl |-> 1, kind |-> "CUR"])
      /\ Fu(2, "CUR") = C!feature_answer([entity |-> "feature_unit", ctrl |-> 2, kind |-> "CUR"])
      /\ Fu(2, "RANGE") = C!feature_answer([entity |-> "feature_unit", ctrl |-> 2, kind |-> "RANGE"])
      /\ Clk(1, "CUR") = C!clock_answer([entity |-> "clock", ctrl |-> 1, kind |-> "CUR"])
      /\ Clk(1, "RANGE") = C!clock_answer([entity |-> "clock", ctrl |-> 1, kind |-> "RANGE"])
  BY <1>1 DEF Fu, Clk
<1>3. \A r : /\ (r.ctrl = 1 /\ r.kind = "CUR") => C!feature_answer(r) = C!bytes(IF mute_state THEN 1 ELSE 0, 1)
             /\ (r.ctrl = 2 /\ r.kind = "CUR") => C!feature_answer(r) = C!bytes(volume_cur, 2)
             /\ (r.ctrl = 2 /\ r.kind = "RANGE") =>
                    C!feature_answer(r) = C!range_block(2, C!volume_min, C!volume_max, C!volume_res)
  BY DEF C!feature_answer, C!MUTE, C!VOLUME
<1>4. \A r : /\ (r.ctrl = 1 /\ r.kind = "CUR") => C!clock_answer(r) = C!bytes(SAMPLE_RATE, 4)
             /\ (r.ctrl = 1 /\ r.kind = "RANGE") =>
                    C!clock_answer(r) = C!range_block(4, SAMPLE_RATE, SAMPLE_RATE, 0)
  BY DEF C!clock_answer, C!SAM_FREQ, C!CLK_VALID
<1> QED BY <1>2, <1>3, <1>4

\* The same block of named fields.
LEMMA RangeBlock ==
    ASSUME NEW w, NEW min, NEW max, NEW res
    PROVE  C!range_block(w, min, max, res) =
               Join(Join(Join(C!bytes(1, 2), C!bytes(min, w)), C!bytes(max, w)), C!bytes(res, w))
BY Zenon DEF C!range_block, Join

LEMMA ControlTrue == ControlInv => C!AnswersMatch
<1> SUFFICES ASSUME ControlInv PROVE C!AnswersMatch
  OBVIOUS
<1>1. setting[2] \in [1 .. 2 -> Byte] /\ setting[1][1] \in Byte /\ volume_cur = C!int16(setting[2])
      /\ mute_state = (setting[1][1] # 0)
  BY DEF ControlInv
<1>2. Fu(2, "CUR") = setting[2] /\ -128 * 256 <= volume_cur /\ volume_cur < 128 * 256
  <2>1. volume_cur = C!int16(setting[2])
    BY <1>1
  <2>2. /\ volume_cur \in Int /\ -128 * 256 <= volume_cur /\ volume_cur < 128 * 256
        /\ C!bytes(volume_cur, 2) = setting[2]
    BY <1>1, <2>1, Signed
  <2> QED BY <2>2, AnswerParts
<1>3. Fu(1, "CUR") = <<IF setting[1][1] = 0 THEN 0 ELSE 1>>
  <2>1. PICK f \in {0, 1} : f = IF setting[1][1] = 0 THEN 0 ELSE 1
    OBVIOUS
  <2>2. f = IF mute_state THEN 1 ELSE 0
    BY <1>1, <2>1
  <2>3. C!bytes(f, 1) = <<f>>
    BY Fields
  <2> QED BY <2>1, <2>2, <2>3, AnswerParts
<1>4. C!int16(SubSeq(Fu(2, "RANGE"), 3, 4)) = C!volume_min /\ C!int16(SubSeq(Fu(2, "RANGE"), 5, 6)) = C!volume_max
  <2>1. PICK m, r, a, b, c, d :
            /\ m = C!volume_min /\ r = Fu(2, "RANGE")
            /\ a = C!bytes(1, 2) /\ b = C!bytes(m, 2) /\ c = C!bytes(0, 2) /\ d = C!bytes(256, 2)
    OBVIOUS
  <2>2. m \in Int /\ m % 256 = 0 /\ (m \div 256) % 256 = 166
    <3>1. PICK n \in Int : n = -90
      OBVIOUS
    <3>2. m \in Int /\ m \div 256 = n /\ m % 256 = 0
      BY <2>1, <3>1 DEF C!volume_min
    <3>3. n + 90 = 0
      BY <3>1
    <3>4. n % 256 = 166
      BY ONLY n \in Int, <3>3
    <3> QED BY <3>2, <3>4
  <2>3. ASSUME NEW v \in Int PROVE C!bytes(v, 2) \in Seq(Int) /\ Len(C!bytes(v, 2)) = 2
    <3>1. PICK f \in [1 .. 2 -> Int] : f = C!bytes(v, 2)
      BY Fields
    <3>2. PICK n \in Nat : n = 2
      OBVIOUS
    <3>3. f \in [1 .. n -> Int]
      BY <3>2
    <3>4. f \in Seq(Int) /\ Len(f) = n
      BY ONLY <3>3, n \in Nat
    <3> QED BY <3>1, <3>2, <3>4
  <2>4. /\ a \in Seq(Int) /\ b \in Seq(Int) /\ c \in Seq(Int) /\ d \in Seq(Int)
        /\ Len(a) = 2 /\ Len(b) = 2 /\ Len(c) = 2 /\ Len(d) = 2
    <3>1. a \in Seq(Int) /\ Len(a) = 2
      BY <2>1, <2>3
    <3>2. b \in Seq(Int) /\ Len(b) = 2
      BY <2>1, <2>2, <2>3
    <3>3. c \in Seq(Int) /\ Len(c) = 2
      BY <2>1, <2>3
    <3>4. d \in Seq(Int) /\ Len(d) = 2
      BY <2>1, <2>3
    <3> QED BY <3>1, <3>2, <3>3, <3>4
  <2>5. b[1] = 0 /\ b[2] = 166
    <3>1. b[1] = m % 256 /\ b[2] = (m \div 256) % 256
      BY <2>1, <2>2, Fields
    <3> QED BY <2>2, <3>1
  <2>6. c[1] = 0 /\ c[2] = 0
    <3>1. c[1] = 0 % 256 /\ c[2] = (0 \div 256) % 256
      BY <2>1, Fields
    <3> QED BY <3>1
  <2>7. r = Join(Join(Join(a, b), c), d)
    <3>1. C!volume_max = 0 /\ C!volume_res = 256
      BY DEF C!volume_max, C!volume_res
    <3> QED BY <2>1, <3>1, AnswerParts, RangeBlock
  <2>8. HasFields(r, b, c)
    BY <2>4, <2>7, BlockParts, Zenon
  <2>9. ASSUME NEW s, s[1] = 0, s[2] = 166 PROVE C!int16(s) = C!volume_min
    <3>1. C!volume_min = 0 + 256 * 166 - 65536 /\ ~(0 + 256 * 166 < 32768)
      BY DEF C!volume_min
    <3> QED BY <2>9, <3>1 DEF C!int16
  <2>10. ASSUME NEW s, s[1] = 0, s[2] = 0 PROVE C!int16(s) = C!volume_max
    BY <2>10 DEF C!int16, C!volume_max
  <2>11. C!int16(SubSeq(r, 3, 4)) = C!volume_min
    BY <2>5, <2>8, <2>9 DEF HasFields
  <2>12. C!int16(SubSeq(r, 5, 6)) = C!volume_max
    BY <2>6, <2>8, <2>10 DEF HasFields
  <2> QED BY <2>1, <2>11, <2>12
<1>5. Clk(1, "RANGE") = <<1, 0>> \o Clk(1, "CUR") \o Clk(1, "CUR") \o <<0, 0, 0, 0>>
  <2>1. C!bytes(1, 2) = <<1, 0>>
    <3>1. 1 % 256 = 1 /\ (1 \div 256) % 256 = 0
      OBVIOUS
    <3>2. C!bytes(1, 2) \in [1 .. 2 -> Int] /\ C!bytes(1, 2)[1] = 1 /\ C!bytes(1, 2)[2] = 0
      BY <3>1, Fields
    <3> QED BY <3>2
  <2>2. C!bytes(0, 4) = <<0, 0, 0, 0>>
    <3>1. C!bytes(0, 4) = [i \in 1 .. 4 |-> 0]
      <4>1. 256 ^ 0 \in Nat \ {0} /\ 256 ^ 1 \in Nat \ {0} /\ 256 ^ 2 \in Nat \ {0} /\ 256 ^ 3 \in Nat \ {0}
        OBVIOUS
      <4>2. \A i \in 1 .. 4 : i - 1 = 0 \/ i - 1 = 1 \/ i - 1 = 2 \/ i - 1 = 3
        OBVIOUS
      <4>3. \A i \in 1 .. 4 : 256 ^ (i - 1) \in Nat \ {0}
        BY ONLY <4>1, <4>2, Zenon
      <4>4. \A i \in 1 .. 4 : (0 \div 256 ^ (i - 1)) % 256 = 0
        <5> SUFFICES ASSUME NEW i \in 1 .. 4 PROVE (0 \div 256 ^ (i - 1)) % 256 = 0
          OBVIOUS
        <5>1. PICK p : p = 256 ^ (i - 1)
          OBVIOUS
        <5>2. p \in Nat \ {0}
          BY <4>3, <5>1, Zenon
        <5>3. 0 \div p = 0 /\ 0 % 256 = 0
          BY ONLY <5>2
        <5> QED BY <5>1, <5>3
      <4> QED BY <4>4, Zenon DEF C!bytes
    <3> QED BY <3>1
  <2>3. C!range_block(4, SAMPLE_RATE, SAMPLE_RATE, 0) =
            C!bytes(1, 2) \o C!bytes(SAMPLE_RATE, 4) \o C!bytes(SAMPLE_RATE, 4) \o C!bytes(0, 4)
    BY Zenon DEF C!range_block
  <2> QED BY <2>1, <2>2, <2>3, AnswerParts, Zenon
<1>6. C!MUTE = 1 /\ C!VOLUME = 2 /\ C!SAM_FREQ = 1
  BY DEF C!MUTE, C!VOLUME, C!SAM_FREQ
<1> QED BY <1>2, <1>3, <1>4, <1>5, <1>6, Zenon DEF C!AnswersMatch, Fu, Clk

(***************************************************************************)
(* What the bus programs, the samples and the audio controls report is so: *)
(* i2c_demo says "successful" only of a whole transfer and ds1307 prints   *)
(* the time the chip stood at; the flash of nv_storage_demo counts up, the *)
(* PSA key dies with the chain and the watchdog fires only outside its     *)
(* window; a CUR request reads back what was set.                          *)
(***************************************************************************)
THEOREM ReportsAreTrue == Spec => []ReportsTrue
<1>1. Init => BusInv /\ SampleInv /\ ControlInv
  BY BusStarts, SampleStarts, ControlStarts
<1>2. BusInv /\ SampleInv /\ ControlInv /\ [Next]_vars => (BusInv /\ SampleInv /\ ControlInv)'
  BY BusKeeps, SampleKeeps, ControlKeeps
<1>3. BusInv /\ SampleInv /\ ControlInv => ReportsTrue
  BY BusTrue, SamplesTrue, ControlTrue DEF ReportsTrue
<1> QED BY <1>1, <1>2, <1>3, PTL DEF Spec
=============================================================================
