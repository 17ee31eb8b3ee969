------------------------------ MODULE BleHost ------------------------------
(***************************************************************************)
(* The connection table of samples/ble_host_demo.  The BLE host stack      *)
(* (external) calls back from tlk_ble_host_loop(), in the order in which   *)
(* links come up and go down; links change while callbacks are still due,  *)
(* and a handle that was given back is used again.  Only a device that     *)
(* advertises is connected to, which ends the advertising, and the         *)
(* controller accepts no more links than the table has slots.              *)
(***************************************************************************)
EXTENDS Integers, Sequences, FiniteSetsExt

CONSTANTS
    MAX_COUNT,    \* APP_BLE_ACL_PERIPHERAL_MAX_COUNT
    Handles,      \* bound: connection handles
    MaxDue        \* bound: callbacks that are due

VARIABLES
    table,        \* peripheral_info: the handle in each slot
    count,
    advertising,
    links,        \* the links that are up
    due           \* the callbacks to come

hvars == <<table, count, advertising, links, due>>

INVALID == "invalid"        \* BLE_CONN_HANDLE_INVALID
Slots == 1 .. MAX_COUNT
slots_with(h) == {i \in Slots : table[i] = h}

-----------------------------------------------------------------------------
(* The stack *)

LinkUp ==
    /\ advertising /\ Len(due) < MaxDue /\ Cardinality(links) < MAX_COUNT
    /\ \E h \in Handles \ links :
          links' = links \cup {h} /\ due' = Append(due, [ev |-> "connected", h |-> h])
    /\ advertising' = FALSE
    /\ UNCHANGED <<table, count>>

LinkDown ==
    /\ Len(due) < MaxDue
    /\ \E h \in links :
          links' = links \ {h} /\ due' = Append(due, [ev |-> "disconnected", h |-> h])
    /\ UNCHANGED <<table, count, advertising>>

-----------------------------------------------------------------------------
(* The callbacks *)

app_connected_callback ==
    /\ due # <<>> /\ Head(due).ev = "connected" /\ due' = Tail(due)
    /\ LET found == slots_with(INVALID)
       IN  /\ table' = IF found = {} THEN table ELSE [table EXCEPT ![Min(found)] = Head(due).h]
           /\ count' = IF found = {} THEN count ELSE count + 1
    /\ advertising' = (advertising \/ count' < MAX_COUNT)
    /\ UNCHANGED links

\* Planted fault: advertising is started only where the table had room before,
\* not where this callback made the room.
Bug_advertises_again == count < MAX_COUNT
advertises_again == TRUE

app_disconnected_callback ==
    /\ due # <<>> /\ Head(due).ev = "disconnected" /\ due' = Tail(due)
    /\ LET found == slots_with(Head(due).h)
       IN  /\ table' = IF found = {} THEN table ELSE [table EXCEPT ![Min(found)] = INVALID]
           /\ count' = IF found = {} THEN count ELSE count - 1
    /\ advertising' = (advertising \/ advertises_again)
    /\ UNCHANGED links

-----------------------------------------------------------------------------
\* ble_host_v2_peripheral_init() and _start()
Init ==
    /\ table = [i \in Slots |-> INVALID] /\ count = 0
    /\ advertising = TRUE
    /\ links = {} /\ due = <<>>

Next == LinkUp \/ LinkDown \/ app_connected_callback \/ app_disconnected_callback
Spec == Init /\ [][Next]_hvars

-----------------------------------------------------------------------------
(***************************************************************************)
(* When no callback is due, the table holds the links that are up, each    *)
(* once, count says how many, and the device can be found unless it is     *)
(* full (app_connected_callback, app_disconnected_callback): no order of   *)
(* links and callbacks leaks a slot or leaves the device unreachable.  At  *)
(* any time the table has room for a link that comes up.                   *)
(***************************************************************************)
TableExact ==
    /\ due = <<>> =>
          /\ {table[i] : i \in Slots} \ {INVALID} = links
          /\ count = Cardinality(links)
          /\ advertising \/ count = MAX_COUNT
    /\ count = Cardinality({i \in Slots : table[i] # INVALID})
    /\ (due # <<>> /\ Head(due).ev = "connected") => slots_with(INVALID) # {}
=============================================================================
