-------------------------------- MODULE Boot --------------------------------
(***************************************************************************)
(* The bootloader port: the recovery mailbox written by the application    *)
(* and consumed by the bootloader, with a reset or a power cut between any *)
(* two stores; tlk_mcuboot_run(); the entry detection of                   *)
(* mcuboot_bootloader_demo; and the flash areas that MCUboot's upload      *)
(* (external) writes through.  An address unit is a flash sector.          *)
(***************************************************************************)
EXTENDS Integers, Sequences

CONSTANTS
    BOOTLOADER_SIZE, SLOT_SIZE, SCRATCH_SIZE,   \* of the areas, in sectors
    UINT32,        \* bound: the number of values of a uint32_t
    MaxRequests,   \* bound: recovery requests by the application
    MaxUploads     \* bound: flash area calls

VARIABLES
    bpc,           \* where the processor stands, application or bootloader
    mailbox,       \* the words magic and magic_inv, kept over a reset
    key,           \* whether KEY_0 is held
    by,            \* what started the recovery
    flash,         \* what each unit of the flash holds
    crypto,        \* whether psa_crypto_init() succeeded
    owed,          \* ghost: a request is complete and was not served
    reqs, uploads

bvars == <<bpc, mailbox, key, by, flash, crypto, owed, reqs, uploads>>

MAGIC == "magic"
INV == "~magic"

-----------------------------------------------------------------------------
(* flash_map_backend.c *)

area(off, size) == [fa_off |-> off, fa_size |-> size]
partitions ==
    << area(BOOTLOADER_SIZE, SLOT_SIZE), area(BOOTLOADER_SIZE + SLOT_SIZE, SLOT_SIZE),
       area(BOOTLOADER_SIZE + 2 * SLOT_SIZE, SCRATCH_SIZE), area(0, BOOTLOADER_SIZE) >>
PRIMARY == 0
SECONDARY == 1

Units == 0 .. BOOTLOADER_SIZE + 2 * SLOT_SIZE + SCRATCH_SIZE - 1
units(a) == a.fa_off .. a.fa_off + a.fa_size - 1

\* flash_area_open(); -1 becomes 255 in its uint8_t parameter.
flash_area_open(id) == {partitions[i] : i \in {j \in DOMAIN partitions : j - 1 = id}}

\* flash_area_id_from_direct_image()
id_from_direct_image(image_id) ==
    CASE image_id \in {0, 1} -> PRIMARY [] image_id = 2 -> SECONDARY [] OTHER -> 255

\* flash_area_range_is_valid()
\* Planted fault: the end of the range is computed, and may wrap.
Bug_range_is_valid(a, off, len) == len # 0 /\ (off + len) % UINT32 <= a.fa_size
range_is_valid(a, off, len) == len # 0 /\ off <= a.fa_size /\ len <= a.fa_size - off

\* What flash_area_write() and flash_area_erase() hand to the storage layer,
\* whose own address arithmetic is 32 bits wide.
touched(a, off, len) ==
    IF range_is_valid(a, off, len) THEN {(a.fa_off + off + i) % UINT32 : i \in 0 .. len - 1} ELSE {}

-----------------------------------------------------------------------------
(* The application: tlk_mcuboot_request_recovery(), store by store. *)

request_stores ==
    <<[w |-> "magic", v |-> "0"], [w |-> "magic_inv", v |-> INV], [w |-> "magic", v |-> MAGIC]>>

Request ==
    /\ bpc = <<"app", 0>> /\ reqs < MaxRequests
    /\ reqs' = reqs + 1
    /\ bpc' = <<"app", 1>>
    /\ UNCHANGED <<mailbox, key, by, flash, crypto, owed, uploads>>

Store ==
    /\ bpc[1] = "app" /\ bpc[2] \in DOMAIN request_stores
    /\ LET n == bpc[2]
       IN  /\ mailbox' = [mailbox EXCEPT ![request_stores[n].w] = request_stores[n].v]
           /\ owed' = (owed \/ n = Len(request_stores))
           /\ bpc' = <<"app", n + 1>>
    /\ UNCHANGED <<key, by, flash, crypto, reqs, uploads>>

-----------------------------------------------------------------------------
(* tlk_mcuboot_run() *)

goto(l) == bpc' = <<l, 0>>
at(l) == bpc = <<l, 0>>

\* A failed crypto init is reported and the run goes on.
CryptoInit ==
    /\ at("start") /\ goto("mailbox")
    /\ crypto' \in BOOLEAN
    /\ UNCHANGED <<mailbox, key, by, flash, owed, reqs, uploads>>

\* tlk_mcuboot_recovery_mailbox_pending()
\* Planted fault: the request is not consumed.
Bug_cleared(w) == mailbox[w]
cleared(w) == "0"

MailboxPending ==
    /\ \/ /\ at("mailbox")
          /\ goto(IF mailbox.magic = MAGIC /\ mailbox.magic_inv = INV THEN "clear" ELSE "key")
          /\ UNCHANGED <<mailbox, by>>
       \/ /\ at("clear") /\ goto("clear_inv")
          /\ mailbox' = [mailbox EXCEPT !.magic = cleared("magic")]
          /\ UNCHANGED by
       \/ /\ at("clear_inv") /\ goto("enter")
          /\ mailbox' = [mailbox EXCEPT !.magic_inv = cleared("magic_inv")]
          /\ by' = "mailbox"
    /\ UNCHANGED <<key, flash, crypto, owed, reqs, uploads>>

\* tlk_mcuboot_recovery_requested() of the demo: the key is read twice, a
\* debounce time apart.
ReadKey ==
    /\ \/ at("key") /\ goto(IF key THEN "debounce" ELSE "go") /\ UNCHANGED by
       \/ at("debounce") /\ goto(IF key THEN "enter" ELSE "go") /\ by' = IF key THEN "key" ELSE by
    /\ UNCHANGED <<mailbox, key, flash, crypto, owed, reqs, uploads>>

\* enter_serial_recovery(); boot_serial_start() runs until a reset.
EnterRecovery ==
    /\ at("enter") /\ goto("recovery")
    /\ owed' = (owed /\ by # "mailbox")
    /\ UNCHANGED <<mailbox, key, by, flash, crypto, reqs, uploads>>

\* A call of MCUboot's upload with an image number from the host.
Upload ==
    /\ at("recovery") /\ uploads < MaxUploads
    /\ \E image_id \in 0 .. 3, off, len \in 0 .. UINT32 - 1, v \in {"erased", "new"} :
          \E a \in flash_area_open(id_from_direct_image(image_id)) :
              LET t == touched(a, off, len)
              IN  flash' = [u \in Units |-> IF u \in t THEN v ELSE flash[u]]
    /\ uploads' = uploads + 1
    /\ UNCHANGED <<bpc, mailbox, key, by, crypto, owed, reqs>>

\* boot_go() (external) accepts a complete image; jump_to_image() disables
\* the interrupts and goes there, and without an image the loader halts.
whole(v) == \A u \in units(partitions[PRIMARY + 1]) : flash[u] = v
BootGo ==
    /\ at("go")
    /\ goto(IF crypto /\ (whole("old") \/ whole("new")) THEN "app" ELSE "halt")
    /\ UNCHANGED <<mailbox, key, by, flash, crypto, owed, reqs, uploads>>

-----------------------------------------------------------------------------
(* The world *)

Key == key' = ~key /\ UNCHANGED <<bpc, mailbox, by, flash, crypto, owed, reqs, uploads>>

\* The mailbox survives a reset, not a power cut: then it holds anything but
\* the two right words together.
Reset ==
    /\ ~at("start")
    /\ goto("start")
    /\ by' = "none"
    /\ \/ UNCHANGED <<mailbox, owed>>
       \/ /\ \E m \in {"0", MAGIC, "junk"}, i \in {"0", INV, "junk"} :
                /\ ~(m = MAGIC /\ i = INV)
                /\ mailbox' = [magic |-> m, magic_inv |-> i]
          /\ owed' = FALSE
    /\ UNCHANGED <<key, flash, crypto, reqs, uploads>>

Init ==
    /\ bpc = <<"start", 0>>
    /\ mailbox = [magic |-> "junk", magic_inv |-> "junk"]
    /\ key = FALSE /\ by = "none" /\ crypto = FALSE /\ owed = FALSE
    /\ flash = [u \in Units |-> IF u < BOOTLOADER_SIZE THEN "boot" ELSE "old"]
    /\ reqs = 0 /\ uploads = 0

Next ==
    Request \/ Store \/ CryptoInit \/ MailboxPending \/ ReadKey \/ EnterRecovery \/ Upload \/ BootGo
    \/ Key \/ Reset

Spec == Init /\ [][Next]_bvars

-----------------------------------------------------------------------------
(***************************************************************************)
(* "The request is one-shot, so a normal reset afterward boots the         *)
(* application again" (mcuboot_bootloader_demo/README.md): the mailbox     *)
(* starts a recovery only for a request whose last store was made and that *)
(* no earlier boot has served, wherever resets cut either side short.      *)
(***************************************************************************)
OneShot == (at("enter") /\ by = "mailbox") => owed

(***************************************************************************)
(* No upload, with any image number, offset and length the host sends,     *)
(* changes the bootloader or the scratch area: the areas do not overlap    *)
(* and the range check of flash_map_backend.c does not wrap.               *)
(***************************************************************************)
BootloaderIntact ==
    /\ \A u \in units(partitions[4]) : flash[u] = "boot"
    /\ \A u \in units(partitions[3]) : flash[u] = "old"
=============================================================================
