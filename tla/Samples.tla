------------------------------ MODULE Samples ------------------------------
(***************************************************************************)
(* Three sample programs that test what they use and report it:            *)
(* nv_storage_demo (counts up a part of the flash, boot after boot),       *)
(* mbedtls_demo (a chain of PSA calls with one key) and wdt_demo (waits    *)
(* inside the watchdog's window, then lets it fire).  Storage layer, PSA   *)
(* and watchdog are external; each of their calls may fail, and a reset    *)
(* may come at any time.                                                   *)
(***************************************************************************)
EXTENDS Integers, Sequences

CONSTANTS
    CELLS,         \* bound: bytes of nv_storage_demo's part of the flash
    UINT8,         \* bound: 2^8; the highest byte is clean_byte
    WINDOW,        \* tlk_wdt_start(), in seconds
    PAUSE,         \* the delays of wdt_demo, in seconds
    MaxBoots

VARIABLES
    sample,        \* "nv", "psa" or "wdt"
    mpc,           \* where main() stands
    mem,           \* nv: the flash
    copy,          \* nv: data
    done,          \* nv: cells written
    torn,          \* ghost: a write broke off
    key,           \* psa: a key exists
    tests_ok,      \* psa
    failed,        \* ghost: a PSA call failed
    left, ticks,   \* wdt: of the window (0: not started), of the delay
    led1, reason, boots

svars == <<sample, mpc, mem, copy, done, torn, key, tests_ok, failed, left, ticks, led1, reason, boots>>
nv == <<mem, copy, done, torn>>
psa == <<key, tests_ok, failed>>
wdt == <<left, ticks, led1, reason>>

CLEAN == UINT8 - 1
Cells == 0 .. CELLS - 1

-----------------------------------------------------------------------------
(* nv_storage_demo *)

\* The device is found and its content read, or main() ends.
NvRead ==
    /\ sample = "nv" /\ mpc = "boot"
    /\ \/ mpc' = "end" /\ UNCHANGED copy
       \/ mpc' = "write" /\ copy' = mem
    /\ done' = 0
    /\ UNCHANGED <<sample, mem, torn, psa, wdt, boots>>

is_clean == \A i \in Cells : copy[i] = CLEAN

counted_up(i) == (IF is_clean THEN i ELSE copy[i] + 1) % UINT8

\* Cell after cell: the storage layer may give up in between.
NvWrite ==
    /\ sample = "nv" /\ mpc = "write"
    /\ \/ /\ done < CELLS
          /\ mem' = [mem EXCEPT ![done] = counted_up(done)]
          /\ done' = done + 1 /\ UNCHANGED <<mpc, torn>>
       \/ /\ done < CELLS
          /\ mpc' = "end" /\ torn' = (torn \/ done > 0) /\ UNCHANGED <<mem, done>>
       \/ /\ done = CELLS
          /\ mpc' = "end" /\ UNCHANGED <<mem, done, torn>>
    /\ UNCHANGED <<sample, copy, psa, wdt, boots>>

-----------------------------------------------------------------------------
(* mbedtls_demo *)

psa_calls ==
    <<"init", "random", "generate_key", "export_key", "export_public_key", "sign_hash", "verify_hash", "end">>
following(call) == CHOOSE c \in {psa_calls[i] : i \in 2 .. Len(psa_calls)} :
    \E i \in 1 .. Len(psa_calls) - 1 : psa_calls[i] = call /\ psa_calls[i + 1] = c

\* Every failure after the key was made destroys it and leaves the chain.
PsaCall ==
    /\ sample = "psa" /\ mpc \in {psa_calls[i] : i \in 1 .. Len(psa_calls) - 1}
    /\ \/ /\ mpc' = following(mpc)
          /\ key' = (mpc' # "end" /\ (key \/ mpc = "generate_key"))
          /\ UNCHANGED <<tests_ok, failed>>
       \/ /\ mpc' = IF mpc = "init" THEN "failed" ELSE "end"
          /\ key' = FALSE /\ tests_ok' = FALSE /\ failed' = TRUE
    /\ UNCHANGED <<sample, nv, wdt, boots>>

-----------------------------------------------------------------------------
(* wdt_demo *)

WdtStep ==
    /\ sample = "wdt"
    /\ \/ mpc = "boot" /\ mpc' = "start" /\ led1' = FALSE /\ ticks' = PAUSE /\ UNCHANGED left
       \/ mpc = "start" /\ ticks = 0 /\ mpc' = "pass" /\ left' = WINDOW /\ ticks' = PAUSE /\ UNCHANGED led1
       \/ mpc = "pass" /\ ticks = 0 /\ mpc' = "feed" /\ led1' = TRUE /\ UNCHANGED <<left, ticks>>
       \/ mpc = "feed" /\ mpc' = "loop" /\ left' = WINDOW /\ UNCHANGED <<led1, ticks>>
    /\ UNCHANGED <<sample, nv, psa, reason, boots>>

\* A second; the steps of main() in between take no time.
Second ==
    /\ sample = "wdt" /\ (mpc = "loop" \/ ticks > 0)
    /\ ticks' = IF ticks > 0 THEN ticks - 1 ELSE 0
    /\ IF left = 1
       THEN /\ mpc' = "boot" /\ reason' = "wdt" /\ left' = 0 /\ boots' = boots + 1
            /\ boots < MaxBoots
       ELSE /\ left' = IF left > 0 THEN left - 1 ELSE 0
            /\ UNCHANGED <<mpc, reason, boots>>
    /\ UNCHANGED <<sample, nv, psa, led1>>

-----------------------------------------------------------------------------
first_pc == IF sample = "psa" THEN "init" ELSE "boot"

Reset ==
    /\ boots < MaxBoots
    /\ boots' = boots + 1 /\ mpc' = first_pc /\ reason' = "other"
    /\ torn' = (torn \/ (sample = "nv" /\ mpc = "write" /\ done \in 1 .. CELLS - 1))
    /\ left' = 0 /\ ticks' = 0 /\ key' = FALSE /\ tests_ok' = TRUE /\ failed' = FALSE
    /\ UNCHANGED <<sample, mem, copy, done, led1>>

Init ==
    /\ sample \in {"nv", "psa", "wdt"} /\ mpc = first_pc
    /\ mem = [i \in Cells |-> CLEAN] /\ copy = mem /\ done = 0 /\ torn = FALSE
    /\ key = FALSE /\ tests_ok = TRUE /\ failed = FALSE
    /\ left = 0 /\ ticks = 0 /\ led1 = FALSE /\ reason = "other" /\ boots = 0

Over == boots = MaxBoots /\ mpc \in {"end", "failed", "loop"} /\ UNCHANGED svars
Next == NvRead \/ NvWrite \/ PsaCall \/ WdtStep \/ Second \/ Reset \/ Over
Spec == Init /\ [][Next]_svars

-----------------------------------------------------------------------------
(***************************************************************************)
(* The samples show what they mean to show.  As long as no write broke off *)
(* the flash is clean or counts up from its first byte, over any number of *)
(* boots and overflows of the bytes; a PSA key never outlives the chain,   *)
(* and "All tests success" is said when every call was one; the watchdog   *)
(* fires only after LED1 told that its window was met.                     *)
(***************************************************************************)
SamplesShow ==
    /\ (~torn /\ ~(mpc = "write" /\ done \in 1 .. CELLS - 1)) =>
          \/ \A i \in Cells : mem[i] = CLEAN
          \/ \A i \in Cells : mem[i] = (mem[0] + i) % UINT8
    /\ mpc \in {"end", "failed"} => ~key
    /\ (sample = "psa" /\ mpc = "end") => (tests_ok = ~failed)
    /\ (sample = "wdt" /\ mpc = "boot" /\ reason = "wdt") => led1
=============================================================================
