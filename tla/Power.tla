-------------------------------- MODULE Power --------------------------------
(***************************************************************************)
(* The start-up and power hooks of common/ (tlk_init) and the code that    *)
(* hangs on them: PMP save and restore, RF re-initialisation, the critical *)
(* print, the LEDs of pm_demo, the auto-configuration of the drivers.  The *)
(* linker sorts a hook array by section name; the power driver, which runs *)
(* the hooks around a sleep, is not in this repository.                    *)
(***************************************************************************)
EXTENDS Integers, SequencesExt

CONSTANTS
    MaxSleeps,   \* bound: sleeps
    MaxCalls,    \* bound: PMP calls
    UART_FLOW,   \* CONFIG_TLK_UART<n>_FLOW_CONTROL
    I2C_MODE,    \* CONFIG_TLK_I2C<n>_AC_MODE_*: "master" or "slave"
    SPI_ROLE     \* CONFIG_TLK_SPI<n>_AC_ROLE_*

VARIABLES
    phase,       \* "init", "run", "before", "off", "after"
    mode,        \* the kind of the current sleep: "suspend", "sleep"
    todo,        \* the hooks of the array that are still to be called
    pmp,         \* the PMP's registers
    retention,   \* tlk_pmp_config_retention, tlk_pmp_address_retention
    given,       \* ghost: what the last call asked of each PMP entry
    rf,          \* tlk_rf_instance and the configuration kept with it
    regs,        \* what the RF, UART and GPIO registers hold
    inited,      \* tlk_critical_print_hw_inited
    leds,        \* led0_state, led1_state
    irq_cb,      \* the machine timer's callback
    sleeps, pcalls

pvars == <<phase, mode, todo, pmp, retention, given, rf, regs, inited, leds, irq_cb, sleeps, pcalls>>

-----------------------------------------------------------------------------
(* The arrays.  A section is named by its level, then its priority; equal  *)
(* names stay in link order, which within one file is the order of text.   *)

SYSTEM == 2
DRIVER == 5
APPLICATION == 8
HIGH == 2
NORMAL == 5
LOW == 8

hook(fn, level, priority) == [fn |-> fn, level |-> level, priority |-> priority]

\* The registrations, in one link order.
pre_init == <<
    hook("task_planner_init", APPLICATION, NORMAL), hook("log_init", APPLICATION, HIGH),
    hook("flash_register_device", DRIVER, LOW), hook("uart_auto_config", DRIVER, LOW),
    hook("i2c_auto_config", DRIVER, NORMAL), hook("spi_auto_config", DRIVER, NORMAL),
    hook("init_mtimer", DRIVER, NORMAL) >>

before_sleep == <<
    hook("flip_led", APPLICATION, NORMAL), hook("init_led", APPLICATION, NORMAL),
    hook("pmp_save", DRIVER, HIGH) >>

after_suspend == <<
    hook("init_led", APPLICATION, NORMAL), hook("rf_reinitialize", DRIVER, NORMAL),
    hook("pmp_restore", DRIVER, HIGH) >>

after_sleep == Append(after_suspend, hook("critical_print_pm_reinit", SYSTEM, HIGH))

sorts_before(a, b) == a.level * 10 + a.priority <= b.level * 10 + b.priority

\* Which hook the sorted array holds next: the first in link order of the least.
next_hook(arr) ==
    CHOOSE i \in DOMAIN arr :
        /\ \A j \in DOMAIN arr : sorts_before(arr[i], arr[j])
        /\ \A j \in 1 .. i - 1 : ~sorts_before(arr[j], arr[i])

-----------------------------------------------------------------------------
(* The PMP unit.  Four entries stand for eight, two configuration bytes in *)
(* a register for four; a byte is the scheme and the lock.  Addresses are  *)
(* words, regions sets of words.                                           *)

Entries == 0 .. 3
Lanes == 2
Byte == 8
Words == 0 .. 7
OFF == 0
TOR == 1
NAPOT == 3
LOCK == 4

byte_of(reg, lane) == (reg \div Byte^lane) % Byte
config_of(p, e) == byte_of(p.cfg[e \div Lanes], e % Lanes)
scheme_of(p, e) == config_of(p, e) % LOCK
locked(p, e) == config_of(p, e) >= LOCK

\* tlk_write_csr() as the unit obeys it: a locked entry ignores the store,
\* and the entry below a locked TOR entry keeps its address.
addr_locked(p, e) ==
    locked(p, e) \/ (e + 1 \in Entries /\ locked(p, e + 1) /\ scheme_of(p, e + 1) = TOR)
write_addr(p, e, a) == IF addr_locked(p, e) THEN p ELSE [p EXCEPT !.addr[e] = a]

write_cfg(p, r, v) ==
    LET lane(i) == IF locked(p, r * Lanes + i) THEN byte_of(p.cfg[r], i) ELSE byte_of(v, i)
    IN  [p EXCEPT !.cfg[r] = lane(0) + Byte * lane(1)]

\* What the unit protects with entry e.
ones(a) == CHOOSE n \in 0 .. 8 : (a \div 2^n) % 2 = 0 /\ \A k \in 0 .. n - 1 : (a \div 2^k) % 2 = 1
region(p, e) ==
    CASE scheme_of(p, e) = TOR ->
            {w \in Words : (IF e = 0 THEN 0 ELSE p.addr[e - 1]) <= w /\ w < p.addr[e]}
      [] scheme_of(p, e) = NAPOT ->
            LET span == 2^(ones(p.addr[e]) + 1)
            IN  {w \in Words : w \div span = p.addr[e] \div span}
      [] OTHER -> {}

-----------------------------------------------------------------------------
(* tlk_pmp.c *)

\* tlk_pmp_write_config(): the other bytes of the register are kept.
tlk_pmp_write_config(p, e, b) ==
    write_cfg(p, e \div Lanes, p.cfg[e \div Lanes] + (b - config_of(p, e)) * Byte^(e % Lanes))

\* The NAPOT macro, with base and size in bytes.
NAPOT_ADDR(base, size) == (base - (base % size)) \div 4 + (size - 1) \div 8

configure(p, e, address, config) == tlk_pmp_write_config(write_addr(p, e, address), e, config)

store_addrs(p, saved) ==
    LET store(q, e) == write_addr(q, e, saved.addr[e])
    IN  store(store(store(store(p, 0), 1), 2), 3)
store_cfgs(p, saved) == write_cfg(write_cfg(p, 0, saved.cfg[0]), 1, saved.cfg[1])

\* tlk_pmp_save(): every register, as it is.
tlk_pmp_save == pmp

\* tlk_pmp_restore()
\* Planted fault: the configuration is written first.
Bug_tlk_pmp_restore(p, saved) == store_addrs(store_cfgs(p, saved), saved)
tlk_pmp_restore(p, saved) == store_cfgs(store_addrs(p, saved), saved)

\* The regions that a caller may ask for, those of pmp_demo (the second half
\* of an array of four words) among them: tlk_pmp.h wants a NAPOT region
\* aligned to its size, a power of two of at least 8 bytes.
Requests ==
    { [kind |-> TOR, lo |-> 0, hi |-> 4], [kind |-> OFF, lo |-> 2, hi |-> 2],
      [kind |-> NAPOT, lo |-> 2, hi |-> 4], [kind |-> NAPOT, lo |-> 4, hi |-> 8] }

raw(q) == IF q.kind = NAPOT THEN NAPOT_ADDR(4 * q.lo, 4 * (q.hi - q.lo)) ELSE q.hi

\* tlk_pmp_configure_tor(), tlk_pmp_configure_napot(), tlk_pmp_disable_entry();
\* no caller changes the address under a locked TOR entry.
PmpCall ==
    /\ phase = "run" /\ pcalls < MaxCalls
    /\ \E e \in Entries, q \in Requests, lock \in {0, LOCK} :
          /\ q.kind = OFF => lock = 0
          /\ locked(pmp, e) \/ ~addr_locked(pmp, e)
          /\ pmp' = configure(pmp, e, raw(q), q.kind + lock)
          /\ given' = IF locked(pmp, e) THEN given ELSE [given EXCEPT ![e] = q]
    /\ pcalls' = pcalls + 1
    /\ UNCHANGED <<phase, mode, todo, retention, rf, regs, inited, leds, irq_cb, sleeps>>

-----------------------------------------------------------------------------
(* The RF driver's interface and the critical print, used while running.   *)

lost_rf == [config |-> FALSE, fifo |-> FALSE, fs |-> FALSE, fs_tx |-> FALSE]

\* tlk_rf_configure(), tlk_rf_tx_fifo_set(), tlk_rf_fs_configure() and
\* tlk_rf_fs_tx_enable(), in the order rf_demo calls them.
RfCall ==
    /\ phase = "run"
    /\ \E f \in {"config", "fifo", "fs", "fs_tx"} :
          /\ f # "config" => rf.initialized
          /\ f = "fs_tx" => rf.fs
          /\ rf' = [rf EXCEPT ![f] = TRUE, !.initialized = TRUE]
          /\ regs' = [regs EXCEPT !.rf[f] = TRUE]
    /\ UNCHANGED <<phase, mode, todo, pmp, retention, given, inited, leds, irq_cb, sleeps, pcalls>>

\* _tlk_critical_print() with tlk_critical_print_hw_init(): the port is
\* configured by the first print only.
CriticalPrint ==
    /\ phase = "run"
    /\ inited' = TRUE
    /\ regs' = IF inited THEN [regs EXCEPT !.garbled = ~regs.uart]
             ELSE [regs EXCEPT !.uart = TRUE, !.garbled = FALSE]
    /\ UNCHANGED <<phase, mode, todo, pmp, retention, given, rf, leds, irq_cb, sleeps, pcalls>>

-----------------------------------------------------------------------------
(* What a hook does: rf, regs, pmp, retention, inited, leds and irq_cb after it. *)

\* Planted fault: a radio whose configuration is kept is left alone.
Bug_tlk_rf_reinitialize == IF regs.rf.config THEN regs.rf ELSE [lost_rf EXCEPT !.config = rf.config]
tlk_rf_reinitialize ==
    IF rf.initialized
    THEN [config |-> TRUE, fifo |-> rf.fifo, fs |-> rf.fs, fs_tx |-> rf.fs /\ rf.fs_tx]
    ELSE regs.rf

\* The drivers' auto-configuration; flow control and roles are build options.
uart_auto_config == [regs EXCEPT !.port = TRUE, !.flow = UART_FLOW]
i2c_auto_config == [regs EXCEPT !.i2c = [pins |-> TRUE, role |-> I2C_MODE]]
spi_auto_config == [regs EXCEPT !.spi = [pins |-> TRUE, role |-> SPI_ROLE]]

hook_regs(fn) ==
    CASE fn = "rf_reinitialize" -> [regs EXCEPT !.rf = tlk_rf_reinitialize]
      [] fn = "init_led" -> [regs EXCEPT !.pins = leds]
      [] fn = "log_init" -> [regs EXCEPT !.log = regs.port]
      [] fn = "uart_auto_config" -> uart_auto_config
      [] fn = "i2c_auto_config" -> i2c_auto_config
      [] fn = "spi_auto_config" -> spi_auto_config
      [] OTHER -> regs

Hook ==
    /\ phase \in {"init", "before", "after"} /\ todo # <<>>
    /\ LET i == next_hook(todo)
           fn == todo[i].fn
       IN  /\ todo' = RemoveAt(todo, i)
           /\ regs' = hook_regs(fn)
           /\ retention' = IF fn = "pmp_save" THEN tlk_pmp_save ELSE retention
           /\ pmp' = IF fn = "pmp_restore" THEN tlk_pmp_restore(pmp, retention) ELSE pmp
           /\ inited' = (inited /\ fn # "critical_print_pm_reinit")
           /\ leds' = IF fn = "flip_led" THEN [l \in 0 .. 1 |-> ~leds[l]] ELSE leds
           /\ irq_cb' = CASE fn = "init_mtimer" -> "sleep" [] fn = "task_planner_init" -> "planner"
                          [] OTHER -> irq_cb
    /\ UNCHANGED <<phase, mode, given, rf, sleeps, pcalls>>

\* main() of pm_demo lights the first LED.
Start ==
    /\ phase = "init" /\ todo = <<>>
    /\ phase' = "run"
    /\ leds' = [l \in 0 .. 1 |-> l = 0]
    /\ regs' = [regs EXCEPT !.pins = leds']
    /\ UNCHANGED <<mode, todo, pmp, retention, given, rf, inited, irq_cb, sleeps, pcalls>>

-----------------------------------------------------------------------------
(* The power driver. *)

\* tlk_prevent_suspend() and tlk_prevent_sleep(): any hook can refuse.
Sleep ==
    /\ phase = "run" /\ sleeps < MaxSleeps
    /\ \E prevent \in BOOLEAN, m \in {"suspend", "sleep"} :
          IF prevent
          THEN UNCHANGED <<phase, mode, todo>>
          ELSE phase' = "before" /\ mode' = m /\ todo' = before_sleep
    /\ sleeps' = sleeps + 1
    /\ UNCHANGED <<pmp, retention, given, rf, regs, inited, leds, irq_cb, pcalls>>

no_bus == [pins |-> FALSE, role |-> "none"]
no_pmp == [cfg |-> [r \in 0 .. 1 |-> 0], addr |-> [e \in Entries |-> 0]]

\* A suspended chip may lose the PMP and the radio, a sleeping one loses all.
PowerDown ==
    /\ phase = "before" /\ todo = <<>>
    /\ phase' = "off"
    /\ \/ pmp' = no_pmp
          /\ regs' = [regs EXCEPT !.rf = lost_rf, !.pins = IF mode = "sleep" THEN <<>> ELSE @,
                              !.uart = @ /\ mode # "sleep"]
       \/ mode = "suspend" /\ UNCHANGED <<pmp, regs>>
    /\ UNCHANGED <<mode, todo, retention, given, rf, inited, leds, irq_cb, sleeps, pcalls>>

Wake ==
    /\ phase = "off"
    /\ phase' = "after"
    /\ todo' = IF mode = "sleep" THEN after_sleep ELSE after_suspend
    /\ UNCHANGED <<mode, pmp, retention, given, rf, regs, inited, leds, irq_cb, sleeps, pcalls>>

Awake ==
    /\ phase = "after" /\ todo = <<>>
    /\ phase' = "run"
    /\ UNCHANGED <<mode, todo, pmp, retention, given, rf, regs, inited, leds, irq_cb, sleeps, pcalls>>

Init ==
    /\ phase = "init" /\ mode = "none" /\ todo = pre_init
    /\ pmp = no_pmp /\ retention = no_pmp
    /\ given = [e \in Entries |-> [kind |-> OFF, lo |-> 0, hi |-> 0]]
    /\ rf = [initialized |-> FALSE, config |-> FALSE, fifo |-> FALSE, fs |-> FALSE, fs_tx |-> FALSE]
    /\ regs = [rf |-> lost_rf, uart |-> FALSE, garbled |-> FALSE, port |-> FALSE, flow |-> FALSE,
             log |-> TRUE, pins |-> <<>>, i2c |-> no_bus, spi |-> no_bus]
    /\ inited = FALSE
    /\ leds = [l \in 0 .. 1 |-> FALSE]
    /\ irq_cb = "none" /\ sleeps = 0 /\ pcalls = 0

Next == PmpCall \/ RfCall \/ CriticalPrint \/ Hook \/ Start \/ Sleep \/ PowerDown \/ Wake \/ Awake

-----------------------------------------------------------------------------
(***************************************************************************)
(* While the program runs, whatever it slept through, every PMP entry      *)
(* covers the region of the last call that its lock let through            *)
(* (tlk_pmp.c: packed configuration bytes, the NAPOT encoding, locked      *)
(* entries, the order in which tlk_pmp_restore stores).                    *)
(***************************************************************************)
Protected ==
    phase = "run" => \A e \in Entries :
        region(pmp, e) =
            LET q == given[e]
                low == IF e = 0 THEN 0 ELSE raw(given[e - 1])
            IN  CASE q.kind = TOR -> {w \in Words : low <= w /\ w < q.hi}
                  [] q.kind = NAPOT -> q.lo .. q.hi - 1
                  [] OTHER -> {}

(***************************************************************************)
(* After any sleep the program meets what it left: the radio as it was     *)
(* configured (tlk_rf_reinitialize), the pins showing exactly one lit LED  *)
(* (pm_demo), and a critical print that finds its port configured.         *)
(***************************************************************************)
Restored ==
    phase = "run" =>
        /\ \A f \in DOMAIN regs.rf : regs.rf[f] = rf[f]
        /\ regs.pins = leds /\ leds[0] = ~leds[1]
        /\ ~regs.garbled

(***************************************************************************)
(* The order of the start-up hooks: the log finds its port configured, the *)
(* task planner, not tlk_api_sleep, owns the machine timer at the end, and *)
(* main() finds the buses with the roles of the build.                     *)
(***************************************************************************)
BootOrder ==
    /\ regs.log
    /\ phase # "init" => irq_cb = "planner" /\ regs.i2c.role = I2C_MODE /\ regs.spi.role = SPI_ROLE
=============================================================================
