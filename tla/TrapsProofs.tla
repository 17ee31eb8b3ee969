----------------------------- MODULE TrapsProofs -----------------------------
(***************************************************************************)
(* Proofs about the traps of Traps under the programs of TrapApps, for     *)
(* every set of sources, priorities and builds and every depth of nesting: *)
(* the context a trap interrupted is put back, the nesting counter is      *)
(* exact, and a sleep leaves the interrupt enables as it found them.       *)
(***************************************************************************)
EXTENDS TrapApps, FiniteSetTheorems, SequenceTheorems, TLAPS

-----------------------------------------------------------------------------
(* The inductive invariant of the context.  ContextRestored speaks of the  *)
(* last instruction of a trap.  Until a handler has saved the context, and *)
(* for good when it does not nest, the registers hold it and interrupts    *)
(* are masked; while it nests, the frame holds it and the registers may    *)
(* hold anything.                                                          *)

where(c) == IF c = "ECALL" THEN "ecall" ELSE "next"

\* What frame k has to put back.
Context(k) ==
    [mepc |-> [frame |-> k - 1, at |-> where(stack[k].cause)],
     mie |-> stack[k].was.mie,
     mstatus |-> [MIE |-> FALSE, MPIE |-> stack[k].was.MIE, MPP |-> stack[k].was.mode]]

\* The handler of frame k has saved the context and let interrupts in.
Opened(k) == stack[k].cause \in build.nest /\ stack[k].pc \notin {"entry", "mret"}

Status == [MIE : BOOLEAN, MPIE : BOOLEAN, MPP : {"U", "M"}]

RegisterTypes ==
    /\ build \in Builds /\ app \in Apps
    /\ app # "umode" => "ECALL" \notin build.nest /\ ~build.mmode
    /\ stack \in Seq(Frame)
    /\ mode \in {"U", "M"} /\ mstatus \in Status /\ mie \in SUBSET Class
    /\ mepc \in [frame : Nat, at : {"next", "ecall"}]
    /\ counter \in Nat /\ mmode_asked \in BOOLEAN

Saved == \A k \in 1 .. depth : Opened(k) => stack[k].saved = Context(k)

\* Only open handlers have been interrupted, and handlers run in machine mode.
LowerOpen ==
    /\ \A k \in 1 .. depth - 1 : Opened(k) /\ stack[k + 1].was.mode = "M"
    /\ depth > 0 => mode = "M"

Held ==
    depth > 0 /\ ~Opened(depth) =>
        /\ mstatus.MIE = FALSE
        /\ mie = top.was.mie
        /\ mepc = [frame |-> depth - 1,
                   at |-> IF top.pc = "mret" THEN "next" ELSE where(top.cause)]
        /\ mstatus.MPIE = top.was.MIE
        /\ \/ mstatus.MPP = top.was.mode
           \/ top.cause = "ECALL" /\ top.pc # "entry" /\ mstatus.MPP = "M"

ContextInv == RegisterTypes /\ Saved /\ LowerOpen /\ Held

-----------------------------------------------------------------------------
(* The nesting counter. *)

\* Frame k has counted itself in and not out.
Counts(k) ==
    /\ stack[k].cause = "MEI"
    /\ IF build.vector THEN stack[k].pc \in {"body", "close"}
       ELSE stack[k].pc \in {"body", "dec", "dec2"}

Counted(n) == {k \in 1 .. n : Counts(k)}

\* A frame stands where the handler of its cause, in this build, has code.
Placed(g) ==
    /\ g.pc \in {"inc", "inc2", "dec", "dec2"} => g.cause = "MEI" /\ ~build.vector
    /\ g.pc = "complete" => g.cause = "MSI" \/ (g.cause = "MEI" /\ ~build.vector)
    /\ g.pc = "mpp" => g.cause = "ECALL"

\* Between the load and the store of frame k, what was loaded is what the
\* frames below have counted, whatever has come and gone above.
CounterInv ==
    /\ counter = Cardinality(Counted(depth))
    /\ \A k \in 1 .. depth :
          /\ Placed(stack[k])
          /\ stack[k].pc = "inc2" => stack[k].tmp = Cardinality(Counted(k - 1)) + 1
          /\ stack[k].pc = "dec2" => stack[k].tmp = Cardinality(Counted(k - 1))

TrapInv == ContextInv /\ CounterInv

-----------------------------------------------------------------------------
(* The stack. *)

LEMMA TopFrame ==
    ASSUME stack \in Seq(Frame), depth > 0
    PROVE  depth \in Nat /\ depth \in 1 .. depth /\ top \in Frame
BY DEF depth, top

\* Replacing the top frame leaves the others.
LEMMA TopReplaced ==
    ASSUME stack \in Seq(Frame), depth > 0, NEW f \in Frame, set_top(f)
    PROVE  /\ stack' \in Seq(Frame) /\ depth' = depth /\ top' = f /\ stack'[depth] = f
           /\ \A k \in 1 .. depth : k # depth => stack'[k] = stack[k]
<1>1. stack' = [stack EXCEPT ![Len(stack)] = f] /\ Len(stack) \in Nat /\ Len(stack) > 0
  BY DEF set_top, depth
<1>2. stack' \in Seq(Frame) /\ Len(stack') = Len(stack) /\ stack'[Len(stack)] = f
      /\ \A k \in 1 .. Len(stack) : k # Len(stack) => stack'[k] = stack[k]
  BY <1>1
<1> QED BY <1>2 DEF depth, top

\* How many of the first n frames count: one more when the last one does.
LEMMA CountSet ==
    ASSUME NEW n \in Nat, NEW A \in SUBSET (1 .. n)
    PROVE  Cardinality(A) \in Nat /\ Cardinality(A \cup {n + 1}) = Cardinality(A) + 1
<1>1. IsFiniteSet(1 .. n)
  BY FS_Interval
<1>2. IsFiniteSet(A)
  BY <1>1, FS_Subset
<1>3. n + 1 \notin A
  OBVIOUS
<1> QED BY <1>2, <1>3, FS_CardinalityType, FS_AddElement

LEMMA CountTop ==
    ASSUME NEW n \in Nat, n > 0
    PROVE  /\ Cardinality(Counted(n - 1)) \in Nat
           /\ Cardinality(Counted(n)) = Cardinality(Counted(n - 1)) + (IF Counts(n) THEN 1 ELSE 0)
<1>1. n - 1 \in Nat /\ (n - 1) + 1 = n /\ Counted(n - 1) \in SUBSET (1 .. n - 1)
  BY DEF Counted
<1>2. Cardinality(Counted(n - 1)) \in Nat
      /\ Cardinality(Counted(n - 1) \cup {n}) = Cardinality(Counted(n - 1)) + 1
  BY <1>1, CountSet
<1>3. Counted(n) = IF Counts(n) THEN Counted(n - 1) \cup {n} ELSE Counted(n - 1)
  BY DEF Counted
<1> QED BY <1>2, <1>3

LEMMA NothingCounted == Counted(0) = {} /\ Cardinality({}) = 0
BY FS_EmptySet DEF Counted

-----------------------------------------------------------------------------
(* Steps of the top frame. *)

\* The context stays where it should be: in the frame while the handler is
\* open, in the registers otherwise.
LEMMA TopContext ==
    ASSUME ContextInv, depth > 0, NEW f \in Frame, set_top(f),
           f.cause = top.cause, f.was = top.was,
           UNCHANGED <<build, app, mode>>,
           mstatus' \in Status, mie' \in SUBSET Class, counter' \in Nat, mmode_asked' \in BOOLEAN,
           mepc' \in [frame : Nat, at : {"next", "ecall"}],
           f.cause \in build.nest /\ f.pc \notin {"entry", "mret"} => f.saved = Context(depth),
           ~(f.cause \in build.nest /\ f.pc \notin {"entry", "mret"}) =>
               /\ mstatus'.MIE = FALSE /\ mie' = f.was.mie
               /\ mepc' = [frame |-> depth - 1,
                           at |-> IF f.pc = "mret" THEN "next" ELSE where(f.cause)]
               /\ mstatus'.MPIE = f.was.MIE
               /\ \/ mstatus'.MPP = f.was.mode
                  \/ f.cause = "ECALL" /\ f.pc # "entry" /\ mstatus'.MPP = "M"
    PROVE  ContextInv'
<1>1. stack \in Seq(Frame) /\ depth \in Nat /\ depth \in 1 .. depth
  BY TopFrame DEF ContextInv, RegisterTypes
<1>2. /\ stack' \in Seq(Frame) /\ depth' = depth /\ top' = f /\ stack'[depth] = f
      /\ \A k \in 1 .. depth : k # depth => stack'[k] = stack[k]
  BY <1>1, TopReplaced
<1>3. \A k \in 1 .. depth : stack'[k].cause = stack[k].cause /\ stack'[k].was = stack[k].was
  BY <1>2 DEF top
<1>4. RegisterTypes'
  BY <1>2 DEF ContextInv, RegisterTypes
<1>5. \A k \in 1 .. depth : Context(k)' = Context(k)
  BY <1>3 DEF Context
<1>6. Saved'
  <2> SUFFICES ASSUME NEW k \in 1 .. depth, Opened(k)' PROVE stack'[k].saved = Context(k)
    BY <1>2, <1>5 DEF Saved
  <2>1. CASE k = depth
    BY <1>2, <2>1 DEF Opened
  <2>2. CASE k # depth
    BY <1>2, <2>2 DEF Opened, ContextInv, Saved
  <2> QED BY <2>1, <2>2
<1>7. LowerOpen'
  <2>1. ASSUME NEW k \in 1 .. depth - 1 PROVE Opened(k)' /\ stack'[k + 1].was.mode = "M"
    <3>1. k \in 1 .. depth /\ k # depth /\ k + 1 \in 1 .. depth
      BY <1>1
    <3> QED BY <1>2, <1>3, <3>1 DEF Opened, ContextInv, LowerOpen
  <2> QED BY <1>2, <2>1 DEF LowerOpen, ContextInv
<1>8. Held'
  BY <1>2 DEF Held, Opened
<1> QED BY <1>4, <1>6, <1>7, <1>8 DEF ContextInv

\* The counter, when the top frame moves on.
LEMMA TopCounter ==
    ASSUME stack \in Seq(Frame), depth > 0, CounterInv, NEW f \in Frame, set_top(f),
           f.cause = top.cause, build' = build,
           LET C == Cardinality(Counted(depth - 1))
               counts(g) == g.cause = "MEI" /\ IF build.vector THEN g.pc \in {"body", "close"}
                                               ELSE g.pc \in {"body", "dec", "dec2"}
           IN  /\ counter' = C + (IF counts(f) THEN 1 ELSE 0)
               /\ Placed(f)
               /\ f.pc = "inc2" => f.tmp = C + 1
               /\ f.pc = "dec2" => f.tmp = C
    PROVE  CounterInv'
<1>1. depth \in Nat /\ depth \in 1 .. depth
  BY TopFrame
<1>2. /\ depth' = depth /\ stack'[depth] = f
      /\ \A k \in 1 .. depth : k # depth => stack'[k] = stack[k]
  BY TopReplaced
<1>3. \A n \in 0 .. depth - 1 : Counted(n)' = Counted(n)
  <2> SUFFICES ASSUME NEW n \in 0 .. depth - 1, NEW k \in 1 .. n PROVE Counts(k)' <=> Counts(k)
    BY DEF Counted
  <2>1. k \in 1 .. depth /\ k # depth
    BY <1>1
  <2> QED BY <1>2, <2>1 DEF Counts
<1>4. Counts(depth)' <=> f.cause = "MEI" /\ IF build.vector THEN f.pc \in {"body", "close"}
                                            ELSE f.pc \in {"body", "dec", "dec2"}
  BY <1>2 DEF Counts
<1>5. counter' = Cardinality(Counted(depth)')
  <2>1. PICK n \in Nat : n = depth - 1 /\ n + 1 = depth
    BY <1>1
  <2>2. Counted(depth)' = IF Counts(depth)' THEN Counted(n) \cup {n + 1} ELSE Counted(n)
    <3>1. Counted(depth)' = {k \in 1 .. n + 1 : Counts(k)'}
      BY <1>2, <2>1 DEF Counted
    <3>2. \A k \in 1 .. n + 1 : k = n + 1 \/ k \in 1 .. n
      BY <1>1, <2>1
    <3>3. Counted(n) = {k \in 1 .. n : Counts(k)'}
      BY <1>1, <1>3, <2>1 DEF Counted
    <3>4. Counts(depth)' <=> Counts(n + 1)'
      BY <1>2, <2>1 DEF Counts
    <3> QED BY <3>1, <3>2, <3>3, <3>4
  <2>3. Counted(n) \in SUBSET (1 .. n)
    BY DEF Counted
  <2>4. Cardinality(Counted(n)) \in Nat
        /\ Cardinality(Counted(n) \cup {n + 1}) = Cardinality(Counted(n)) + 1
    BY <2>3, CountSet
  <2>5. counter' = Cardinality(Counted(n)) + (IF Counts(depth)' THEN 1 ELSE 0)
    BY <1>4, <2>1
  <2> QED BY <2>2, <2>4, <2>5
<1>6. ASSUME NEW k \in 1 .. depth
      PROVE  /\ Placed(stack[k])'
             /\ stack'[k].pc = "inc2" => stack'[k].tmp = Cardinality(Counted(k - 1)') + 1
             /\ stack'[k].pc = "dec2" => stack'[k].tmp = Cardinality(Counted(k - 1)')
  <2>1. Counted(k - 1)' = Counted(k - 1)
    BY <1>1, <1>3
  <2>2. CASE k = depth
    BY <1>2, <2>1, <2>2 DEF Placed
  <2>3. CASE k # depth
    BY <1>2, <2>1, <2>3 DEF CounterInv, Placed
  <2> QED BY <2>2, <2>3
<1> QED BY <1>2, <1>5, <1>6 DEF CounterInv

-----------------------------------------------------------------------------
(* The steps of a handler. *)

\* What the invariant says of the frame on top.
LEMMA TopNow ==
    ASSUME TrapInv, depth > 0
    PROVE  /\ stack \in Seq(Frame) /\ depth \in Nat /\ depth - 1 \in Nat /\ top \in Frame
           /\ Opened(depth) <=> nested /\ top.pc \notin {"entry", "mret"}
           /\ Context(depth) = [mepc |-> [frame |-> depth - 1, at |-> where(top.cause)],
                                mie |-> top.was.mie,
                                mstatus |-> [MIE |-> FALSE, MPIE |-> top.was.MIE,
                                             MPP |-> top.was.mode]]
           /\ Context(depth) \in [mepc : [frame : Nat, at : {"next", "ecall"}],
                                  mie : SUBSET Class, mstatus : Status]
           /\ Opened(depth) => top.saved = Context(depth)
           /\ Counts(depth) <=> top.cause = "MEI" /\ IF build.vector THEN top.pc \in {"body", "close"}
                                                    ELSE top.pc \in {"body", "dec", "dec2"}
           /\ Cardinality(Counted(depth - 1)) \in Nat
           /\ counter = Cardinality(Counted(depth - 1)) + (IF Counts(depth) THEN 1 ELSE 0)
           /\ Placed(top)
           /\ top.pc = "inc2" => top.tmp = Cardinality(Counted(depth - 1)) + 1
           /\ top.pc = "dec2" => top.tmp = Cardinality(Counted(depth - 1))
<1>1. stack \in Seq(Frame)
  BY DEF TrapInv, ContextInv, RegisterTypes
<1>2. depth \in Nat /\ depth - 1 \in Nat /\ top \in Frame /\ depth \in 1 .. depth
  BY <1>1, TopFrame
<1>3. Opened(depth) <=> nested /\ top.pc \notin {"entry", "mret"}
  BY DEF Opened, nested, top
<1>4. Context(depth) = [mepc |-> [frame |-> depth - 1, at |-> where(top.cause)],
                        mie |-> top.was.mie,
                        mstatus |-> [MIE |-> FALSE, MPIE |-> top.was.MIE, MPP |-> top.was.mode]]
  BY DEF Context, top
<1>5. Context(depth) \in [mepc : [frame : Nat, at : {"next", "ecall"}],
                          mie : SUBSET Class, mstatus : Status]
  BY <1>2, <1>4 DEF Frame, Status, where
<1>6. Opened(depth) => top.saved = Context(depth)
  BY <1>2 DEF TrapInv, ContextInv, Saved, top
<1>7. Counts(depth) <=> top.cause = "MEI" /\ IF build.vector THEN top.pc \in {"body", "close"}
                                             ELSE top.pc \in {"body", "dec", "dec2"}
  BY DEF Counts, top
<1>8. /\ Cardinality(Counted(depth - 1)) \in Nat
      /\ counter = Cardinality(Counted(depth - 1)) + (IF Counts(depth) THEN 1 ELSE 0)
  <2>1. counter = Cardinality(Counted(depth))
    BY DEF TrapInv, CounterInv
  <2> QED BY <1>2, <2>1, CountTop
<1>9. /\ Placed(top)
      /\ top.pc = "inc2" => top.tmp = Cardinality(Counted(depth - 1)) + 1
      /\ top.pc = "dec2" => top.tmp = Cardinality(Counted(depth - 1))
  BY <1>2 DEF TrapInv, CounterInv, top
<1> QED BY <1>1, <1>2, <1>3, <1>4, <1>5, <1>6, <1>7, <1>8, <1>9

LEMMA SaveType ==
    ASSUME TrapInv
    PROVE  save \in {<<>>} \cup [mepc : [frame : Nat, at : {"next", "ecall"}], mie : SUBSET Class,
                                 mstatus : [MIE : BOOLEAN, MPIE : BOOLEAN, MPP : {"U", "M"}]]
BY DEF save, save_nested_context, TrapInv, ContextInv, RegisterTypes, Status

\* Saving the context and letting interrupts in, or not.
LEMMA OpenKeeps ==
    ASSUME TrapInv, at("entry"), top.cause # "ECALL", NEW c \in Class, open(c),
           NEW f \in Frame, set_top(f), f.cause = top.cause, f.was = top.was,
           f.saved = save, f.pc \notin {"entry", "mret"}, counter' \in Nat,
           UNCHANGED <<build, mode, mepc, app_vars>>
    PROVE  ContextInv'
<1>1. depth > 0 /\ top.pc = "entry" /\ ContextInv
  BY DEF at, TrapInv
<1>2. /\ mstatus.MIE = FALSE /\ mie = top.was.mie
      /\ mepc = [frame |-> depth - 1, at |-> where(top.cause)]
      /\ mstatus.MPIE = top.was.MIE /\ mstatus.MPP = top.was.mode
  BY <1>1 DEF ContextInv, Held, Opened, top
<1>3. mstatus \in Status /\ mie \in SUBSET Class /\ mepc \in [frame : Nat, at : {"next", "ecall"}]
      /\ mmode_asked \in BOOLEAN
  BY <1>1 DEF ContextInv, RegisterTypes
<1>4. Context(depth) = [mepc |-> mepc, mie |-> mie, mstatus |-> mstatus]
  <2>1. mstatus = [MIE |-> FALSE, MPIE |-> top.was.MIE, MPP |-> top.was.mode]
    BY <1>2, <1>3 DEF Status
  <2> QED BY <1>1, <1>2, <2>1, TopNow
<1>5. mstatus' \in Status /\ mie' \in SUBSET Class /\ mmode_asked' \in BOOLEAN
  BY <1>3 DEF open, narrow, Status, app_vars
<1>6. nested => f.saved = Context(depth)
  BY <1>4 DEF save, save_nested_context
<1>7. ~nested => mstatus' = mstatus /\ mie' = mie
  BY DEF open
<1> QED BY <1>1, <1>2, <1>3, <1>5, <1>6, <1>7, TopContext DEF nested, app_vars

LEMMA MtimerEntryKeeps ==
    ASSUME TrapInv, MtimerEntry, UNCHANGED app_vars PROVE TrapInv'
<1> DEFINE f == [top EXCEPT !.pc = "body", !.saved = save]
<1>1. depth > 0 /\ top.pc = "entry" /\ top.cause = "MTI" /\ set_top(f) /\ at("entry")
  BY DEF MtimerEntry, at
<1>2. f \in Frame /\ f.cause = top.cause /\ f.was = top.was /\ f.saved = save /\ f.pc = "body"
  BY <1>1, TopNow, SaveType DEF Frame
<1> HIDE DEF f
<1>3. counter \in Nat
  BY DEF TrapInv, ContextInv, RegisterTypes
<1>4. ContextInv'
  BY <1>1, <1>2, <1>3, OpenKeeps DEF MtimerEntry, Class
<1>5. CounterInv'
  BY <1>1, <1>2, TopNow, TopCounter DEF Placed, MtimerEntry, TrapInv
<1> QED BY <1>4, <1>5 DEF TrapInv

LEMMA SwEntryKeeps ==
    ASSUME TrapInv, SwEntry, UNCHANGED app_vars PROVE TrapInv'
<1> DEFINE f == [top EXCEPT !.pc = "body", !.saved = save]
<1>1. depth > 0 /\ top.pc = "entry" /\ top.cause = "MSI" /\ set_top(f) /\ at("entry")
  BY DEF SwEntry, at
<1>2. f \in Frame /\ f.cause = top.cause /\ f.was = top.was /\ f.saved = save /\ f.pc = "body"
  BY <1>1, TopNow, SaveType DEF Frame
<1> HIDE DEF f
<1>3. counter \in Nat
  BY DEF TrapInv, ContextInv, RegisterTypes
<1>4. ContextInv'
  BY <1>1, <1>2, <1>3, OpenKeeps DEF SwEntry, Class
<1>5. CounterInv'
  BY <1>1, <1>2, TopNow, TopCounter DEF Placed, SwEntry, TrapInv
<1> QED BY <1>4, <1>5 DEF TrapInv

LEMMA PlicEntryKeeps ==
    ASSUME TrapInv, PlicEntry, UNCHANGED app_vars PROVE TrapInv'
<1>1. PICK s \in Ext :
         /\ IF build.vector THEN counter' = counter + 1 ELSE counter' = counter
         /\ set_top([top EXCEPT !.pc = first_pc, !.saved = save, !.src = s])
  BY DEF PlicEntry, vector_enter
<1> DEFINE f == [top EXCEPT !.pc = first_pc, !.saved = save, !.src = s]
<1>2. depth > 0 /\ top.pc = "entry" /\ top.cause = "MEI" /\ set_top(f) /\ at("entry")
  BY <1>1 DEF PlicEntry, at
<1>3. first_pc = IF build.vector THEN "body" ELSE "inc"
  BY <1>2 DEF first_pc
<1>4. /\ f \in Frame /\ f.cause = top.cause /\ f.was = top.was /\ f.saved = save
      /\ f.pc = first_pc
  BY <1>2, <1>3, TopNow, SaveType DEF Frame
<1> HIDE DEF f
<1>5. counter \in Nat /\ counter' \in Nat
  BY <1>1 DEF TrapInv, ContextInv, RegisterTypes
<1>6. ContextInv'
  <2>1. f.pc \notin {"entry", "mret"}
    BY <1>3, <1>4
  <2> QED BY <1>2, <1>4, <1>5, <2>1, OpenKeeps DEF PlicEntry, Class
<1>7. CounterInv'
  <2>1. stack \in Seq(Frame) /\ CounterInv /\ build' = build
    BY <1>2, TopNow DEF TrapInv, PlicEntry
  <2>2. counter = Cardinality(Counted(depth - 1)) /\ Cardinality(Counted(depth - 1)) \in Nat
    BY <1>2, TopNow
  <2> QED BY <1>1, <1>2, <1>3, <1>4, <2>1, <2>2, TopCounter DEF Placed
<1> QED BY <1>6, <1>7 DEF TrapInv

LEMMA EcallEntryKeeps ==
    ASSUME TrapInv, EcallEntry, UNCHANGED app_vars PROVE TrapInv'
<1> DEFINE f == [top EXCEPT !.pc = "body", !.saved = save]
<1>1. depth > 0 /\ top.pc = "entry" /\ top.cause = "ECALL" /\ set_top(f) /\ ContextInv
  BY DEF EcallEntry, at, TrapInv
<1>2. f \in Frame /\ f.cause = top.cause /\ f.was = top.was /\ f.saved = save /\ f.pc = "body"
  BY <1>1, TopNow, SaveType DEF Frame
<1> HIDE DEF f
<1>3. /\ mstatus.MIE = FALSE /\ mie = top.was.mie
      /\ mepc = [frame |-> depth - 1, at |-> where(top.cause)]
      /\ mstatus.MPIE = top.was.MIE /\ mstatus.MPP = top.was.mode
  BY <1>1 DEF ContextInv, Held, Opened, top
<1>4. /\ mstatus \in Status /\ mie \in SUBSET Class /\ mepc \in [frame : Nat, at : {"next", "ecall"}]
      /\ mmode_asked \in BOOLEAN /\ counter \in Nat
  BY <1>1 DEF ContextInv, RegisterTypes
<1>5. Context(depth) = [mepc |-> mepc, mie |-> mie, mstatus |-> mstatus]
  <2>1. mstatus = [MIE |-> FALSE, MPIE |-> top.was.MIE, MPP |-> top.was.mode]
    BY <1>3, <1>4 DEF Status
  <2> QED BY <1>1, <1>3, <2>1, TopNow
<1>6. nested => f.saved = Context(depth)
  BY <1>2, <1>5 DEF save, save_nested_context
<1>7. /\ mstatus' \in Status /\ mstatus'.MPIE = mstatus.MPIE /\ mstatus'.MPP = mstatus.MPP
      /\ ~nested => mstatus'.MIE = FALSE
  <2>1. mstatus' = [mstatus EXCEPT !.MIE = mstatus.MIE \/ nested] /\ nested \in BOOLEAN
    BY DEF EcallEntry, nested
  <2>2. (mstatus.MIE \/ nested) \in BOOLEAN /\ (~nested => (mstatus.MIE \/ nested) = FALSE)
    BY <1>3
  <2> QED BY <1>4, <2>1, <2>2 DEF Status
<1>8. UNCHANGED <<build, app, mode, mie, mepc, counter, mmode_asked>>
  BY DEF EcallEntry, app_vars
<1>9. ContextInv'
  BY <1>1, <1>2, <1>3, <1>4, <1>6, <1>7, <1>8, TopContext DEF nested
<1>10. CounterInv'
  BY <1>1, <1>2, <1>8, TopNow, TopCounter DEF Placed, TrapInv
<1> QED BY <1>9, <1>10 DEF TrapInv

\* A step that leaves the registers alone and keeps the frame open or closed.
LEMMA QuietContext ==
    ASSUME TrapInv, depth > 0, NEW f \in Frame, set_top(f), counter' \in Nat,
           f.cause = top.cause, f.was = top.was, f.saved = top.saved,
           top.pc \notin {"entry", "mret"}, f.pc \notin {"entry", "mret"},
           UNCHANGED <<build, app, hart>>, mmode_asked' \in BOOLEAN
    PROVE  ContextInv'
<1>1. ContextInv /\ UNCHANGED <<mode, mstatus, mie, mepc>>
  BY DEF TrapInv, hart
<1>2. mstatus \in Status /\ mie \in SUBSET Class /\ mepc \in [frame : Nat, at : {"next", "ecall"}]
  BY <1>1 DEF ContextInv, RegisterTypes
<1>3. nested => f.saved = Context(depth)
  BY TopNow
<1>4. ~nested => /\ mstatus.MIE = FALSE /\ mie = top.was.mie
                 /\ mepc = [frame |-> depth - 1, at |-> where(top.cause)]
                 /\ mstatus.MPIE = top.was.MIE
                 /\ \/ mstatus.MPP = top.was.mode
                    \/ top.cause = "ECALL" /\ mstatus.MPP = "M"
  BY <1>1, TopNow DEF ContextInv, Held
<1> QED BY <1>1, <1>2, <1>3, <1>4, TopContext DEF nested

LEMMA CountLoadKeeps ==
    ASSUME TrapInv, CountLoad, UNCHANGED app_vars PROVE TrapInv'
<1> DEFINE C == Cardinality(Counted(depth - 1))
<1>1. depth > 0 /\ counter \in Nat /\ mmode_asked \in BOOLEAN
  BY DEF CountLoad, at, TrapInv, ContextInv, RegisterTypes
<1>2. UNCHANGED <<build, app, hart, counter, mmode_asked>>
  BY DEF CountLoad, app_vars
<1>3. C \in Nat /\ stack \in Seq(Frame) /\ top \in Frame
  BY <1>1, TopNow
<1>4. CASE at("inc") /\ set_top([top EXCEPT !.pc = "inc2", !.tmp = counter + 1])
  <2> DEFINE f == [top EXCEPT !.pc = "inc2", !.tmp = counter + 1]
  <2>1. top.pc = "inc" /\ top.cause = "MEI" /\ ~build.vector /\ counter = C
    BY <1>1, <1>4, TopNow DEF at, Placed
  <2>2. counter + 1 \in Nat /\ counter + 1 = C + 1
    BY <1>3, <2>1
  <2>3. /\ f \in Frame /\ f.cause = top.cause /\ f.was = top.was /\ f.saved = top.saved
        /\ f.pc = "inc2" /\ f.tmp = counter + 1 /\ set_top(f)
    BY <1>3, <1>4, <2>2 DEF Frame
  <2> HIDE DEF f
  <2>4. ContextInv'
    BY <1>1, <1>2, <2>1, <2>3, QuietContext
  <2>5. CounterInv'
    BY <1>1, <1>2, <1>3, <2>1, <2>2, <2>3, TopCounter DEF Placed, TrapInv
  <2> QED BY <2>4, <2>5 DEF TrapInv
<1>5. CASE at("dec") /\ set_top([top EXCEPT !.pc = "dec2", !.tmp = counter - 1])
  <2> DEFINE f == [top EXCEPT !.pc = "dec2", !.tmp = counter - 1]
  <2>1. top.pc = "dec" /\ top.cause = "MEI" /\ ~build.vector /\ counter = C + 1
    BY <1>1, <1>5, TopNow DEF at, Placed
  <2>2. counter - 1 \in Nat /\ counter - 1 = C
    BY <1>3, <2>1
  <2>3. /\ f \in Frame /\ f.cause = top.cause /\ f.was = top.was /\ f.saved = top.saved
        /\ f.pc = "dec2" /\ f.tmp = counter - 1 /\ set_top(f)
    BY <1>3, <1>5, <2>2 DEF Frame
  <2> HIDE DEF f
  <2>4. ContextInv'
    BY <1>1, <1>2, <2>1, <2>3, QuietContext
  <2>5. CounterInv'
    BY <1>1, <1>2, <1>3, <2>1, <2>2, <2>3, TopCounter DEF Placed, TrapInv
  <2> QED BY <2>4, <2>5 DEF TrapInv
<1> QED BY <1>4, <1>5 DEF CountLoad

LEMMA CountStoreKeeps ==
    ASSUME TrapInv, CountStore, UNCHANGED app_vars PROVE TrapInv'
<1> DEFINE C == Cardinality(Counted(depth - 1))
           f(p) == [top EXCEPT !.pc = p]
<1>1. depth > 0 /\ mmode_asked \in BOOLEAN
  BY DEF CountStore, at, TrapInv, ContextInv, RegisterTypes
<1>2. UNCHANGED <<build, app, hart, mmode_asked>> /\ counter' = top.tmp
  BY DEF CountStore, app_vars
<1>3. C \in Nat /\ stack \in Seq(Frame) /\ top \in Frame /\ top.tmp \in Nat
  BY <1>1, TopNow DEF Frame
<1>4. PICK p \in {"body", "complete"} :
         /\ set_top(f(p)) /\ top.cause = "MEI" /\ ~build.vector
         /\ top.pc \notin {"entry", "mret"}
         /\ top.tmp = C + (IF p = "body" THEN 1 ELSE 0)
  BY <1>1, <1>3, TopNow DEF Placed, CountStore, at, goto
<1>5. /\ f(p) \in Frame /\ f(p).cause = top.cause /\ f(p).was = top.was
      /\ f(p).saved = top.saved /\ f(p).pc = p
  BY <1>3, <1>4 DEF Frame
<1> HIDE DEF f
<1>6. ContextInv'
  BY <1>1, <1>2, <1>3, <1>4, <1>5, QuietContext
<1>7. CounterInv'
  BY <1>1, <1>2, <1>3, <1>4, <1>5, TopCounter DEF Placed, TrapInv
<1> QED BY <1>6, <1>7 DEF TrapInv

LEMMA CompleteKeeps ==
    ASSUME TrapInv, Complete, UNCHANGED app_vars PROVE TrapInv'
<1> DEFINE f == [top EXCEPT !.pc = "close"]
<1>1. depth > 0 /\ top.pc = "complete" /\ set_top(f)
  BY DEF Complete, at, goto
<1>2. counter \in Nat /\ mmode_asked \in BOOLEAN /\ UNCHANGED <<build, app, hart, counter, mmode_asked>>
  BY DEF TrapInv, ContextInv, RegisterTypes, Complete, app_vars
<1>3. /\ f \in Frame /\ f.cause = top.cause /\ f.was = top.was /\ f.saved = top.saved
      /\ f.pc = "close"
  BY <1>1, TopNow DEF Frame
<1> HIDE DEF f
<1>4. ContextInv'
  BY <1>1, <1>2, <1>3, QuietContext
<1>5. CounterInv'
  BY <1>1, <1>2, <1>3, TopNow, TopCounter DEF Placed, TrapInv
<1> QED BY <1>4, <1>5 DEF TrapInv

LEMMA EcallReadMppKeeps ==
    ASSUME TrapInv, EcallReadMpp, UNCHANGED app_vars PROVE TrapInv'
<1> DEFINE f == [top EXCEPT !.pc = "close", !.mpp = mstatus.MPP]
<1>1. depth > 0 /\ top.pc = "mpp" /\ set_top(f)
  BY DEF EcallReadMpp, at
<1>2. /\ counter \in Nat /\ mmode_asked \in BOOLEAN /\ mstatus \in Status
      /\ UNCHANGED <<build, app, hart, counter, mmode_asked>>
  BY DEF TrapInv, ContextInv, RegisterTypes, EcallReadMpp, app_vars
<1>3. /\ f \in Frame /\ f.cause = top.cause /\ f.was = top.was /\ f.saved = top.saved
      /\ f.pc = "close"
  BY <1>1, <1>2, TopNow DEF Frame, Status
<1> HIDE DEF f
<1>4. ContextInv'
  BY <1>1, <1>2, <1>3, QuietContext
<1>5. CounterInv'
  BY <1>1, <1>2, <1>3, TopNow, TopCounter DEF Placed, TrapInv
<1> QED BY <1>4, <1>5 DEF TrapInv

LEMMA CallbackEndKeeps ==
    ASSUME TrapInv, CallbackEnd PROVE TrapInv'
<1> DEFINE f == [top EXCEPT !.pc = after_body]
<1>1. depth > 0 /\ top.pc = "body" /\ set_top(f)
  BY DEF CallbackEnd, callback_return, at, goto
<1>2. /\ counter \in Nat /\ mmode_asked \in BOOLEAN
      /\ UNCHANGED <<build, app, hart, counter, mmode_asked>>
  BY DEF TrapInv, ContextInv, RegisterTypes, CallbackEnd, callback_return, app_vars
<1>3. top \in Frame /\ top.cause \in {"MTI", "MSI", "MEI", "ECALL"}
  BY <1>1, TopNow DEF Frame, Class
<1>4. /\ after_body \in {"close", "complete", "dec", "mpp"}
      /\ after_body = "complete" => top.cause = "MSI"
      /\ after_body = "mpp" => top.cause = "ECALL"
      /\ after_body = "dec" => top.cause = "MEI" /\ ~build.vector
      /\ top.cause = "MEI" => after_body = IF build.vector THEN "close" ELSE "dec"
  BY <1>3 DEF after_body
<1>5. /\ f \in Frame /\ f.cause = top.cause /\ f.was = top.was /\ f.saved = top.saved
      /\ f.pc = after_body
  BY <1>3, <1>4 DEF Frame
<1> HIDE DEF f
<1>6. ContextInv'
  BY <1>1, <1>2, <1>4, <1>5, QuietContext
<1>7. CounterInv'
  <2>1. Placed(f)
    BY <1>4, <1>5 DEF Placed
  <2>2. stack \in Seq(Frame) /\ CounterInv /\ build' = build
    BY <1>1, <1>2, TopNow DEF TrapInv
  <2>3. counter' = Cardinality(Counted(depth - 1)) + (IF top.cause = "MEI" THEN 1 ELSE 0)
    BY <1>1, <1>2, TopNow
  <2> QED BY <1>1, <1>4, <1>5, <2>1, <2>2, <2>3, TopCounter
<1> QED BY <1>6, <1>7 DEF TrapInv

\* What the frame holds, or the registers, is what the handler puts back.
LEMMA CloseKeeps ==
    ASSUME TrapInv, Close, UNCHANGED app_vars PROVE TrapInv'
<1> DEFINE f == [top EXCEPT !.pc = "mret"]
           C == Cardinality(Counted(depth - 1))
<1>1. depth > 0 /\ top.pc = "close" /\ top.cause # "ECALL" /\ set_top(f) /\ ContextInv
  BY DEF Close, at, goto, TrapInv
<1>2. /\ mmode_asked \in BOOLEAN /\ mstatus \in Status /\ mie \in SUBSET Class
      /\ mepc \in [frame : Nat, at : {"next", "ecall"}]
      /\ UNCHANGED <<build, app, mode, mmode_asked>>
  BY DEF TrapInv, ContextInv, RegisterTypes, Close, app_vars
<1>3. f \in Frame /\ f.cause = top.cause /\ f.was = top.was /\ f.pc = "mret"
  BY <1>1, TopNow DEF Frame
<1> HIDE DEF f
<1>4. /\ stack \in Seq(Frame) /\ C \in Nat
      /\ counter = C + (IF top.cause = "MEI" /\ build.vector THEN 1 ELSE 0)
  BY <1>1, TopNow
<1>5. counter' = C
  <2>1. CASE top.cause = "MEI" /\ build.vector
    <3>1. counter' = counter - 1 /\ counter = C + 1
      BY <1>4, <2>1 DEF Close, vector_leave
    <3> QED BY <1>4, <3>1
  <2>2. CASE ~(top.cause = "MEI" /\ build.vector)
    BY <1>4, <2>2 DEF Close
  <2> QED BY <2>1, <2>2
<1>6. where(top.cause) = "next"
  BY <1>1 DEF where
<1>7. /\ mstatus'.MIE = FALSE /\ mie' = top.was.mie
      /\ mepc' = [frame |-> depth - 1, at |-> "next"]
      /\ mstatus'.MPIE = top.was.MIE /\ mstatus'.MPP = top.was.mode
      /\ mstatus' \in Status
  <2>1. CASE nested
    <3>1. top.saved = Context(depth)
      BY <1>1, <2>1, TopNow
    <3>2. mie' = top.saved.mie /\ mstatus' = top.saved.mstatus /\ mepc' = top.saved.mepc
      BY <2>1 DEF Close, restore_nested_context
    <3> QED BY <1>1, <1>6, <3>1, <3>2, TopNow
  <2>2. CASE ~nested
    <3>1. UNCHANGED <<mie, mstatus, mepc>>
      BY <2>2 DEF Close
    <3> QED BY <1>1, <1>2, <1>6, <2>2, <3>1, TopNow DEF ContextInv, Held
  <2> QED BY <2>1, <2>2
<1>8. mie' \in SUBSET Class /\ mepc' \in [frame : Nat, at : {"next", "ecall"}]
  BY <1>1, <1>7, TopNow DEF Frame
<1>9. ContextInv'
  BY <1>1, <1>2, <1>3, <1>4, <1>5, <1>7, <1>8, TopContext
<1>10. CounterInv'
  BY <1>1, <1>2, <1>3, <1>4, <1>5, TopCounter DEF Placed, TrapInv
<1> QED BY <1>9, <1>10 DEF TrapInv

LEMMA EcallCloseKeeps ==
    ASSUME TrapInv, EcallClose, UNCHANGED app_vars PROVE TrapInv'
<1> DEFINE f == [top EXCEPT !.pc = "mret"]
<1>1. depth > 0 /\ top.pc = "close" /\ top.cause = "ECALL" /\ set_top(f) /\ ContextInv
  BY DEF EcallClose, at, goto, TrapInv
<1>2. /\ mmode_asked \in BOOLEAN /\ mstatus \in Status /\ mie \in SUBSET Class
      /\ mepc \in [frame : Nat, at : {"next", "ecall"}] /\ counter \in Nat
      /\ UNCHANGED <<build, app, mode, mmode_asked, counter>>
  BY DEF TrapInv, ContextInv, RegisterTypes, EcallClose, app_vars
<1>3. f \in Frame /\ f.cause = top.cause /\ f.was = top.was /\ f.pc = "mret"
  BY <1>1, TopNow DEF Frame
<1> HIDE DEF f
<1>4. where(top.cause) = "ecall"
  BY <1>1 DEF where
<1>5. /\ mstatus'.MIE = FALSE /\ mie' = top.was.mie
      /\ mepc' = [frame |-> depth - 1, at |-> "next"]
      /\ mstatus'.MPIE = top.was.MIE /\ mstatus'.MPP \in {top.was.mode, "M"}
      /\ mstatus' \in Status
  <2>1. CASE nested
    <3>1. top.saved = Context(depth)
      BY <1>1, <2>1, TopNow
    <3>2. /\ mie' = top.saved.mie /\ mepc' = [top.saved.mepc EXCEPT !.at = "next"]
          /\ mstatus' = [top.saved.mstatus EXCEPT
                            !.MPP = IF top.mpp = "M" THEN "M" ELSE top.saved.mstatus.MPP]
      BY <2>1 DEF EcallClose, skip_ecall
    <3>3. /\ top.saved.mie = top.was.mie
          /\ top.saved.mepc = [frame |-> depth - 1, at |-> "ecall"]
          /\ top.saved.mstatus = [MIE |-> FALSE, MPIE |-> top.was.MIE, MPP |-> top.was.mode]
          /\ top.saved.mstatus \in Status
      BY <1>1, <1>4, <3>1, TopNow
    <3>4. mepc' = [frame |-> depth - 1, at |-> "next"] /\ mie' = top.was.mie
      BY <3>2, <3>3
    <3>5. PICK m : m = (IF top.mpp = "M" THEN "M" ELSE top.saved.mstatus.MPP)
      OBVIOUS
    <3>6. mstatus' = [MIE |-> FALSE, MPIE |-> top.was.MIE, MPP |-> m]
      <4>1. mstatus' = [top.saved.mstatus EXCEPT !.MPP = m]
        BY <3>2, <3>5, Zenon
      <4>2. mstatus' = [[MIE |-> FALSE, MPIE |-> top.was.MIE, MPP |-> top.was.mode] EXCEPT !.MPP = m]
        BY <3>3, <4>1, Zenon
      <4> QED BY ONLY <4>2
    <3>7. m \in {top.was.mode, "M"} /\ m \in {"U", "M"} /\ top.was.MIE \in BOOLEAN
      BY <1>1, <3>3, <3>5, TopNow DEF Frame
    <3> QED BY <3>4, <3>6, <3>7 DEF Status
  <2>2. CASE ~nested
    <3>1. UNCHANGED <<mie, mstatus>> /\ mepc' = [mepc EXCEPT !.at = "next"]
      BY <2>2 DEF EcallClose, skip_ecall
    <3>2. /\ mstatus.MIE = FALSE /\ mie = top.was.mie
          /\ mepc = [frame |-> depth - 1, at |-> "ecall"]
          /\ mstatus.MPIE = top.was.MIE /\ mstatus.MPP \in {top.was.mode, "M"}
      BY <1>1, <1>4, <2>2, TopNow DEF ContextInv, Held
    <3> QED BY <1>2, <3>1, <3>2
  <2> QED BY <2>1, <2>2
<1>6. mie' \in SUBSET Class /\ mepc' \in [frame : Nat, at : {"next", "ecall"}]
  BY <1>1, <1>5, TopNow DEF Frame
<1>7. ContextInv'
  BY <1>1, <1>2, <1>3, <1>5, <1>6, TopContext
<1>8. CounterInv'
  BY <1>1, <1>2, <1>3, TopNow, TopCounter DEF Placed, TrapInv
<1> QED BY <1>7, <1>8 DEF TrapInv

\* The last instruction pops the frame; the one below, if any, is open.
LEMMA MretKeeps ==
    ASSUME TrapInv, Mret, UNCHANGED app_vars PROVE TrapInv'
<1>1. depth > 0 /\ top.pc = "mret" /\ ContextInv /\ stack' = SubSeq(stack, 1, depth - 1)
  BY DEF Mret, at, TrapInv
<1>2. stack \in Seq(Frame) /\ depth \in Nat /\ depth \in 1 .. depth
  BY <1>1, TopNow
<1>3. PICK n \in Nat : depth = n + 1 /\ depth - 1 = n
  BY <1>1, <1>2
<1>4. stack' \in Seq(Frame) /\ depth' = n /\ \A k \in 1 .. n : stack'[k] = stack[k]
  BY <1>1, <1>2, <1>3 DEF depth
<1>5. /\ mstatus \in Status
      /\ mode' = mstatus.MPP /\ mstatus' = [MIE |-> mstatus.MPIE, MPIE |-> TRUE, MPP |-> "U"]
      /\ UNCHANGED <<build, mie, mepc, counter, app, mmode_asked>>
  BY <1>1 DEF Mret, ContextInv, RegisterTypes, app_vars
<1>6. RegisterTypes'
  BY <1>1, <1>4, <1>5 DEF ContextInv, RegisterTypes, Status
<1>7. \A k \in 1 .. n : Opened(k)' = Opened(k) /\ Context(k)' = Context(k)
  BY <1>4, <1>5 DEF Opened, Context
<1>8. Saved'
  BY <1>1, <1>3, <1>4, <1>7 DEF Saved, ContextInv
<1>9. \A k \in 1 .. n : Opened(k) /\ stack[k + 1].was.mode = "M"
  BY <1>1, <1>3 DEF ContextInv, LowerOpen
<1>10. n > 0 => mode' = "M"
  <2> SUFFICES ASSUME n > 0 PROVE mode' = "M"
    OBVIOUS
  <2>1. top.was.mode = "M"
    BY <1>3, <1>9 DEF top
  <2>2. mstatus.MPP = top.was.mode \/ mstatus.MPP = "M"
    BY <1>1, TopNow DEF ContextInv, Held
  <2> QED BY <1>5, <2>1, <2>2
<1>11. LowerOpen'
  <2>1. ASSUME NEW k \in 1 .. n - 1 PROVE Opened(k)' /\ stack'[k + 1].was.mode = "M"
    <3>1. k \in 1 .. n /\ k + 1 \in 1 .. n
      BY <1>3
    <3> QED BY <1>4, <1>7, <1>9, <3>1
  <2> QED BY <1>4, <1>10, <2>1 DEF LowerOpen
<1>12. Held'
  <2>1. depth' > 0 => Opened(n)'
    BY <1>4, <1>7, <1>9
  <2> QED BY <1>4, <2>1 DEF Held, Opened
<1>13. \A m \in 0 .. n : Counted(m)' = Counted(m)
  BY <1>3, <1>4, <1>5 DEF Counted, Counts
<1>14. CounterInv'
  <2>1. counter = Cardinality(Counted(n))
    BY <1>1, <1>3, TopNow
  <2>2. counter' = Cardinality(Counted(n)')
    BY <1>5, <1>13, <2>1
  <2>3. counter' = Cardinality(Counted(depth))'
    BY <1>4, <2>2 DEF Counted
  <2>4. ASSUME NEW k \in 1 .. n
        PROVE  /\ Placed(stack[k])'
               /\ stack'[k].pc = "inc2" => stack'[k].tmp = Cardinality(Counted(k - 1)') + 1
               /\ stack'[k].pc = "dec2" => stack'[k].tmp = Cardinality(Counted(k - 1)')
    <3>1. k \in 1 .. depth /\ k - 1 \in 0 .. n
      BY <1>3
    <3> QED BY <1>4, <1>5, <1>13, <3>1 DEF TrapInv, CounterInv, Placed
  <2> QED BY <1>4, <2>3, <2>4 DEF CounterInv
<1> QED BY <1>6, <1>8, <1>11, <1>12, <1>14 DEF ContextInv, TrapInv

LEMMA HandlerKeeps ==
    ASSUME TrapInv, Handler, UNCHANGED app_vars PROVE TrapInv'
BY MtimerEntryKeeps, SwEntryKeeps, PlicEntryKeeps, EcallEntryKeeps, CountLoadKeeps, CountStoreKeeps,
   CompleteKeeps, CloseKeeps, EcallReadMppKeeps, EcallCloseKeeps, MretKeeps
   DEF Handler

-----------------------------------------------------------------------------
(* The callbacks. *)

\* Only the callback of an ecall asks for machine mode, and interrupts are
\* enabled inside a callback only in a build whose handlers nest.
LEMMA ScriptOps ==
    ASSUME TrapInv, depth > 0, top.i <= Len(script)
    PROVE  /\ script[top.i] = "mmode" => top.cause = "ECALL"
           /\ script[top.i] = "enable" => nested /\ build.unmask
<1> DEFINE S == {"MTI", LOW, HIGH, SW, "clear", "first"}
<1>1. top \in Frame /\ top.i \in Nat \ {0} /\ top.cause \in Class \cup {"ECALL"}
  BY TopNow DEF Frame
<1>2. "mmode" \notin S /\ "enable" \notin S
  BY SourcesAssumption, NamesAssumption DEF SW
<1>3. CASE top.cause = "ECALL"
  <2>1. script = IF build.mmode THEN <<"mmode">> ELSE <<>>
    BY <1>3 DEF script, ecall_handler
  <2>2. script[top.i] = "mmode"
    BY <1>1, <2>1
  <2> QED BY <1>3, <2>2
<1>4. CASE top.cause # "ECALL"
  <2>1. cascade \in Seq(S)
    <3>1. \/ cascade = <<>>
          \/ cascade = <<"MTI", LOW, HIGH>>
          \/ cascade = <<>> \o <<"clear">>
          \/ cascade = <<SW, LOW, HIGH>> \o <<"clear">>
          \/ cascade = <<"first", SW, "MTI", HIGH>>
          \/ cascade = <<"first", SW, "MTI", LOW>>
      BY <1>1, <1>4 DEF cascade, Class
    <3>2. "MTI" \in S /\ LOW \in S /\ HIGH \in S /\ SW \in S /\ "clear" \in S /\ "first" \in S
      OBVIOUS
    <3> HIDE DEF S
    <3>3. /\ <<>> \in Seq(S) /\ <<"MTI", LOW, HIGH>> \in Seq(S) /\ <<"clear">> \in Seq(S)
          /\ <<SW, LOW, HIGH>> \in Seq(S)
          /\ <<"first", SW, "MTI", HIGH>> \in Seq(S) /\ <<"first", SW, "MTI", LOW>> \in Seq(S)
      BY <3>2
    <3>4. <<>> \o <<"clear">> \in Seq(S) /\ <<SW, LOW, HIGH>> \o <<"clear">> \in Seq(S)
      BY ONLY <3>3, ConcatProperties, Zenon
    <3> QED BY <3>1, <3>3, <3>4, Zenon
  <2> HIDE DEF S
  <2>2. CASE build.unmask
    <3>1. top.cause \in build.nest
      BY <1>1, <1>4, <2>2, BuildsAssumption DEF TrapInv, ContextInv, RegisterTypes
    <3>2. script = cascade \o <<"enable">>
      BY <1>4, <2>2 DEF script
    <3>3. script[top.i] \in S \cup {"enable"}
      BY <1>1, <2>1, <3>2
    <3> QED BY <1>2, <2>2, <3>1, <3>3 DEF nested
  <2>3. CASE ~build.unmask
    <3>1. script = cascade \o <<>>
      BY <1>4, <2>3 DEF script
    <3>2. script[top.i] \in S
      BY <1>1, <2>1, <3>1
    <3> QED BY <1>2, <3>2
  <2> QED BY <2>2, <2>3
<1> QED BY <1>3, <1>4

LEMMA CallbackStepKeeps ==
    ASSUME TrapInv, CallbackStep PROVE TrapInv'
<1> DEFINE op == script[top.i]
           f == [top EXCEPT !.i = IF op = "first" /\ top.src \in processed THEN 5 ELSE top.i + 1]
<1>1. depth > 0 /\ top.pc = "body" /\ set_top(f) /\ ContextInv /\ top.i <= Len(script)
  BY DEF CallbackStep, at, TrapInv
<1>2. /\ mmode_asked' \in BOOLEAN /\ UNCHANGED <<build, app, counter>> /\ counter \in Nat
      /\ mstatus \in Status /\ mie \in SUBSET Class /\ mepc \in [frame : Nat, at : {"next", "ecall"}]
  BY DEF CallbackStep, TrapInv, ContextInv, RegisterTypes
<1>3. /\ f \in Frame /\ f.cause = top.cause /\ f.was = top.was /\ f.saved = top.saved
      /\ f.pc = "body"
  <2>1. top \in Frame /\ top.i + 1 \in Nat \ {0} /\ 5 \in Nat \ {0}
    BY <1>1, TopNow DEF Frame
  <2> QED BY <1>1, <2>1 DEF Frame
<1> HIDE DEF f
<1>4. /\ op = "mmode" => top.cause = "ECALL"
      /\ op = "enable" => nested
  BY <1>1, ScriptOps
<1>5. ASSUME op = "mmode" PROVE ContextInv'
  <2>1. mstatus' = [mstatus EXCEPT !.MPP = "M"] /\ UNCHANGED <<mode, mie, mepc>>
    BY <1>5 DEF CallbackStep, enable_mmode
  <2>2. mstatus' \in Status
    BY <1>2, <2>1 DEF Status
  <2>3. nested => f.saved = Context(depth)
    BY <1>1, <1>3, TopNow
  <2>4. ~nested => /\ mstatus.MIE = FALSE /\ mie = top.was.mie
                   /\ mepc = [frame |-> depth - 1, at |-> where(top.cause)]
                   /\ mstatus.MPIE = top.was.MIE
    BY <1>1, TopNow DEF ContextInv, Held
  <2>5. mstatus'.MIE = mstatus.MIE /\ mstatus'.MPIE = mstatus.MPIE /\ mstatus'.MPP = "M"
    BY <1>2, <2>1 DEF Status
  <2> QED BY <1>1, <1>2, <1>3, <1>4, <1>5, <2>1, <2>2, <2>3, <2>4, <2>5, TopContext DEF nested
<1>6. ASSUME op = "enable" PROVE ContextInv'
  <2>1. /\ mstatus' = [mstatus EXCEPT !.MIE = TRUE] /\ mie' = mie \cup {"MEI"}
        /\ UNCHANGED <<mode, mepc>>
    BY <1>6 DEF CallbackStep, interrupt_enable
  <2>2. mstatus' \in Status /\ mie' \in SUBSET Class
    BY <1>2, <2>1 DEF Status, Class
  <2>3. nested /\ f.saved = Context(depth)
    BY <1>1, <1>3, <1>4, <1>6, TopNow
  <2> QED BY <1>1, <1>2, <1>3, <2>1, <2>2, <2>3, TopContext DEF nested
<1>7. ASSUME op \notin {"mmode", "enable"} PROVE ContextInv'
  <2>1. UNCHANGED hart
    BY <1>7 DEF CallbackStep
  <2> QED BY <1>1, <1>2, <1>3, <2>1, QuietContext
<1>8. ContextInv'
  BY <1>5, <1>6, <1>7
<1>9. CounterInv'
  BY <1>1, <1>2, <1>3, TopNow, TopCounter DEF Placed, TrapInv
<1> QED BY <1>8, <1>9 DEF TrapInv

-----------------------------------------------------------------------------
(* The hardware and the main program. *)

\* A trap is taken on top of an open handler or of the main program.
LEMMA PushKeeps ==
    ASSUME TrapInv, NEW c \in Class \cup {"ECALL"}, NEW s \in Ext \cup {SW},
           enter_trap(c, s, where(c)), depth > 0 => Opened(depth),
           UNCHANGED <<build, app, counter, mmode_asked>>
    PROVE  TrapInv'
<1> DEFINE f == [cause |-> c, src |-> s, pc |-> "entry", i |-> 1, tmp |-> 0,
                 mpp |-> "U", saved |-> <<>>,
                 was |-> [mode |-> mode, MIE |-> mstatus.MIE, mie |-> mie]]
<1>1. /\ stack \in Seq(Frame) /\ mode \in {"U", "M"} /\ mstatus \in Status
      /\ mie \in SUBSET Class /\ ContextInv
  BY DEF TrapInv, ContextInv, RegisterTypes
<1>2. /\ mepc' = [frame |-> depth, at |-> where(c)]
      /\ mstatus' = [MIE |-> FALSE, MPIE |-> mstatus.MIE, MPP |-> mode]
      /\ mode' = "M" /\ stack' = Append(stack, f) /\ mie' = mie
  BY DEF enter_trap
<1>3. /\ f \in Frame /\ f.cause = c /\ f.pc = "entry"
      /\ f.was = [mode |-> mode, MIE |-> mstatus.MIE, mie |-> mie]
  BY <1>1 DEF Frame, Status
<1> HIDE DEF f
<1>4. PICK n \in Nat : n = depth
  BY <1>1 DEF depth
<1>5. /\ stack' \in Seq(Frame) /\ depth' = n + 1 /\ stack'[n + 1] = f
      /\ \A k \in 1 .. n : stack'[k] = stack[k]
  BY <1>1, <1>2, <1>3, <1>4 DEF depth
<1>6. top' = f
  BY <1>5 DEF top
<1>7. mepc' \in [frame : Nat, at : {"next", "ecall"}] /\ mstatus' \in Status
  BY <1>1, <1>2, <1>4 DEF where, Status
<1>8. RegisterTypes'
  BY <1>1, <1>2, <1>5, <1>7 DEF ContextInv, RegisterTypes
<1>9. \A k \in 1 .. n : Opened(k)' = Opened(k) /\ Context(k)' = Context(k)
  BY <1>5 DEF Opened, Context
<1>10. Opened(n + 1)' = FALSE
  BY <1>3, <1>5 DEF Opened
<1>11. Saved'
  <2>1. ASSUME NEW k \in 1 .. n + 1, Opened(k)' PROVE stack'[k].saved = Context(k)'
    <3>1. k \in 1 .. n
      BY <1>10, <2>1
    <3> QED BY <1>1, <1>4, <1>5, <1>9, <2>1, <3>1 DEF ContextInv, Saved
  <2> QED BY <1>5, <2>1 DEF Saved
<1>12. LowerOpen'
  <2>1. ASSUME NEW k \in 1 .. n PROVE Opened(k)' /\ stack'[k + 1].was.mode = "M"
    <3>1. CASE k = n
      <4>1. Opened(n)
        BY <1>4, <3>1
      <4>2. mode = "M"
        BY <1>1, <1>4, <3>1 DEF ContextInv, LowerOpen
      <4> QED BY <1>3, <1>5, <1>9, <3>1, <4>1, <4>2
    <3>2. CASE k # n
      <4>1. k \in 1 .. n - 1 /\ k + 1 \in 1 .. n
        BY <3>2
      <4> QED BY <1>1, <1>4, <1>5, <1>9, <4>1 DEF ContextInv, LowerOpen
    <3> QED BY <3>1, <3>2
  <2>2. depth' - 1 = n
    BY <1>5
  <2> QED BY <1>2, <2>1, <2>2 DEF LowerOpen
<1>13. Held'
  <2>1. depth' - 1 = n
    BY <1>5
  <2> QED BY <1>2, <1>3, <1>4, <1>6, <2>1 DEF Held
<1>14. \A m \in 0 .. n : Counted(m)' = Counted(m)
  BY <1>5 DEF Counted, Counts
<1>15. CounterInv'
  <2>1. ~Counts(n + 1)'
    BY <1>3, <1>5 DEF Counts
  <2>2. {k \in 1 .. n + 1 : Counts(k)'} = {k \in 1 .. n : Counts(k)'}
    BY <2>1
  <2>3. Counted(depth)' = Counted(n)
    BY <1>5, <1>14, <2>2 DEF Counted
  <2>4. counter' = Cardinality(Counted(depth))'
    BY <1>4, <2>3 DEF TrapInv, CounterInv
  <2>5. ASSUME NEW k \in 1 .. n + 1
        PROVE  /\ Placed(stack[k])'
               /\ stack'[k].pc = "inc2" => stack'[k].tmp = Cardinality(Counted(k - 1)') + 1
               /\ stack'[k].pc = "dec2" => stack'[k].tmp = Cardinality(Counted(k - 1)')
    <3>1. CASE k = n + 1
      BY <1>3, <1>5, <3>1 DEF Placed
    <3>2. CASE k # n + 1
      <4>1. k \in 1 .. n /\ k - 1 \in 0 .. n
        BY <3>2
      <4> QED BY <1>4, <1>5, <1>14, <4>1 DEF TrapInv, CounterInv, Placed
    <3> QED BY <3>1, <3>2
  <2> QED BY <1>5, <2>4, <2>5 DEF CounterInv
<1> QED BY <1>8, <1>11, <1>12, <1>13, <1>15 DEF ContextInv, TrapInv

\* Inside a handler interrupts are let in only once it is open.
LEMMA InterruptsKeep ==
    ASSUME TrapInv, Interrupts PROVE TrapInv'
<1>1. PICK c \in Class : Interrupt(c)
  BY DEF Interrupts
<1>2. depth > 0 => Opened(depth)
  <2>1. mode = "U" \/ mstatus.MIE
    BY <1>1 DEF Interrupt, accepted
  <2> QED BY <2>1 DEF TrapInv, ContextInv, LowerOpen, Held
<1>3. where(c) = "next"
  BY DEF where, Class
<1>4. \E s \in Ext \cup {SW} : enter_trap(c, s, "next")
  BY <1>1 DEF Interrupt
<1> QED BY <1>1, <1>2, <1>3, <1>4, PushKeeps DEF Interrupts, Interrupt

LEMMA TaskHandlerKeeps ==
    ASSUME TrapInv, TaskHandler PROVE TrapInv'
<1>1. depth = 0 /\ ~(depth > 0) /\ enter_trap("ECALL", SW, where("ECALL"))
  BY DEF TaskHandler, main_at, where
<1> QED BY <1>1, PushKeeps DEF TaskHandler

\* With no trap in progress the registers are the main program's.
LEMMA GroundKeeps ==
    ASSUME TrapInv, depth = 0, UNCHANGED <<build, app, stack, counter, mmode_asked>>,
           mode' \in {"U", "M"}, mstatus' \in Status, mie' \in SUBSET Class,
           mepc' \in [frame : Nat, at : {"next", "ecall"}]
    PROVE  TrapInv'
<1>1. depth' = 0
  BY DEF depth
<1>2. RegisterTypes'
  BY DEF TrapInv, ContextInv, RegisterTypes
<1>3. Saved' /\ LowerOpen' /\ Held'
  BY <1>1 DEF Saved, LowerOpen, Held
<1>4. CounterInv'
  <2>1. Counted(0)' = Counted(0)
    BY DEF Counted, Counts
  <2> QED BY <1>1, <2>1 DEF TrapInv, CounterInv, Counted
<1> QED BY <1>2, <1>3, <1>4 DEF TrapInv, ContextInv

\* The variables of the sleep.
SleepTypes ==
    /\ irq_en \in SUBSET (Ext \cup {SW})
    /\ wfi \in [irq_src : SUBSET (Ext \cup {SW}), mie : SUBSET Class, mstatus : BOOLEAN,
                disable_int : BOOLEAN, claims : Nat,
                before : {<<>>} \cup [irq_en : SUBSET (Ext \cup {SW}), mie : SUBSET Class,
                                     MIE : BOOLEAN]]

LEMMA MainKeeps ==
    ASSUME TrapInv, SleepTypes, Main PROVE TrapInv'
<1>1. /\ mode \in {"U", "M"} /\ mstatus \in Status /\ mie \in SUBSET Class
      /\ mepc \in [frame : Nat, at : {"next", "ecall"}]
  BY DEF TrapInv, ContextInv, RegisterTypes
<1>2. \A b \in BOOLEAN : [mstatus EXCEPT !.MIE = b] \in Status
  BY <1>1 DEF Status
<1>3. "MEI" \in Class
  BY DEF Class
<1>4. CASE IrqDemoSetup
  BY <1>1, <1>2, <1>4, GroundKeeps DEF IrqDemoSetup, main_at
<1>5. CASE IrqDemoStart
  BY <1>1, <1>5, GroundKeeps DEF IrqDemoStart, main_at, hart
<1>6. CASE UmodeSetup
  BY <1>1, <1>2, <1>3, <1>6, GroundKeeps DEF UmodeSetup, main_at, interrupt_enable
<1>7. CASE UmodeEnter
  <2>1. [mstatus EXCEPT !.MPIE = TRUE, !.MPP = "U"] \in Status
    BY <1>1 DEF Status
  <2>2. depth = 0 /\ mepc' = [frame |-> 0, at |-> "next"]
    BY <1>7 DEF UmodeEnter, main_at, enable_umode
  <2> QED BY <1>1, <1>7, <2>1, <2>2, GroundKeeps DEF UmodeEnter, enable_umode
<1>8. CASE TaskHandler
  BY <1>8, TaskHandlerKeeps
<1>9. CASE UmodeCheck
  BY <1>1, <1>9, GroundKeeps DEF UmodeCheck, main_at, trap_vars, hart
<1>10. CASE WfiSetup
  BY <1>1, <1>2, <1>10, GroundKeeps DEF WfiSetup, main_at
<1>11. CASE PreprocessFlag
  <2>1. PICK flag \in BOOLEAN : mstatus' = [mstatus EXCEPT !.MIE = mstatus.MIE /\ ~flag]
    BY <1>11 DEF PreprocessFlag
  <2>2. mstatus' \in Status
    BY <1>2, <2>1
  <2> QED BY <1>1, <1>11, <2>2, GroundKeeps DEF PreprocessFlag, main_at
<1>12. CASE PreprocessSave
  BY <1>1, <1>12, GroundKeeps DEF PreprocessSave, main_at, hart
<1>13. CASE PreprocessMie
  BY <1>1, <1>3, <1>13, GroundKeeps DEF PreprocessMie, main_at
<1>14. CASE WfiWake
  BY <1>1, <1>14, GroundKeeps DEF WfiWake, main_at, trap_vars, hart
<1>15. CASE ClearRequests
  BY <1>1, <1>15, GroundKeeps DEF ClearRequests, main_at, hart
<1>16. CASE PostprocessRestore
  <2>1. wfi.mie \in SUBSET Class
    BY DEF SleepTypes
  <2> QED BY <1>1, <1>16, <2>1, GroundKeeps DEF PostprocessRestore, main_at
<1>17. CASE Postprocess
  <2>1. PICK b \in BOOLEAN : mstatus' = [mstatus EXCEPT !.MIE = b]
    <3>1. mstatus.MIE \in BOOLEAN /\ (mstatus.MIE \/ wfi.mstatus) \in BOOLEAN
      BY <1>1 DEF Status
    <3>2. (IF wfi.disable_int THEN mstatus.MIE \/ wfi.mstatus ELSE mstatus.MIE) \in BOOLEAN
      BY <3>1
    <3> QED BY <1>17, <3>2 DEF Postprocess
  <2>2. mstatus' \in Status
    BY <1>2, <2>1
  <2> QED BY <1>1, <1>17, <2>2, GroundKeeps DEF Postprocess, main_at
<1> QED BY <1>4, <1>5, <1>6, <1>7, <1>8, <1>9, <1>10, <1>11, <1>12, <1>13, <1>14, <1>15, <1>16, <1>17
        DEF Main

\* No handler and no interrupt changes what is enabled in the controller.
LEMMA EnablesKept ==
    ASSUME Handler \/ CallbackStep \/ CallbackEnd \/ Interrupts \/ DeviceRequest
    PROVE  irq_en' = irq_en
<1>1. CASE Handler
  BY <1>1 DEF Handler, MtimerEntry, SwEntry, PlicEntry, EcallEntry, CountLoad, CountStore, Complete,
              Close, EcallReadMpp, EcallClose, Mret, plic
<1>2. CASE CallbackStep
  BY <1>2 DEF CallbackStep, pend, plic
<1>3. CASE CallbackEnd \/ Interrupts \/ DeviceRequest
  BY <1>3 DEF CallbackEnd, callback_return, Interrupts, Interrupt, DeviceRequest, plic
<1> QED BY <1>1, <1>2, <1>3

LEMMA SleepTypesKept ==
    ASSUME SleepTypes, TrapInv, [Next]_vars PROVE SleepTypes'
<1>1. CASE \/ Handler /\ UNCHANGED app_vars
           \/ CallbackStep \/ CallbackEnd \/ Interrupts \/ DeviceRequest
  <2>1. wfi' = wfi
    BY <1>1 DEF app_vars, CallbackStep, CallbackEnd, Interrupts, DeviceRequest
  <2> QED BY <1>1, <2>1, EnablesKept DEF SleepTypes
<1>2. CASE UNCHANGED vars
  BY <1>2 DEF vars, plic, SleepTypes
<1>3. CASE IrqDemoSetup \/ IrqDemoStart \/ UmodeSetup \/ UmodeEnter \/ TaskHandler \/ UmodeCheck
  BY <1>3, SourcesAssumption
     DEF IrqDemoSetup, IrqDemoStart, pend, UmodeSetup, UmodeEnter, TaskHandler, UmodeCheck, trap_vars,
         plic, SleepTypes
<1>4. CASE WfiSetup \/ WfiWake \/ Postprocess
  BY <1>4 DEF WfiSetup, WfiWake, Postprocess, trap_vars, plic, SleepTypes
<1>5. CASE PreprocessFlag
  <2>1. PICK flag \in BOOLEAN :
           wfi' = [wfi EXCEPT !.disable_int = flag, !.before = enabled_now,
                              !.mstatus = IF flag THEN mstatus.MIE ELSE wfi.mstatus]
    BY <1>5 DEF PreprocessFlag
  <2>2. mstatus.MIE \in BOOLEAN /\ mie \in SUBSET Class
    BY DEF TrapInv, ContextInv, RegisterTypes, Status
  <2>3. enabled_now \in [irq_en : SUBSET (Ext \cup {SW}), mie : SUBSET Class, MIE : BOOLEAN]
    BY <2>2 DEF enabled_now, SleepTypes
  <2>4. PICK m \in BOOLEAN : m = (IF flag THEN mstatus.MIE ELSE wfi.mstatus)
    BY <2>2 DEF SleepTypes
  <2>5. irq_en' = irq_en
    BY <1>5 DEF PreprocessFlag, plic
  <2> QED BY <2>1, <2>3, <2>4, <2>5 DEF SleepTypes
<1>6. CASE PreprocessSave
  BY <1>6 DEF PreprocessSave, save_and_disable_all, SleepTypes
<1>7. CASE PreprocessMie
  BY <1>7, SourcesAssumption DEF PreprocessMie, SleepTypes, TrapInv, ContextInv, RegisterTypes
<1>8. CASE ClearRequests
  BY <1>8 DEF ClearRequests, SleepTypes
<1>9. CASE PostprocessRestore
  BY <1>9 DEF PostprocessRestore, SleepTypes
<1> QED BY <1>1, <1>2, <1>3, <1>4, <1>5, <1>6, <1>7, <1>8, <1>9 DEF Next, Hart, Main, Idle

LEMMA TrapInvKept ==
    ASSUME TrapInv, SleepTypes, [Next]_vars PROVE TrapInv'
<1>1. ASSUME UNCHANGED <<build, hart, stack, counter, app, mmode_asked>> PROVE TrapInv'
  <2>1. depth' = depth /\ UNCHANGED <<build, mode, mstatus, mie, mepc, stack, counter, app, mmode_asked>>
    BY <1>1 DEF depth, hart
  <2>2. RegisterTypes'
    BY <2>1 DEF TrapInv, ContextInv, RegisterTypes
  <2>3. Saved' /\ LowerOpen' /\ Held'
    BY <2>1 DEF TrapInv, ContextInv, Saved, LowerOpen, Held, Opened, Context, top
  <2>4. \A n : Counted(n)' = Counted(n)
    BY <2>1 DEF Counted, Counts
  <2>5. CounterInv'
    <3>1. Counted(depth)' = Counted(depth)
      BY <2>1 DEF Counted, Counts
    <3> QED BY <2>1, <2>4, <3>1 DEF TrapInv, CounterInv, Placed
  <2> QED BY <2>2, <2>3, <2>5 DEF TrapInv, ContextInv
<1>2. CASE DeviceRequest
  BY <1>1, <1>2 DEF DeviceRequest
<1>3. CASE UNCHANGED vars
  BY <1>1, <1>3 DEF vars
<1> QED BY <1>2, <1>3, HandlerKeeps, CallbackStepKeeps, CallbackEndKeeps, MainKeeps, InterruptsKeep
        DEF Next, Hart, Idle

LEMMA InitTraps == Init => TrapInv /\ SleepTypes
<1> SUFFICES ASSUME Init PROVE TrapInv /\ SleepTypes
  OBVIOUS
<1>1. stack = <<>> /\ depth = 0 /\ stack \in Seq(Frame)
  BY DEF Init, depth
<1>2. RegisterTypes
  BY <1>1 DEF Init, RegisterTypes, Status
<1>3. Saved /\ LowerOpen /\ Held
  BY <1>1 DEF Saved, LowerOpen, Held
<1>4. CounterInv
  <2>1. counter = Cardinality(Counted(depth))
    BY <1>1, NothingCounted DEF Init
  <2> QED BY <1>1, <2>1 DEF CounterInv
<1>5. SleepTypes
  BY DEF Init, SleepTypes
<1> QED BY <1>2, <1>3, <1>4, <1>5 DEF TrapInv, ContextInv

-----------------------------------------------------------------------------
(***************************************************************************)
(* Whatever interrupts what, to whatever depth, in every build: a trap     *)
(* returns to the instruction after the one it interrupted, with the       *)
(* interrupt enable, the mode and mie it found there                       *)
(* (tlk_core_save_nested_context, tlk_core_restore_nested_context).        *)
(***************************************************************************)
THEOREM TrapsReturn == Spec => []ContextRestored
<1>1. TrapInv => ContextRestored
  <2> SUFFICES ASSUME TrapInv, at("mret") PROVE ContextRestored
    BY DEF ContextRestored
  <2>1. depth > 0 /\ top.pc = "mret" /\ ContextInv
    BY DEF at, TrapInv
  <2> QED BY <2>1, TopNow DEF ContextRestored, ContextInv, Held
<1> QED BY <1>1, InitTraps, TrapInvKept, SleepTypesKept, PTL DEF Spec

(***************************************************************************)
(* tlk_plic_nesting_counter is the number of external handlers in          *)
(* progress at every instruction: a handler that comes between the load    *)
(* and the store of another's ++ or -- has undone its own count by the     *)
(* time the store happens.                                                 *)
(***************************************************************************)
THEOREM NestingCounted == Spec => []CounterExact
<1>1. TrapInv => CounterExact
  BY DEF TrapInv, CounterInv, CounterExact, Counted, Counts
<1> QED BY <1>1, InitTraps, TrapInvKept, SleepTypesKept, PTL DEF Spec

-----------------------------------------------------------------------------
(* Who has claimed what. *)

\* From the claim of a source to its completion.
InService(g) ==
    \/ /\ g.cause = "MEI"
       /\ IF build.vector THEN g.pc \in {"entry", "body", "close"}
          ELSE g.pc \in {"inc", "inc2", "body", "dec", "dec2", "complete"}
    \/ g.cause = "MSI" /\ g.pc \in {"body", "complete"}

ClaimsOwned ==
    /\ \A s \in claimed : \E k \in 1 .. depth : stack[k].src = s /\ InService(stack[k])
    /\ \A k \in 1 .. depth : stack[k].cause = "MSI" => stack[k].src = SW

\* What is claimed after a step of the top frame is in its service, or was
\* not before.
Serves(f) ==
    \A s \in claimed' : \/ f.src = s /\ InService(f)
                        \/ s \in claimed /\ ~(top.src = s /\ InService(top))

LEMMA TopOwns ==
    ASSUME stack \in Seq(Frame), depth > 0, ClaimsOwned, NEW f \in Frame, set_top(f), build' = build,
           f.cause = "MSI" => f.src = SW, Serves(f)
    PROVE  ClaimsOwned'
<1>1. depth \in Nat /\ depth \in 1 .. depth
  BY TopFrame
<1>2. /\ depth' = depth /\ stack'[depth] = f
      /\ \A k \in 1 .. depth : k # depth => stack'[k] = stack[k]
  BY TopReplaced
<1>3. \A g : InService(g)' <=> InService(g)
  BY DEF InService
<1>4. ASSUME NEW s \in claimed'
      PROVE  \E k \in 1 .. depth : stack'[k].src = s /\ InService(stack'[k])
  <2>1. CASE f.src = s /\ InService(f)
    BY <1>1, <1>2, <2>1
  <2>2. CASE s \in claimed /\ ~(top.src = s /\ InService(top))
    <3>1. PICK k \in 1 .. depth : stack[k].src = s /\ InService(stack[k])
      BY <2>2 DEF ClaimsOwned
    <3>2. k # depth
      BY <2>2, <3>1 DEF top
    <3> QED BY <1>2, <3>1, <3>2
  <2> QED BY <2>1, <2>2 DEF Serves
<1>5. ASSUME NEW k \in 1 .. depth, stack'[k].cause = "MSI" PROVE stack'[k].src = SW
  BY <1>2, <1>5 DEF ClaimsOwned
<1> QED BY <1>2, <1>4, <1>5 DEF ClaimsOwned, InService

LEMMA HandlerOwns ==
    ASSUME TrapInv, ClaimsOwned, Handler PROVE ClaimsOwned'
<1>1. depth > 0
  BY DEF Handler, MtimerEntry, SwEntry, PlicEntry, EcallEntry, CountLoad, CountStore, Complete, Close,
         EcallReadMpp, EcallClose, Mret, at
<1>2. /\ stack \in Seq(Frame) /\ top \in Frame /\ depth \in Nat /\ depth \in 1 .. depth
      /\ Placed(top)
  BY <1>1, TopNow
<1>3. top.cause = "MSI" => top.src = SW
  BY <1>2 DEF ClaimsOwned, top
<1>4. top.cause \in {"MTI", "MSI", "MEI", "ECALL"}
  BY <1>2 DEF Frame, Class
\* Most steps neither claim nor complete, and stay on the same side.
<1>5. ASSUME NEW f \in Frame, set_top(f), UNCHANGED <<build, claimed>>, f.cause = top.cause,
             f.src = top.src, InService(top) => InService(f)
      PROVE  ClaimsOwned'
  <2>1. f.cause = "MSI" => f.src = SW
    BY <1>3, <1>5
  <2>2. Serves(f)
    BY <1>5 DEF Serves
  <2>3. set_top(f) /\ build' = build /\ stack \in Seq(Frame)
    BY <1>2, <1>5
  <2> QED BY <1>1, <2>1, <2>2, <2>3, TopOwns
<1>6. CASE MtimerEntry \/ EcallEntry
  <2> DEFINE f == [top EXCEPT !.pc = "body", !.saved = save]
  <2>1. f \in Frame /\ f.cause = top.cause /\ f.src = top.src
    BY <1>2, SaveType DEF Frame
  <2>2. ~InService(top)
    BY <1>6 DEF InService, MtimerEntry, EcallEntry
  <2> QED BY <1>5, <1>6, <2>1, <2>2 DEF MtimerEntry, EcallEntry, plic
<1>7. CASE SwEntry
  <2> DEFINE f == [top EXCEPT !.pc = "body", !.saved = save]
  <2>1. f \in Frame /\ f.cause = top.cause /\ f.src = top.src /\ f.pc = "body" /\ set_top(f)
    BY <1>2, <1>7, SaveType DEF Frame, SwEntry
  <2>2. top.cause = "MSI" /\ top.pc = "entry" /\ build' = build /\ claimed' = claimed \cup {SW}
    BY <1>7 DEF SwEntry, claim, at
  <2> HIDE DEF f
  <2>3. InService(f) /\ f.src = SW /\ ~InService(top)
    BY <1>3, <2>1, <2>2 DEF InService
  <2>4. Serves(f)
    BY <2>2, <2>3 DEF Serves
  <2> QED BY <1>1, <1>2, <2>1, <2>2, <2>3, <2>4, TopOwns
<1>8. CASE PlicEntry
  <2>1. top.cause = "MEI" /\ top.pc = "entry" /\ build' = build
    BY <1>8 DEF PlicEntry, at
  <2>2. PICK s \in Ext : /\ IF build.vector THEN s = top.src /\ claimed' = claimed
                            ELSE claimed' = claimed \cup {s}
                         /\ set_top([top EXCEPT !.pc = first_pc, !.saved = save, !.src = s])
    BY <1>8 DEF PlicEntry, claim
  <2> DEFINE f == [top EXCEPT !.pc = first_pc, !.saved = save, !.src = s]
  <2>3. first_pc = IF build.vector THEN "body" ELSE "inc"
    BY <2>1 DEF first_pc
  <2>4. f \in Frame /\ f.cause = "MEI" /\ f.src = s /\ f.pc = first_pc /\ set_top(f)
    BY <1>2, <2>1, <2>2, <2>3, SaveType DEF Frame
  <2> HIDE DEF f
  <2>5. InService(f) /\ (~build.vector => ~InService(top))
    BY <2>1, <2>3, <2>4 DEF InService
  <2>6. Serves(f)
    BY <2>2, <2>4, <2>5 DEF Serves
  <2>7. f.cause # "MSI" /\ stack \in Seq(Frame)
    BY <1>2, <2>4
  <2> QED BY <1>1, <2>1, <2>4, <2>6, <2>7, TopOwns
<1>9. CASE CountLoad
  <2>1. UNCHANGED <<build, claimed>> /\ counter \in Nat
    BY <1>9 DEF CountLoad, plic, TrapInv, ContextInv, RegisterTypes
  <2>2. CASE at("inc") /\ set_top([top EXCEPT !.pc = "inc2", !.tmp = counter + 1])
    <3> DEFINE f == [top EXCEPT !.pc = "inc2", !.tmp = counter + 1]
    <3>1. counter + 1 \in Nat
      BY <2>1
    <3>2. f \in Frame /\ f.cause = top.cause /\ f.src = top.src /\ f.pc = "inc2"
      BY <1>2, <3>1 DEF Frame
    <3>3. InService(f)
      BY <1>2, <2>2, <3>2 DEF InService, Placed, at
    <3> QED BY <1>5, <2>1, <2>2, <3>2, <3>3
  <2>3. CASE at("dec") /\ set_top([top EXCEPT !.pc = "dec2", !.tmp = counter - 1])
    <3> DEFINE f == [top EXCEPT !.pc = "dec2", !.tmp = counter - 1]
    <3>1. counter - 1 \in Nat
      <4>1. Counts(depth)
        BY <1>1, <1>2, <2>3, TopNow DEF Placed, at
      <4> QED BY <1>1, <4>1, TopNow
    <3>2. f \in Frame /\ f.cause = top.cause /\ f.src = top.src /\ f.pc = "dec2"
      BY <1>2, <3>1 DEF Frame
    <3>3. InService(f)
      BY <1>2, <2>3, <3>2 DEF InService, Placed, at
    <3> QED BY <1>5, <2>1, <2>3, <3>2, <3>3
  <2> QED BY <1>9, <2>2, <2>3 DEF CountLoad
<1>10. CASE CountStore
  <2>1. PICK p \in {"body", "complete"} :
           set_top([top EXCEPT !.pc = p]) /\ top.cause = "MEI" /\ ~build.vector
    BY <1>2, <1>10 DEF CountStore, goto, at, Placed
  <2> DEFINE f == [top EXCEPT !.pc = p]
  <2>2. f \in Frame /\ f.cause = top.cause /\ f.src = top.src /\ f.pc = p
    BY <1>2 DEF Frame
  <2>3. InService(f)
    BY <2>1, <2>2 DEF InService
  <2> QED BY <1>5, <1>10, <2>1, <2>2, <2>3 DEF CountStore, plic
<1>11. CASE Complete \/ Close \/ EcallReadMpp \/ EcallClose
  <2>1. PICK p \in {"close", "mret"}, m \in {"U", "M"} : set_top([top EXCEPT !.pc = p, !.mpp = m])
    <3>1. mstatus.MPP \in {"U", "M"} /\ top.mpp \in {"U", "M"}
      BY <1>2 DEF TrapInv, ContextInv, RegisterTypes, Status, Frame
    <3>2. CASE EcallReadMpp
      BY <3>1, <3>2 DEF EcallReadMpp
    <3>3. CASE Complete \/ Close \/ EcallClose
      <4>1. PICK p \in {"close", "mret"} : set_top([top EXCEPT !.pc = p])
        BY <3>3 DEF Complete, Close, EcallClose, goto
      <4>2. [top EXCEPT !.pc = p] = [top EXCEPT !.pc = p, !.mpp = top.mpp]
        BY <1>2 DEF Frame
      <4> QED BY <3>1, <4>1, <4>2
    <3> QED BY <1>11, <3>2, <3>3
  <2> DEFINE f == [top EXCEPT !.pc = p, !.mpp = m]
  <2>2. f \in Frame /\ f.cause = top.cause /\ f.src = top.src /\ f.pc = p
    BY <1>2 DEF Frame
  <2> HIDE DEF f
  <2>3. build' = build
    BY <1>11 DEF Complete, Close, EcallReadMpp, EcallClose
  <2>4. claimed' = claimed \ {top.src} \/ (claimed' = claimed /\ ~InService(top))
    <3>1. CASE Complete
      BY <3>1 DEF Complete, complete
    <3>2. CASE Close
      BY <1>4, <3>2 DEF Close, complete, InService, at
    <3>3. CASE EcallReadMpp
      BY <1>2, <3>3 DEF EcallReadMpp, plic, InService, at, Placed
    <3>4. CASE EcallClose
      BY <3>4 DEF EcallClose, plic, InService
    <3> QED BY <1>11, <3>1, <3>2, <3>3, <3>4
  <2>5. Serves(f)
    BY <2>4 DEF Serves
  <2> QED BY <1>1, <1>2, <1>3, <2>1, <2>2, <2>3, <2>5, TopOwns DEF f
<1>12. CASE Mret
  <2>1. /\ top.pc = "mret" /\ stack' = SubSeq(stack, 1, depth - 1)
        /\ UNCHANGED <<build, claimed>>
    BY <1>12 DEF Mret, at, plic
  <2>2. PICK n \in Nat : depth = n + 1 /\ depth - 1 = n
    BY <1>1, <1>2
  <2>3. depth' = n /\ \A k \in 1 .. n : stack'[k] = stack[k]
    BY <1>2, <2>1, <2>2 DEF depth
  <2>4. ~InService(top)
    BY <2>1 DEF InService
  <2>5. ASSUME NEW s \in claimed PROVE \E k \in 1 .. n : stack[k].src = s /\ InService(stack[k])
    <3>1. PICK k \in 1 .. depth : stack[k].src = s /\ InService(stack[k])
      BY DEF ClaimsOwned
    <3>2. k # depth
      BY <2>4, <3>1 DEF top
    <3> QED BY <2>2, <3>1, <3>2
  <2>6. ASSUME NEW k \in 1 .. n, stack[k].cause = "MSI" PROVE stack[k].src = SW
    BY <2>2, <2>6 DEF ClaimsOwned
  <2>7. \A s \in claimed : \E k \in 1 .. n : stack'[k].src = s /\ InService(stack[k])'
    <3> SUFFICES ASSUME NEW s \in claimed
                 PROVE  \E k \in 1 .. n : stack'[k].src = s /\ InService(stack[k])'
      OBVIOUS
    <3>1. PICK k \in 1 .. n : stack[k].src = s /\ InService(stack[k])
      BY <2>5
    <3>2. stack'[k].src = s /\ InService(stack[k])'
      BY <2>1, <2>3, <3>1 DEF InService
    <3> QED BY <3>2
  <2>8. \A k \in 1 .. n : stack'[k].cause = "MSI" => stack'[k].src = SW
    BY <2>3, <2>6
  <2> QED BY <2>1, <2>3, <2>7, <2>8 DEF ClaimsOwned
<1> QED BY <1>6, <1>7, <1>8, <1>9, <1>10, <1>11, <1>12 DEF Handler

LEMMA CallbackOwns ==
    ASSUME TrapInv, ClaimsOwned, CallbackStep \/ CallbackEnd PROVE ClaimsOwned'
<1>1. depth > 0 /\ top.pc = "body"
  BY DEF CallbackStep, CallbackEnd, at
<1>2. stack \in Seq(Frame) /\ top \in Frame /\ depth \in 1 .. depth
  BY <1>1, TopNow
<1>3. top.cause = "MSI" => top.src = SW
  BY <1>2 DEF ClaimsOwned, top
<1>4. top.cause \in {"MTI", "MSI", "MEI", "ECALL"}
  BY <1>2 DEF Frame, Class
<1>5. UNCHANGED <<build, claimed>>
  <2>1. CASE CallbackStep
    BY <2>1 DEF CallbackStep, pend, plic
  <2>2. CASE CallbackEnd
    BY <2>2 DEF CallbackEnd, callback_return, plic
  <2> QED BY <2>1, <2>2
<1>6. PICK f \in Frame : /\ set_top(f) /\ f.cause = top.cause /\ f.src = top.src
                         /\ InService(top) => InService(f)
  <2>1. CASE CallbackStep
    <3>1. PICK j \in Nat \ {0} : set_top([top EXCEPT !.i = j])
      <4>1. top.i + 1 \in Nat \ {0} /\ 5 \in Nat \ {0}
        BY <1>2 DEF Frame
      <4> QED BY <2>1, <4>1 DEF CallbackStep
    <3> DEFINE f == [top EXCEPT !.i = j]
    <3>2. f \in Frame /\ f.cause = top.cause /\ f.src = top.src /\ f.pc = top.pc
      BY <1>2 DEF Frame
    <3>3. InService(top) => InService(f)
      BY <3>2 DEF InService
    <3> QED BY <3>1, <3>2, <3>3
  <2>2. CASE CallbackEnd
    <3> DEFINE f == [top EXCEPT !.pc = after_body]
    <3>1. /\ after_body \in {"close", "complete", "dec", "mpp"}
          /\ top.cause = "MSI" => after_body = "complete"
          /\ top.cause = "MEI" => after_body = IF build.vector THEN "close" ELSE "dec"
      BY <1>4 DEF after_body
    <3>2. f \in Frame /\ f.cause = top.cause /\ f.src = top.src /\ f.pc = after_body
      BY <1>2, <3>1 DEF Frame
    <3>3. InService(top) => InService(f)
      BY <3>1, <3>2 DEF InService
    <3>4. set_top(f)
      BY <2>2 DEF CallbackEnd, callback_return, goto
    <3> QED BY <3>2, <3>3, <3>4
  <2> QED BY <2>1, <2>2
<1>7. Serves(f)
  BY <1>5, <1>6 DEF Serves
<1>8. f.cause = "MSI" => f.src = SW
  BY <1>3, <1>6
<1> QED BY <1>1, <1>2, <1>5, <1>6, <1>7, <1>8, TopOwns

\* A vectored interrupt is claimed as its frame is pushed.
LEMMA PushOwns ==
    ASSUME TrapInv, ClaimsOwned, NEW c, NEW s, NEW w, enter_trap(c, s, w), build' = build,
           c = "MSI" => s = SW,
           \/ claimed' = claimed
           \/ claimed' = claimed \cup {s} /\ c = "MEI" /\ build.vector
    PROVE  ClaimsOwned'
<1> DEFINE f == [cause |-> c, src |-> s, pc |-> "entry", i |-> 1, tmp |-> 0,
                 mpp |-> "U", saved |-> <<>>,
                 was |-> [mode |-> mode, MIE |-> mstatus.MIE, mie |-> mie]]
<1>1. stack' = Append(stack, f) /\ f.cause = c /\ f.src = s /\ f.pc = "entry"
  BY DEF enter_trap
<1> HIDE DEF f
<1>2. PICK n \in Nat : n = depth /\ stack \in Seq(Frame)
  BY DEF TrapInv, ContextInv, RegisterTypes, depth
<1>3. depth' = n + 1 /\ stack'[n + 1] = f /\ \A k \in 1 .. n : stack'[k] = stack[k]
  BY <1>1, <1>2 DEF depth
<1>4. ASSUME NEW t \in claimed'
      PROVE  \E k \in 1 .. n + 1 : stack'[k].src = t /\ InService(stack[k])'
  <2>1. CASE t \in claimed
    <3>1. PICK k \in 1 .. n : stack[k].src = t /\ InService(stack[k])
      BY <1>2, <2>1 DEF ClaimsOwned
    <3>2. k \in 1 .. n + 1 /\ stack'[k].src = t /\ InService(stack[k])'
      BY <1>2, <1>3, <3>1 DEF InService
    <3> QED BY <3>2
  <2>2. CASE t \notin claimed
    <3>1. t = s /\ c = "MEI" /\ build.vector
      BY <2>2
    <3>2. n + 1 \in 1 .. n + 1 /\ stack'[n + 1].src = t /\ InService(stack[n + 1])'
      BY <1>1, <1>2, <1>3, <3>1 DEF InService
    <3> QED BY <3>2
  <2> QED BY <2>1, <2>2
<1>5. ASSUME NEW k \in 1 .. n + 1, stack'[k].cause = "MSI" PROVE stack'[k].src = SW
  <2>1. CASE k = n + 1
    BY <1>1, <1>3, <1>5, <2>1
  <2>2. CASE k # n + 1
    <3>1. k \in 1 .. n
      BY <2>2
    <3> QED BY <1>2, <1>3, <1>5, <3>1 DEF ClaimsOwned
  <2> QED BY <2>1, <2>2
<1> QED BY <1>3, <1>4, <1>5 DEF ClaimsOwned

LEMMA ClaimsKept ==
    ASSUME TrapInv, ClaimsOwned, [Next]_vars PROVE ClaimsOwned'
<1>1. ASSUME UNCHANGED <<build, claimed, stack>> PROVE ClaimsOwned'
  BY <1>1 DEF ClaimsOwned, InService, depth
<1>2. CASE Interrupts
  <2>1. PICK c \in Class : Interrupt(c)
    BY <1>2 DEF Interrupts
  <2>2. build' = build
    BY <2>1 DEF Interrupt
  <2>3. CASE c = "MEI" /\ build.vector
    <3>1. PICK s \in Ext : claim(s) /\ enter_trap(c, s, "next")
      BY <2>1, <2>3 DEF Interrupt
    <3>2. claimed' = claimed \cup {s} /\ c # "MSI"
      BY <2>3, <3>1 DEF claim
    <3> QED BY <2>2, <2>3, <3>1, <3>2, PushOwns
  <2>4. CASE ~(c = "MEI" /\ build.vector)
    <3>1. enter_trap(c, SW, "next") /\ claimed' = claimed
      BY <2>1, <2>4 DEF Interrupt
    <3> QED BY <2>2, <3>1, PushOwns
  <2> QED BY <2>3, <2>4
<1>3. CASE TaskHandler
  <2>1. enter_trap("ECALL", SW, "ecall") /\ claimed' = claimed /\ build' = build
    BY <1>3 DEF TaskHandler, plic
  <2> QED BY <2>1, PushOwns
<1>4. CASE \/ IrqDemoSetup \/ IrqDemoStart \/ UmodeSetup \/ UmodeEnter \/ UmodeCheck
           \/ WfiSetup \/ PreprocessFlag \/ PreprocessSave \/ PreprocessMie \/ WfiWake
           \/ ClearRequests \/ PostprocessRestore \/ Postprocess
  <2>1. UNCHANGED <<build, claimed, stack>>
    BY <1>4 DEF IrqDemoSetup, IrqDemoStart, pend, UmodeSetup, UmodeEnter, UmodeCheck, WfiSetup,
                PreprocessFlag, PreprocessSave, PreprocessMie, WfiWake, ClearRequests, clear_one,
                PostprocessRestore, Postprocess, trap_vars, plic
  <2> QED BY <1>1, <2>1
<1>5. CASE DeviceRequest \/ UNCHANGED vars
  BY <1>1, <1>5 DEF DeviceRequest, vars, plic
<1> QED BY <1>2, <1>3, <1>4, <1>5, HandlerOwns, CallbackOwns DEF Next, Hart, Main, Idle

-----------------------------------------------------------------------------
(* The sleep. *)

\* What the main program left in mie and in the global enable: the lowest
\* trap in progress will put it back.
ground == IF depth = 0 THEN [mie |-> mie, MIE |-> mstatus.MIE]
          ELSE [mie |-> stack[1].was.mie, MIE |-> stack[1].was.MIE]

\* Where what was enabled before the sleep is to be found, point by point.
SleepInv ==
    app = "wfi" =>
        /\ pc \in {"main", "pre", "save", "mie", "wfi", "clear", "restore", "post", "done"}
        /\ pc \notin {"main", "pre"} => wfi.before # <<>>
        /\ pc \in {"save", "mie", "wfi", "clear", "restore", "post"} =>
              /\ wfi.disable_int => ~ground.MIE /\ wfi.mstatus = wfi.before.MIE
              /\ ~wfi.disable_int => ground.MIE = wfi.before.MIE
        /\ pc = "save" => irq_en = wfi.before.irq_en
        /\ pc \in {"mie", "wfi", "clear", "restore"} => wfi.irq_src = wfi.before.irq_en
        /\ pc \in {"save", "mie"} => ground.mie = wfi.before.mie
        /\ pc \in {"wfi", "clear", "restore"} => wfi.mie = wfi.before.mie
        /\ pc \in {"post", "done"} => irq_en = wfi.before.irq_en /\ ground.mie = wfi.before.mie
        /\ pc = "done" => ground.MIE = wfi.before.MIE

\* No trap disturbs the ground.
LEMMA GroundKept ==
    ASSUME TrapInv, Handler \/ CallbackStep \/ CallbackEnd \/ (\E c \in Class : Interrupt(c))
    PROVE  ground' = ground
<1>1. stack \in Seq(Frame)
  BY DEF TrapInv, ContextInv, RegisterTypes
<1>2. CASE \E c \in Class : Interrupt(c)
  <2>1. PICK c, s, w : enter_trap(c, s, w)
    BY <1>2 DEF Interrupt
  <2> DEFINE f == [cause |-> c, src |-> s, pc |-> "entry", i |-> 1, tmp |-> 0,
                   mpp |-> "U", saved |-> <<>>,
                   was |-> [mode |-> mode, MIE |-> mstatus.MIE, mie |-> mie]]
  <2>2. stack' = Append(stack, f) /\ f.was.mie = mie /\ f.was.MIE = mstatus.MIE
    BY <2>1 DEF enter_trap
  <2> HIDE DEF f
  <2>3. depth' # 0 /\ stack'[1] = IF depth = 0 THEN f ELSE stack[1]
    BY <1>1, <2>2 DEF depth
  <2> QED BY <2>2, <2>3 DEF ground
<1>3. CASE Mret
  <2>1. /\ depth > 0 /\ top.pc = "mret" /\ stack' = SubSeq(stack, 1, depth - 1)
        /\ mstatus' = [MIE |-> mstatus.MPIE, MPIE |-> TRUE, MPP |-> "U"] /\ mie' = mie
    BY <1>3 DEF Mret, at
  <2>2. mie = top.was.mie /\ mstatus.MPIE = top.was.MIE
    BY <2>1, TopNow DEF TrapInv, ContextInv, Held
  <2>3. PICK n \in Nat : depth = n + 1 /\ depth - 1 = n
    BY <1>1, <2>1 DEF depth
  <2>4. depth' = n /\ \A k \in 1 .. n : stack'[k] = stack[k]
    BY <1>1, <2>1, <2>3 DEF depth
  <2>5. CASE n = 0
    <3>1. ground' = [mie |-> mie', MIE |-> mstatus'.MIE]
      BY <2>4, <2>5 DEF ground
    <3>2. ground = [mie |-> top.was.mie, MIE |-> top.was.MIE]
      BY <2>3, <2>5 DEF ground, top
    <3> QED BY <2>1, <2>2, <3>1, <3>2
  <2>6. CASE n # 0
    <3>1. depth # 0 /\ depth' # 0 /\ stack'[1] = stack[1]
      BY <2>3, <2>4, <2>6
    <3> QED BY <3>1 DEF ground
  <2> QED BY <2>5, <2>6
<1>4. CASE (Handler /\ ~Mret) \/ CallbackStep \/ CallbackEnd
  <2>1. depth > 0
    BY <1>4 DEF Handler, MtimerEntry, SwEntry, PlicEntry, EcallEntry, CountLoad, CountStore, Complete,
                Close, EcallReadMpp, EcallClose, CallbackStep, CallbackEnd, at
  <2>2. top \in Frame
    BY <2>1, TopNow
  <2>3. \E g : set_top(g) /\ g.was = top.was
    <3>1. ASSUME NEW g, set_top(g), g.was = top.was PROVE \E h : set_top(h) /\ h.was = top.was
      BY <3>1
    <3>2. CASE MtimerEntry \/ SwEntry \/ EcallEntry
      <4>1. set_top([top EXCEPT !.pc = "body", !.saved = save])
        BY <3>2 DEF MtimerEntry, SwEntry, EcallEntry
      <4>2. [top EXCEPT !.pc = "body", !.saved = save].was = top.was
        BY <2>2 DEF Frame
      <4> QED BY <3>1, <4>1, <4>2
    <3>3. CASE PlicEntry
      <4>1. PICK r \in Ext : set_top([top EXCEPT !.pc = first_pc, !.saved = save, !.src = r])
        BY <3>3 DEF PlicEntry
      <4>2. [top EXCEPT !.pc = first_pc, !.saved = save, !.src = r].was = top.was
        BY <2>2 DEF Frame
      <4> QED BY <3>1, <4>1, <4>2
    <3>4. CASE CountLoad
      <4>1. PICK p, t : set_top([top EXCEPT !.pc = p, !.tmp = t])
        BY <3>4 DEF CountLoad
      <4>2. [top EXCEPT !.pc = p, !.tmp = t].was = top.was
        BY <2>2 DEF Frame
      <4> QED BY <3>1, <4>1, <4>2
    <3>5. CASE EcallReadMpp
      <4>1. set_top([top EXCEPT !.pc = "close", !.mpp = mstatus.MPP])
        BY <3>5 DEF EcallReadMpp
      <4>2. [top EXCEPT !.pc = "close", !.mpp = mstatus.MPP].was = top.was
        BY <2>2 DEF Frame
      <4> QED BY <3>1, <4>1, <4>2
    <3>6. CASE CountStore \/ Complete \/ Close \/ EcallClose \/ CallbackEnd
      <4>1. PICK p : set_top([top EXCEPT !.pc = p])
        BY <3>6 DEF CountStore, Complete, Close, EcallClose, CallbackEnd, callback_return, goto
      <4>2. [top EXCEPT !.pc = p].was = top.was
        BY <2>2 DEF Frame
      <4> QED BY <3>1, <4>1, <4>2
    <3>7. CASE CallbackStep
      <4>1. PICK j : set_top([top EXCEPT !.i = j])
        BY <3>7 DEF CallbackStep
      <4>2. [top EXCEPT !.i = j].was = top.was
        BY <2>2 DEF Frame
      <4> QED BY <3>1, <4>1, <4>2
    <3> QED BY <1>4, <3>2, <3>3, <3>4, <3>5, <3>6, <3>7 DEF Handler
  <2>4. PICK g : stack' = [stack EXCEPT ![depth] = g] /\ g.was = top.was
    BY <2>3 DEF set_top
  <2>5. depth' = depth /\ stack'[1].was = stack[1].was
    BY <1>1, <2>1, <2>4 DEF depth, top
  <2> QED BY <2>1, <2>5 DEF ground
<1> QED BY <1>2, <1>3, <1>4

\* A trap leaves every part of the sleep's bookkeeping alone, except that it
\* ends the wfi instruction.
LEMMA SleepUntouched ==
    ASSUME SleepInv, ground' = ground, UNCHANGED <<app, irq_en, wfi>>,
           pc' = pc \/ (pc = "wfi" /\ pc' \in {"clear", "restore"})
    PROVE  SleepInv'
<1> SUFFICES ASSUME app = "wfi" PROVE SleepInv'
  BY DEF SleepInv
<1>1. CASE pc' = pc
  BY <1>1 DEF SleepInv
<1>2. CASE pc = "wfi" /\ pc' \in {"clear", "restore"}
  BY <1>2 DEF SleepInv
<1> QED BY <1>1, <1>2

LEMMA SleepInvKept ==
    ASSUME TrapInv, SleepTypes, SleepInv, [Next]_vars PROVE SleepInv'
<1>1. CASE (Handler /\ UNCHANGED app_vars) \/ CallbackStep \/ CallbackEnd
  <2>1. UNCHANGED <<app, wfi, pc>>
    BY <1>1 DEF app_vars, CallbackStep, CallbackEnd
  <2> QED BY <1>1, <2>1, GroundKept, EnablesKept, SleepUntouched
<1>2. CASE Interrupts
  <2>1. UNCHANGED <<app, wfi>> /\ (pc' = pc \/ (pc = "wfi" /\ pc' \in {"clear", "restore"}))
    BY <1>2 DEF Interrupts, main_at, after_wfi
  <2>2. \E c \in Class : Interrupt(c)
    BY <1>2 DEF Interrupts
  <2> QED BY <1>2, <2>1, <2>2, GroundKept, EnablesKept, SleepUntouched
<1>3. CASE DeviceRequest \/ UNCHANGED vars
  <2>1. UNCHANGED <<hart, irq_en, stack, app, pc, wfi>>
    BY <1>3 DEF DeviceRequest, vars, plic
  <2>2. ground' = ground
    BY <2>1 DEF hart, ground, depth
  <2> QED BY <2>1, <2>2, SleepUntouched
<1>4. CASE IrqDemoSetup \/ IrqDemoStart \/ UmodeSetup \/ UmodeEnter \/ TaskHandler \/ UmodeCheck
  <2>1. app # "wfi" /\ app' = app
    BY <1>4 DEF IrqDemoSetup, IrqDemoStart, Irq_demo, UmodeSetup, UmodeEnter, TaskHandler, UmodeCheck
  <2> QED BY <2>1 DEF SleepInv
\* The program itself runs with no trap in progress.
<1>5. ASSUME depth = 0, stack' = stack
      PROVE  /\ ground.mie = mie /\ ground.MIE = mstatus.MIE
             /\ ground'.mie = mie' /\ ground'.MIE = mstatus'.MIE
  BY <1>5 DEF ground, depth
<1>6. mstatus \in Status /\ mstatus.MIE \in BOOLEAN
  BY DEF TrapInv, ContextInv, RegisterTypes, Status
<1>7. CASE WfiSetup
  <2>1. pc' = "pre" /\ app' = app
    BY <1>7 DEF WfiSetup
  <2> QED BY <2>1 DEF SleepInv
<1>8. CASE PreprocessFlag
  <2>1. depth = 0 /\ stack' = stack /\ pc' = "save" /\ mie' = mie /\ irq_en' = irq_en
    BY <1>8 DEF PreprocessFlag, main_at, plic
  <2>2. PICK flag \in BOOLEAN :
           /\ wfi' = [wfi EXCEPT !.disable_int = flag, !.before = enabled_now,
                                 !.mstatus = IF flag THEN mstatus.MIE ELSE wfi.mstatus]
           /\ mstatus' = [mstatus EXCEPT !.MIE = mstatus.MIE /\ ~flag]
    BY <1>8 DEF PreprocessFlag
  <2>3. /\ wfi'.disable_int = flag /\ wfi'.before = enabled_now
        /\ flag => wfi'.mstatus = mstatus.MIE
    BY <2>2 DEF SleepTypes
  <2>4. mstatus'.MIE = (mstatus.MIE /\ ~flag)
    BY <1>6, <2>2 DEF Status
  <2>5. (flag => ~mstatus'.MIE) /\ (~flag => mstatus'.MIE = mstatus.MIE)
    BY <1>6, <2>4
  <2>6. /\ enabled_now.irq_en = irq_en /\ enabled_now.mie = mie /\ enabled_now.MIE = mstatus.MIE
        /\ enabled_now # <<>>
    BY DEF enabled_now
  <2> QED BY <1>5, <2>1, <2>3, <2>5, <2>6 DEF SleepInv
<1>9. CASE PreprocessSave
  <2>1. /\ depth = 0 /\ stack' = stack /\ pc = "save" /\ pc' = "mie" /\ app' = app /\ app = "wfi"
        /\ UNCHANGED <<mie, mstatus>> /\ wfi' = [wfi EXCEPT !.irq_src = irq_en]
    BY <1>9 DEF PreprocessSave, main_at, save_and_disable_all, hart
  <2>2. /\ wfi'.disable_int = wfi.disable_int /\ wfi'.before = wfi.before
        /\ wfi'.mstatus = wfi.mstatus /\ wfi'.irq_src = irq_en
    BY <2>1 DEF SleepTypes
  <2> QED BY <1>5, <2>1, <2>2 DEF SleepInv
<1>10. CASE PreprocessMie
  <2>1. /\ depth = 0 /\ stack' = stack /\ pc = "mie" /\ pc' = "wfi" /\ app' = app /\ app = "wfi"
        /\ mstatus' = mstatus /\ wfi' = [wfi EXCEPT !.mie = mie]
    BY <1>10 DEF PreprocessMie, main_at
  <2>2. /\ wfi'.disable_int = wfi.disable_int /\ wfi'.before = wfi.before
        /\ wfi'.mstatus = wfi.mstatus /\ wfi'.irq_src = wfi.irq_src /\ wfi'.mie = mie
    BY <2>1 DEF SleepTypes
  <2> QED BY <1>5, <2>1, <2>2 DEF SleepInv
<1>11. CASE WfiWake
  <2>1. UNCHANGED <<hart, irq_en, stack, app, wfi>> /\ pc = "wfi" /\ pc' \in {"clear", "restore"}
    BY <1>11 DEF WfiWake, trap_vars, plic, main_at, after_wfi
  <2>2. ground' = ground
    BY <2>1 DEF hart, ground, depth
  <2> QED BY <2>1, <2>2, SleepUntouched
<1>12. CASE ClearRequests
  <2>1. /\ depth = 0 /\ stack' = stack /\ pc = "clear" /\ pc' \in {"clear", "restore"} /\ app' = app
        /\ app = "wfi" /\ UNCHANGED <<mie, mstatus>>
        /\ wfi' = wfi \/ wfi' = [wfi EXCEPT !.claims = wfi.claims + 1]
    BY <1>12 DEF ClearRequests, main_at, hart
  <2>2. /\ wfi'.disable_int = wfi.disable_int /\ wfi'.before = wfi.before
        /\ wfi'.mstatus = wfi.mstatus /\ wfi'.irq_src = wfi.irq_src /\ wfi'.mie = wfi.mie
    BY <2>1 DEF SleepTypes
  <2> QED BY <1>5, <2>1, <2>2 DEF SleepInv
<1>13. CASE PostprocessRestore
  <2>1. /\ depth = 0 /\ stack' = stack /\ pc = "restore" /\ pc' = "post" /\ app' = app /\ app = "wfi"
        /\ mstatus' = mstatus /\ mie' = wfi.mie /\ irq_en' = wfi.irq_src /\ wfi' = wfi
    BY <1>13 DEF PostprocessRestore, main_at
  <2> QED BY <1>5, <2>1 DEF SleepInv
<1>14. CASE Postprocess
  <2>1. /\ depth = 0 /\ stack' = stack /\ pc = "post" /\ pc' = "done" /\ app' = app /\ app = "wfi"
        /\ UNCHANGED <<mie, irq_en, wfi>>
    BY <1>14 DEF Postprocess, main_at, plic
  <2>2. mstatus'.MIE = IF wfi.disable_int THEN mstatus.MIE \/ wfi.mstatus ELSE mstatus.MIE
    BY <1>6, <1>14 DEF Postprocess, Status
  <2>3. mstatus'.MIE = wfi.before.MIE
    <3>1. CASE wfi.disable_int
      <4>1. ~mstatus.MIE /\ wfi.mstatus = wfi.before.MIE /\ wfi.mstatus \in BOOLEAN
        BY <1>5, <2>1, <3>1 DEF SleepInv, SleepTypes
      <4>2. mstatus'.MIE = (mstatus.MIE \/ wfi.mstatus)
        BY <2>2, <3>1
      <4> QED BY <4>1, <4>2
    <3>2. CASE ~wfi.disable_int
      BY <1>5, <2>1, <2>2, <3>2 DEF SleepInv
    <3> QED BY <3>1, <3>2
  <2> QED BY <1>5, <2>1, <2>3 DEF SleepInv
<1> QED BY <1>1, <1>2, <1>3, <1>4, <1>7, <1>8, <1>9, <1>10, <1>11, <1>12, <1>13, <1>14
        DEF Next, Hart, Main, Idle

LEMMA InitSleep == Init => ClaimsOwned /\ SleepInv
<1> SUFFICES ASSUME Init PROVE ClaimsOwned /\ SleepInv
  OBVIOUS
<1>1. depth = 0 /\ claimed = {} /\ pc = "main"
  BY DEF Init, depth
<1> QED BY <1>1 DEF ClaimsOwned, SleepInv

(***************************************************************************)
(* However the sleep ends, and whatever handlers run on the way: after     *)
(* tlk_plic_postprocess_irqs_for_wfi the enabled sources, mie and the      *)
(* global enable are what tlk_plic_preprocess_irqs_for_wfi found, and no   *)
(* source is left in service.                                              *)
(***************************************************************************)
THEOREM SleepRestores == Spec => []WfiRestored
<1>1. TrapInv /\ SleepTypes /\ ClaimsOwned /\ SleepInv => WfiRestored
  <2> SUFFICES ASSUME TrapInv, SleepTypes, ClaimsOwned, SleepInv, app = "wfi", pc = "done", depth = 0
               PROVE  enabled_now = wfi.before /\ claimed = {}
    BY DEF WfiRestored
  <2>1. claimed = {}
    BY DEF ClaimsOwned
  <2>2. wfi.before \in [irq_en : SUBSET (Ext \cup {SW}), mie : SUBSET Class, MIE : BOOLEAN]
    BY DEF SleepInv, SleepTypes
  <2>3. ground.mie = mie /\ ground.MIE = mstatus.MIE
    BY DEF ground
  <2>4. irq_en = wfi.before.irq_en /\ mie = wfi.before.mie /\ mstatus.MIE = wfi.before.MIE
    BY <2>3 DEF SleepInv
  <2>5. enabled_now = wfi.before
    BY <2>2, <2>4 DEF enabled_now
  <2> QED BY <2>1, <2>5
<1> QED BY <1>1, InitTraps, InitSleep, TrapInvKept, SleepTypesKept, ClaimsKept, SleepInvKept, PTL
        DEF Spec

-----------------------------------------------------------------------------
(* Who can be on top of whom. *)

\* What the handler of frame g lets in: its mask, and what a callback that
\* enables interrupts adds.
lets(g) ==
    IF g.cause = "ECALL" THEN Class
    ELSE build.allow[g.cause] \cup (IF build.unmask THEN {"MEI"} ELSE {})

Narrowed ==
    /\ \A k \in 1 .. depth : Opened(k) => mie \subseteq lets(stack[k])
    /\ \A j, k \in 1 .. depth : j < k =>
          /\ stack[k].was.mie \subseteq lets(stack[j])
          /\ stack[k].cause # "ECALL" => stack[k].cause \in lets(stack[j])

\* An external handler's source is claimed while in service; only a handler
\* of the build without vectors that has completed its source can have
\* another of the same source above it.
SourceInv ==
    /\ \A k \in 1 .. depth : stack[k].cause = "MEI" =>
          /\ stack[k].src \in IF ~build.vector /\ stack[k].pc = "entry" THEN {SW} ELSE Ext
          /\ InService(stack[k]) => stack[k].src \in claimed
    /\ \A j, k \in 1 .. depth :
          (j < k /\ stack[j].cause = "MEI" /\ stack[k].cause = "MEI" /\ stack[j].src = stack[k].src) =>
              ~build.vector /\ stack[j].pc = "close"

NestInv == Narrowed /\ SourceInv

\* An interrupted or open external handler is in service, or has completed.
LEMMA OpenService ==
    ASSUME TrapInv, NEW k \in 1 .. depth, Opened(k), stack[k].cause = "MEI", ~InService(stack[k])
    PROVE  ~build.vector /\ stack[k].pc = "close"
<1>1. stack[k] \in Frame /\ Placed(stack[k])
  BY DEF TrapInv, ContextInv, RegisterTypes, CounterInv, depth
<1> QED BY <1>1 DEF Frame, Placed, Opened, InService

\* A step of the top frame.
LEMMA TopNests ==
    ASSUME TrapInv, NestInv, depth > 0, NEW f \in Frame, set_top(f), build' = build,
           f.cause = top.cause, f.was = top.was,
           \/ mie' \subseteq mie \/ (build.unmask /\ mie' = mie \cup {"MEI"}) \/ mie' = top.was.mie,
           f.cause \in build.nest /\ f.pc \notin {"entry", "mret"} => mie' \subseteq lets(f),
           f.cause = "MEI" => f.src \in IF ~build.vector /\ f.pc = "entry" THEN {SW} ELSE Ext,
           f.cause = "MEI" /\ InService(f) => f.src \in claimed',
           f.src = top.src \/ (top.pc = "entry" /\ f.src \notin claimed),
           \A s \in claimed \ claimed' : top.src = s /\ (top.cause = "MEI" \/ s \notin Ext)
    PROVE  NestInv'
<1>1. stack \in Seq(Frame) /\ depth \in Nat /\ depth \in 1 .. depth
  BY TopNow
<1>2. /\ depth' = depth /\ stack'[depth] = f
      /\ \A k \in 1 .. depth : k # depth => stack'[k] = stack[k]
  BY <1>1, TopReplaced
<1>3. \A k \in 1 .. depth : stack'[k].cause = stack[k].cause /\ stack'[k].was = stack[k].was
  BY <1>2 DEF top
<1>4. \A k \in 1 .. depth : k < depth => Opened(k)
  BY <1>1 DEF TrapInv, ContextInv, LowerOpen
<1>5. \A g, h : g.cause = h.cause => lets(g)' = lets(h)
  BY DEF lets
<1>6. ASSUME NEW k \in 1 .. depth, Opened(k)' PROVE mie' \subseteq lets(stack[k])'
  <2>1. CASE k = depth
    BY <1>2, <1>5, <1>6, <2>1 DEF Opened
  <2>2. CASE k # depth
    <3>1. k < depth /\ Opened(k) /\ stack'[k] = stack[k]
      BY <1>1, <1>2, <1>4, <2>2
    <3>2. mie \subseteq lets(stack[k]) /\ top.was.mie \subseteq lets(stack[k])
      BY <1>1, <3>1 DEF NestInv, Narrowed, top
    <3>3. build.unmask /\ "MEI" \in Class => "MEI" \in lets(stack[k])
      BY DEF lets
    <3>4. mie' \subseteq lets(stack[k])
      BY <3>2, <3>3 DEF Class
    <3> QED BY <3>1, <3>4 DEF lets
  <2> QED BY <2>1, <2>2
<1>7. Narrowed'
  <2>1. ASSUME NEW j \in 1 .. depth, NEW k \in 1 .. depth, j < k
        PROVE  /\ stack'[k].was.mie \subseteq lets(stack[j])'
               /\ stack'[k].cause # "ECALL" => stack'[k].cause \in lets(stack[j])'
    <3>1. lets(stack[j])' = lets(stack[j])
      BY <1>3 DEF lets
    <3> QED BY <1>3, <2>1, <3>1 DEF NestInv, Narrowed
  <2> QED BY <1>2, <1>6, <2>1 DEF Narrowed
<1>8. ASSUME NEW k \in 1 .. depth, stack'[k].cause = "MEI"
      PROVE  /\ stack'[k].src \in IF ~build.vector /\ stack'[k].pc = "entry" THEN {SW} ELSE Ext
             /\ InService(stack[k])' => stack'[k].src \in claimed'
  <2>1. CASE k = depth
    BY <1>2, <1>8, <2>1 DEF InService
  <2>2. CASE k # depth
    <3>1. k < depth /\ Opened(k) /\ stack'[k] = stack[k] /\ stack[k].cause = "MEI"
      BY <1>1, <1>2, <1>4, <1>8, <2>2
    <3>2. stack[k].src \in Ext /\ (InService(stack[k]) => stack[k].src \in claimed)
      BY <3>1 DEF NestInv, SourceInv, Opened
    <3>3. ASSUME InService(stack[k]), stack[k].src \notin claimed' PROVE FALSE
      <4>1. top.src = stack[k].src /\ top.cause = "MEI"
        BY <3>2, <3>3
      <4>2. ~build.vector /\ stack[k].pc = "close"
        BY <1>1, <3>1, <4>1 DEF NestInv, SourceInv, top
      <4> QED BY <3>1, <3>3, <4>2 DEF InService
    <3>4. InService(stack[k])' <=> InService(stack[k])
      BY <3>1 DEF InService
    <3> QED BY <3>1, <3>2, <3>3, <3>4 DEF Opened
  <2> QED BY <2>1, <2>2
<1>9. ASSUME NEW j \in 1 .. depth, NEW k \in 1 .. depth, j < k, stack'[j].cause = "MEI",
             stack'[k].cause = "MEI", stack'[j].src = stack'[k].src
      PROVE  ~build.vector /\ stack'[j].pc = "close"
  <2>1. j # depth /\ j < depth /\ stack'[j] = stack[j] /\ Opened(j) /\ stack[j].cause = "MEI"
    BY <1>1, <1>2, <1>4, <1>9
  <2>2. CASE k # depth \/ f.src = top.src
    <3>1. stack'[k].src = stack[k].src
      BY <1>2, <2>2 DEF top
    <3> QED BY <1>3, <1>9, <2>1, <3>1 DEF NestInv, SourceInv
  <2>3. CASE k = depth /\ f.src # top.src
    <3>1. stack[j].src \notin claimed
      BY <1>2, <1>9, <2>1, <2>3
    <3>2. ~InService(stack[j])
      BY <2>1, <3>1 DEF NestInv, SourceInv
    <3> QED BY <2>1, <3>2, OpenService
  <2> QED BY <2>2, <2>3
<1>10. SourceInv'
  BY <1>2, <1>8, <1>9 DEF SourceInv
<1> QED BY <1>7, <1>10 DEF NestInv

\* A trap is taken: its class is let in by every open handler below, and a
\* vectored source is not in service.
LEMMA PushNests ==
    ASSUME TrapInv, NestInv, NEW c \in Class \cup {"ECALL"}, NEW s, NEW w, enter_trap(c, s, w),
           build' = build, depth > 0 => Opened(depth) /\ c \in mie,
           IF c = "MEI" /\ build.vector THEN s \in Ext \ claimed /\ claimed' = claimed \cup {s}
                                       ELSE s = SW /\ claimed' = claimed
    PROVE  NestInv'
<1> DEFINE f == [cause |-> c, src |-> s, pc |-> "entry", i |-> 1, tmp |-> 0,
                 mpp |-> "U", saved |-> <<>>,
                 was |-> [mode |-> mode, MIE |-> mstatus.MIE, mie |-> mie]]
<1>1. /\ stack' = Append(stack, f) /\ f.cause = c /\ f.src = s /\ f.pc = "entry"
      /\ f.was.mie = mie /\ mie' = mie
  BY DEF enter_trap
<1> HIDE DEF f
<1>2. PICK n \in Nat : n = depth /\ stack \in Seq(Frame)
  BY DEF TrapInv, ContextInv, RegisterTypes, depth
<1>3. depth' = n + 1 /\ stack'[n + 1] = f /\ \A k \in 1 .. n : stack'[k] = stack[k]
  BY <1>1, <1>2 DEF depth
<1>4. \A k \in 1 .. n : Opened(k) /\ c \in mie
  BY <1>2 DEF TrapInv, ContextInv, LowerOpen
<1>5. \A k \in 1 .. n : mie \subseteq lets(stack[k])
  BY <1>2, <1>4 DEF NestInv, Narrowed
<1>6. \A k \in 1 .. n : lets(stack[k])' = lets(stack[k]) /\ (InService(stack[k])' <=> InService(stack[k]))
  BY <1>3 DEF lets, InService
<1>7. Narrowed'
  <2>1. ASSUME NEW k \in 1 .. n + 1, Opened(k)' PROVE mie' \subseteq lets(stack[k])'
    <3>1. k # n + 1
      BY <1>1, <1>3, <2>1 DEF Opened
    <3>2. k \in 1 .. n
      BY <3>1
    <3> QED BY <1>1, <1>5, <1>6, <3>2
  <2>2. ASSUME NEW j \in 1 .. n + 1, NEW k \in 1 .. n + 1, j < k
        PROVE  /\ stack'[k].was.mie \subseteq lets(stack[j])'
               /\ stack'[k].cause # "ECALL" => stack'[k].cause \in lets(stack[j])'
    <3>1. j \in 1 .. n
      BY <2>2
    <3>2. CASE k = n + 1
      BY <1>1, <1>3, <1>4, <1>5, <1>6, <3>1, <3>2
    <3>3. CASE k # n + 1
      <4>1. k \in 1 .. n
        BY <3>3
      <4> QED BY <1>2, <1>3, <1>6, <2>2, <3>1, <4>1 DEF NestInv, Narrowed
    <3> QED BY <3>2, <3>3
  <2> QED BY <1>3, <2>1, <2>2 DEF Narrowed
<1>8. ASSUME NEW k \in 1 .. n, stack[k].cause = "MEI"
      PROVE  /\ stack[k].src \in Ext
             /\ InService(stack[k]) => stack[k].src \in claimed
  BY <1>2, <1>4, <1>8 DEF NestInv, SourceInv, Opened
<1>9. ASSUME NEW k \in 1 .. n + 1, stack'[k].cause = "MEI"
      PROVE  /\ stack'[k].src \in IF ~build.vector /\ stack'[k].pc = "entry" THEN {SW} ELSE Ext
             /\ InService(stack[k])' => stack'[k].src \in claimed'
  <2>1. CASE k = n + 1
    BY <1>1, <1>3, <1>9, <2>1 DEF InService
  <2>2. CASE k # n + 1
    <3>1. k \in 1 .. n
      BY <2>2
    <3>2. stack'[k] = stack[k] /\ stack[k].pc # "entry"
      BY <1>3, <1>4, <3>1 DEF Opened
    <3>3. claimed \subseteq claimed'
      OBVIOUS
    <3> QED BY <1>6, <1>8, <1>9, <3>1, <3>2, <3>3
  <2> QED BY <2>1, <2>2
<1>10. ASSUME NEW j \in 1 .. n + 1, NEW k \in 1 .. n + 1, j < k, stack'[j].cause = "MEI",
              stack'[k].cause = "MEI", stack'[j].src = stack'[k].src
       PROVE  ~build.vector /\ stack'[j].pc = "close"
  <2>1. j \in 1 .. n /\ stack'[j] = stack[j] /\ stack[j].cause = "MEI"
    BY <1>3, <1>10
  <2>2. CASE k = n + 1
    <3>1. stack[j].src = s /\ c = "MEI" /\ stack[j].src \in Ext
      BY <1>1, <1>3, <1>8, <1>10, <2>1, <2>2
    <3>2. SW \notin Ext
      BY NamesAssumption
    <3>3. s \notin claimed
      BY <3>1, <3>2
    <3>4. ~InService(stack[j])
      BY <1>8, <2>1, <3>1, <3>3
    <3> QED BY <1>2, <1>4, <2>1, <3>4, OpenService
  <2>3. CASE k # n + 1
    <3>1. k \in 1 .. n
      BY <2>3
    <3> QED BY <1>2, <1>3, <1>10, <2>1, <3>1 DEF NestInv, SourceInv
  <2> QED BY <2>2, <2>3
<1>11. SourceInv'
  BY <1>3, <1>9, <1>10 DEF SourceInv
<1> QED BY <1>7, <1>11 DEF NestInv

LEMMA HandlerNests ==
    ASSUME TrapInv, ClaimsOwned, NestInv, Handler PROVE NestInv'
<1>1. depth > 0
  BY DEF Handler, MtimerEntry, SwEntry, PlicEntry, EcallEntry, CountLoad, CountStore, Complete, Close,
         EcallReadMpp, EcallClose, Mret, at
<1>2. /\ stack \in Seq(Frame) /\ top \in Frame /\ depth \in Nat /\ depth \in 1 .. depth
      /\ Placed(top)
  BY <1>1, TopNow
<1>3. top.cause = "MSI" => top.src = SW
  BY <1>2 DEF ClaimsOwned, top
<1>4. top.cause = "MEI" =>
         /\ top.src \in IF ~build.vector /\ top.pc = "entry" THEN {SW} ELSE Ext
         /\ InService(top) => top.src \in claimed
  BY <1>2 DEF NestInv, SourceInv, top
<1>5. top.cause \in Class \cup {"ECALL"} /\ mie \in SUBSET Class
  BY <1>2 DEF Frame, TrapInv, ContextInv, RegisterTypes
<1>6. nested /\ top.pc \notin {"entry", "mret"} => mie \subseteq lets(top)
  BY <1>1, <1>2, TopNow DEF NestInv, Narrowed, top
\* Most steps leave the registers and the claims alone.
<1>7. ASSUME NEW f \in Frame, set_top(f), UNCHANGED <<build, mie, claimed>>, f.cause = top.cause,
             f.was = top.was, f.src = top.src, top.pc # "entry", f.pc # "entry", top.pc # "mret",
             f.cause = "MEI" /\ InService(f) => InService(top)
      PROVE  NestInv'
  <2>1. lets(f) = lets(top)
    BY <1>7 DEF lets
  <2>2. f.cause = "MEI" => f.src \in Ext
    BY <1>4, <1>7
  <2>3. f.cause = "MEI" /\ InService(f) => f.src \in claimed'
    BY <1>4, <1>7
  <2>4. f.cause \in build.nest /\ f.pc \notin {"entry", "mret"} => mie' \subseteq lets(f)
    BY <1>6, <1>7, <2>1 DEF nested
  <2>5. mie' \subseteq mie /\ claimed' = claimed /\ build' = build /\ set_top(f)
    BY <1>7
  <2> QED BY <1>1, <1>7, <2>2, <2>3, <2>4, <2>5, TopNests
<1>8. CASE MtimerEntry \/ SwEntry \/ EcallEntry
  <2> DEFINE f == [top EXCEPT !.pc = "body", !.saved = save]
  <2>1. /\ f \in Frame /\ f.cause = top.cause /\ f.src = top.src /\ f.was = top.was /\ f.pc = "body"
        /\ set_top(f)
    BY <1>2, <1>8, SaveType DEF Frame, MtimerEntry, SwEntry, EcallEntry
  <2> HIDE DEF f
  <2>2. build' = build /\ claimed \subseteq claimed' /\ f.cause # "MEI"
    BY <1>8, <2>1 DEF MtimerEntry, SwEntry, EcallEntry, claim, plic
  <2>3. mie' \subseteq mie /\ (nested => mie' \subseteq lets(f))
    <3>1. CASE EcallEntry
      BY <1>5, <2>1, <3>1 DEF EcallEntry, lets
    <3>2. CASE MtimerEntry \/ SwEntry
      BY <2>1, <3>2 DEF MtimerEntry, SwEntry, open, narrow, lets
    <3> QED BY <1>8, <3>1, <3>2
  <2> QED BY <1>1, <2>1, <2>2, <2>3, TopNests DEF nested
<1>9. CASE PlicEntry
  <2>1. top.cause = "MEI" /\ top.pc = "entry" /\ build' = build /\ open("MEI")
    BY <1>9 DEF PlicEntry, at
  <2>2. PICK s \in Ext : /\ IF build.vector THEN s = top.src /\ claimed' = claimed
                            ELSE s \notin claimed /\ claimed' = claimed \cup {s}
                         /\ set_top([top EXCEPT !.pc = first_pc, !.saved = save, !.src = s])
    BY <1>9 DEF PlicEntry, claim, best, presented
  <2> DEFINE f == [top EXCEPT !.pc = first_pc, !.saved = save, !.src = s]
  <2>3. first_pc = IF build.vector THEN "body" ELSE "inc"
    BY <2>1 DEF first_pc
  <2>4. /\ f \in Frame /\ f.cause = top.cause /\ f.src = s /\ f.pc = first_pc /\ set_top(f)
        /\ f.was = top.was
    BY <1>2, <2>2, <2>3, SaveType DEF Frame
  <2> HIDE DEF f
  <2>5. mie' \subseteq mie /\ (nested => mie' \subseteq lets(f))
    BY <2>1, <2>4 DEF open, narrow, lets
  <2>6. f.src \in claimed'
    <3>1. build.vector => InService(top)
      BY <2>1 DEF InService
    <3> QED BY <1>4, <2>1, <2>2, <2>4, <3>1
  <2>7. claimed \subseteq claimed' /\ (f.src = top.src \/ f.src \notin claimed)
    BY <2>2, <2>4
  <2>8. f.src \in Ext /\ f.pc # "entry"
    BY <2>3, <2>4
  <2> QED BY <1>1, <2>1, <2>4, <2>5, <2>6, <2>7, <2>8, TopNests DEF nested
<1>10. CASE CountLoad
  <2>1. UNCHANGED <<build, mie, claimed>> /\ counter \in Nat
    BY <1>10 DEF CountLoad, hart, plic, TrapInv, ContextInv, RegisterTypes
  <2>2. PICK p \in {"inc2", "dec2"}, t \in Nat :
           /\ set_top([top EXCEPT !.pc = p, !.tmp = t])
           /\ top.pc \in {"inc", "dec"}
    <3>1. CASE at("inc") /\ set_top([top EXCEPT !.pc = "inc2", !.tmp = counter + 1])
      <4>1. counter + 1 \in Nat
        BY <2>1
      <4> QED BY <3>1, <4>1 DEF at
    <3>2. CASE at("dec") /\ set_top([top EXCEPT !.pc = "dec2", !.tmp = counter - 1])
      <4>1. Counts(depth)
        BY <1>1, <1>2, <3>2, TopNow DEF Placed, at
      <4>2. counter - 1 \in Nat
        BY <1>1, <4>1, TopNow
      <4> QED BY <3>2, <4>2 DEF at
    <3> QED BY <1>10, <3>1, <3>2 DEF CountLoad
  <2> DEFINE f == [top EXCEPT !.pc = p, !.tmp = t]
  <2>3. f \in Frame /\ f.cause = top.cause /\ f.src = top.src /\ f.was = top.was /\ f.pc = p
    BY <1>2 DEF Frame
  <2>4. InService(top)
    BY <1>2, <2>2 DEF InService, Placed
  <2> QED BY <1>7, <2>1, <2>2, <2>3, <2>4
<1>11. CASE CountStore
  <2>1. PICK p \in {"body", "complete"} :
           set_top([top EXCEPT !.pc = p]) /\ top.pc \in {"inc2", "dec2"}
    BY <1>11 DEF CountStore, goto, at
  <2> DEFINE f == [top EXCEPT !.pc = p]
  <2>2. f \in Frame /\ f.cause = top.cause /\ f.src = top.src /\ f.was = top.was /\ f.pc = p
    BY <1>2 DEF Frame
  <2>3. InService(top)
    BY <1>2, <2>1 DEF InService, Placed
  <2>4. UNCHANGED <<build, mie, claimed>>
    BY <1>11 DEF CountStore, hart, plic
  <2> QED BY <1>7, <2>1, <2>2, <2>3, <2>4
<1>12. CASE EcallReadMpp
  <2> DEFINE f == [top EXCEPT !.pc = "close", !.mpp = mstatus.MPP]
  <2>1. mstatus.MPP \in {"U", "M"}
    BY DEF TrapInv, ContextInv, RegisterTypes, Status
  <2>2. f \in Frame /\ f.cause = top.cause /\ f.src = top.src /\ f.was = top.was /\ f.pc = "close"
    BY <1>2, <2>1 DEF Frame
  <2>3. top.pc = "mpp" /\ top.cause = "ECALL" /\ set_top(f) /\ UNCHANGED <<build, mie, claimed>>
    BY <1>2, <1>12 DEF EcallReadMpp, at, Placed, hart, plic
  <2> QED BY <1>7, <2>2, <2>3
<1>13. CASE Complete
  <2> DEFINE f == [top EXCEPT !.pc = "close"]
  <2>1. /\ f \in Frame /\ f.cause = top.cause /\ f.src = top.src /\ f.was = top.was /\ f.pc = "close"
        /\ set_top(f)
    BY <1>2, <1>13 DEF Frame, Complete, goto
  <2> HIDE DEF f
  <2>2. /\ top.pc = "complete" /\ UNCHANGED <<build, mie>> /\ claimed' = claimed \ {top.src}
        /\ top.cause \in {"MSI", "MEI"} /\ (top.cause = "MEI" => ~build.vector)
    BY <1>2, <1>13 DEF Complete, complete, at, hart, Placed
  <2>3. nested => mie' \subseteq lets(f)
    BY <1>6, <2>1, <2>2 DEF lets
  <2>4. f.cause = "MEI" => f.src \in Ext /\ ~InService(f)
    BY <1>4, <2>1, <2>2 DEF InService
  <2>5. \A s \in claimed \ claimed' : top.src = s /\ (top.cause = "MEI" \/ s \notin Ext)
    BY <1>3, <2>2, NamesAssumption
  <2> QED BY <1>1, <2>1, <2>2, <2>3, <2>4, <2>5, TopNests DEF nested
<1>14. CASE Close \/ EcallClose
  <2> DEFINE f == [top EXCEPT !.pc = "mret"]
  <2>1. /\ f \in Frame /\ f.cause = top.cause /\ f.src = top.src /\ f.was = top.was /\ f.pc = "mret"
        /\ set_top(f)
    BY <1>2, <1>14 DEF Frame, Close, EcallClose, goto
  <2> HIDE DEF f
  <2>2. build' = build /\ top.pc = "close"
    BY <1>14 DEF Close, EcallClose, at
  <2>3. mie' = mie \/ mie' = top.was.mie
    <3>1. nested => top.saved.mie = top.was.mie
      BY <1>1, <2>2, TopNow
    <3> QED BY <1>14, <3>1 DEF Close, EcallClose, restore_nested_context
  <2>4. ~InService(f) /\ (f.cause = "MEI" => f.src \in Ext)
    BY <1>4, <2>1, <2>2 DEF InService
  <2>5. claimed' = claimed \/ (top.cause = "MEI" /\ claimed' = claimed \ {top.src})
    BY <1>14 DEF Close, EcallClose, complete, plic
  <2>6. \A s \in claimed \ claimed' : top.src = s /\ (top.cause = "MEI" \/ s \notin Ext)
    BY <2>5
  <2> QED BY <1>1, <2>1, <2>2, <2>3, <2>4, <2>6, TopNests
<1>15. CASE Mret
  <2>1. stack' = SubSeq(stack, 1, depth - 1) /\ UNCHANGED <<build, mie, claimed>>
    BY <1>15 DEF Mret, plic
  <2>2. PICK n \in Nat : depth = n + 1 /\ depth - 1 = n
    BY <1>1, <1>2
  <2>3. depth' = n /\ \A k \in 1 .. n : stack'[k] = stack[k] /\ k \in 1 .. depth
    BY <1>2, <2>1, <2>2 DEF depth
  <2>4. ASSUME NEW k \in 1 .. n
        PROVE  /\ k \in 1 .. depth /\ stack'[k] = stack[k]
               /\ lets(stack[k])' = lets(stack[k])
               /\ Opened(k)' <=> Opened(k)
               /\ InService(stack[k])' <=> InService(stack[k])
    <3>1. k \in 1 .. depth /\ stack'[k] = stack[k]
      BY <2>3
    <3>2. lets(stack[k])' = lets(stack[k])
      BY <2>1, <3>1 DEF lets
    <3>3. Opened(k)' <=> Opened(k)
      BY <2>1, <3>1 DEF Opened
    <3>4. InService(stack[k])' <=> InService(stack[k])
      BY <2>1, <3>1 DEF InService
    <3> QED BY <3>1, <3>2, <3>3, <3>4
  <2>5. Narrowed'
    <3>1. ASSUME NEW k \in 1 .. n, Opened(k)' PROVE mie' \subseteq lets(stack[k])'
      <4>1. k \in 1 .. depth /\ Opened(k) /\ lets(stack[k])' = lets(stack[k])
        BY <2>4, <3>1
      <4>2. mie \subseteq lets(stack[k])
        BY <4>1 DEF NestInv, Narrowed
      <4> QED BY <2>1, <4>1, <4>2
    <3>2. ASSUME NEW j \in 1 .. n, NEW k \in 1 .. n, j < k
          PROVE  /\ stack'[k].was.mie \subseteq lets(stack[j])'
                 /\ stack'[k].cause # "ECALL" => stack'[k].cause \in lets(stack[j])'
      <4>1. /\ j \in 1 .. depth /\ k \in 1 .. depth
            /\ stack'[k] = stack[k] /\ lets(stack[j])' = lets(stack[j])
        BY <2>4
      <4>2. /\ stack[k].was.mie \subseteq lets(stack[j])
            /\ stack[k].cause # "ECALL" => stack[k].cause \in lets(stack[j])
        BY <3>2, <4>1 DEF NestInv, Narrowed
      <4> QED BY <4>1, <4>2
    <3> QED BY <2>3, <3>1, <3>2 DEF Narrowed
  <2>6. SourceInv'
    <3>1. ASSUME NEW k \in 1 .. n, stack'[k].cause = "MEI"
          PROVE  /\ stack'[k].src \in IF ~build.vector /\ stack'[k].pc = "entry" THEN {SW} ELSE Ext
                 /\ InService(stack[k])' => stack'[k].src \in claimed'
      <4>1. /\ k \in 1 .. depth /\ stack'[k] = stack[k] /\ stack[k].cause = "MEI"
            /\ InService(stack[k])' <=> InService(stack[k])
        BY <2>4, <3>1
      <4>2. /\ stack[k].src \in IF ~build.vector /\ stack[k].pc = "entry" THEN {SW} ELSE Ext
            /\ InService(stack[k]) => stack[k].src \in claimed
        BY <4>1 DEF NestInv, SourceInv
      <4> QED BY <2>1, <4>1, <4>2
    <3>2. ASSUME NEW j \in 1 .. n, NEW k \in 1 .. n, j < k, stack'[j].cause = "MEI",
                 stack'[k].cause = "MEI", stack'[j].src = stack'[k].src
          PROVE  ~build.vector /\ stack'[j].pc = "close"
      BY <2>3, <3>2 DEF NestInv, SourceInv
    <3> QED BY <2>1, <2>3, <3>1, <3>2 DEF SourceInv
  <2> QED BY <2>5, <2>6 DEF NestInv
<1> QED BY <1>8, <1>9, <1>10, <1>11, <1>12, <1>13, <1>14, <1>15 DEF Handler

LEMMA CallbackNests ==
    ASSUME TrapInv, NestInv, CallbackStep \/ CallbackEnd PROVE NestInv'
<1>1. depth > 0 /\ top.pc = "body"
  BY DEF CallbackStep, CallbackEnd, at
<1>2. stack \in Seq(Frame) /\ top \in Frame /\ depth \in 1 .. depth
  BY <1>1, TopNow
<1>3. top.cause = "MEI" => top.src \in Ext /\ (InService(top) => top.src \in claimed)
  BY <1>1, <1>2 DEF NestInv, SourceInv, top
<1>4. nested => mie \subseteq lets(top)
  BY <1>1, <1>2, TopNow DEF NestInv, Narrowed, top
<1>5. top.cause = "MEI" => InService(top)
  BY <1>1 DEF InService
<1>6. CASE CallbackStep
  <2>1. PICK j \in Nat \ {0} : set_top([top EXCEPT !.i = j])
    <3>1. top.i + 1 \in Nat \ {0} /\ 5 \in Nat \ {0}
      BY <1>2 DEF Frame
    <3> QED BY <1>6, <3>1 DEF CallbackStep
  <2> DEFINE f == [top EXCEPT !.i = j]
  <2>2. /\ f \in Frame /\ f.cause = top.cause /\ f.src = top.src /\ f.pc = "body" /\ f.was = top.was
        /\ set_top(f)
    BY <1>1, <1>2, <2>1 DEF Frame
  <2>3. UNCHANGED <<build, claimed>>
    BY <1>6 DEF CallbackStep, pend, plic
  <2>4. mie' = mie \/ (build.unmask /\ mie' = mie \cup {"MEI"})
    <3>1. script[top.i] = "enable" => build.unmask
      BY <1>1, <1>6, ScriptOps DEF CallbackStep
    <3> QED BY <1>6, <3>1 DEF CallbackStep, interrupt_enable, hart
  <2> HIDE DEF f
  <2>5. nested => mie' \subseteq lets(f)
    BY <1>4, <2>2, <2>4 DEF lets, Class
  <2>6. f.cause = "MEI" => f.src \in Ext /\ f.src \in claimed'
    BY <1>3, <1>5, <2>2, <2>3
  <2> QED BY <1>1, <2>2, <2>3, <2>4, <2>5, <2>6, TopNests DEF nested
<1>7. CASE CallbackEnd
  <2> DEFINE f == [top EXCEPT !.pc = after_body]
  <2>1. after_body \in {"close", "complete", "dec", "mpp"}
    <3>1. top.cause \in {"MTI", "MSI", "MEI", "ECALL"}
      BY <1>2 DEF Frame, Class
    <3> QED BY <3>1 DEF after_body
  <2>2. /\ f \in Frame /\ f.cause = top.cause /\ f.src = top.src /\ f.was = top.was
        /\ f.pc = after_body /\ set_top(f)
    BY <1>2, <1>7, <2>1 DEF Frame, CallbackEnd, callback_return, goto
  <2> HIDE DEF f
  <2>3. UNCHANGED <<build, claimed, mie>> /\ f.pc # "entry"
    BY <1>7, <2>1, <2>2 DEF CallbackEnd, callback_return, plic, hart
  <2>4. nested => mie' \subseteq lets(f)
    BY <1>4, <2>2, <2>3 DEF lets
  <2> QED BY <1>1, <1>3, <1>5, <2>2, <2>3, <2>4, TopNests DEF nested
<1> QED BY <1>6, <1>7

LEMMA NestsKept ==
    ASSUME TrapInv, ClaimsOwned, NestInv, [Next]_vars PROVE NestInv'
<1>1. CASE Interrupts
  <2>1. PICK c \in Class : Interrupt(c)
    BY <1>1 DEF Interrupts
  <2>2. build' = build /\ c \in mie /\ (mode = "U" \/ mstatus.MIE)
    BY <2>1 DEF Interrupt, accepted
  <2>3. depth > 0 => Opened(depth)
    BY <2>2 DEF TrapInv, ContextInv, LowerOpen, Held
  <2>4. CASE c = "MEI" /\ build.vector
    <3>1. PICK s \in Ext : presented(s) /\ claim(s) /\ enter_trap(c, s, "next")
      BY <2>1, <2>4 DEF Interrupt
    <3>2. s \in Ext \ claimed /\ claimed' = claimed \cup {s}
      BY <3>1 DEF presented, claim
    <3> QED BY <2>2, <2>3, <2>4, <3>1, <3>2, PushNests
  <2>5. CASE ~(c = "MEI" /\ build.vector)
    <3>1. enter_trap(c, SW, "next") /\ claimed' = claimed
      BY <2>1, <2>5 DEF Interrupt
    <3> QED BY <2>2, <2>3, <2>5, <3>1, PushNests
  <2> QED BY <2>4, <2>5
<1>2. CASE TaskHandler
  <2>1. enter_trap("ECALL", SW, "ecall") /\ claimed' = claimed /\ build' = build /\ ~(depth > 0)
    BY <1>2 DEF TaskHandler, plic, main_at
  <2> QED BY <2>1, PushNests
<1>3. CASE \/ IrqDemoSetup \/ IrqDemoStart \/ UmodeSetup \/ UmodeEnter \/ UmodeCheck
           \/ WfiSetup \/ PreprocessFlag \/ PreprocessSave \/ PreprocessMie \/ WfiWake
           \/ ClearRequests \/ PostprocessRestore \/ Postprocess
  <2>1. depth = 0 /\ stack' = stack
    BY <1>3 DEF IrqDemoSetup, IrqDemoStart, UmodeSetup, UmodeEnter, UmodeCheck, WfiSetup,
                PreprocessFlag, PreprocessSave, PreprocessMie, WfiWake, ClearRequests,
                PostprocessRestore, Postprocess, trap_vars, main_at
  <2>2. depth' = 0
    BY <2>1 DEF depth
  <2> QED BY <2>2 DEF NestInv, Narrowed, SourceInv
<1>4. CASE DeviceRequest \/ UNCHANGED vars
  <2>1. UNCHANGED <<build, mie, claimed, stack>> /\ depth' = depth
    BY <1>4 DEF DeviceRequest, vars, plic, hart, depth
  <2>2. Narrowed'
    BY <2>1 DEF NestInv, Narrowed, lets, Opened
  <2>3. SourceInv'
    BY <2>1 DEF NestInv, SourceInv, InService
  <2> QED BY <2>2, <2>3 DEF NestInv
<1> QED BY <1>1, <1>2, <1>3, <1>4, HandlerNests, CallbackNests DEF Next, Hart, Main, Idle

(***************************************************************************)
(* A handler comes on top of another only where the lower one nests and    *)
(* its MIE mask (or its callback) lets the upper one's class in, and no    *)
(* external source has two frames in service: with vectors, where the      *)
(* completion is masked, it has never more than one frame at all.  So the  *)
(* depth of nesting, and the stack it takes, is bounded by the sources     *)
(* (tlk_plic_handle, TLK_PLIC_MIE_MASK and the like).                      *)
(***************************************************************************)
THEOREM NestingLimited == Spec => []NestingBounded
<1>1. TrapInv /\ NestInv => NestingBounded
  <2> SUFFICES ASSUME TrapInv, NestInv, NEW j \in 1 .. depth, NEW k \in 1 .. depth, j < k
               PROVE  /\ stack[j].cause \in build.nest \/ build.unmask
                      /\ stack[j].cause # "ECALL" /\ stack[k].cause # "ECALL" =>
                            \/ stack[k].cause \in build.allow[stack[j].cause]
                            \/ build.unmask /\ stack[k].cause = "MEI"
                      /\ (stack[k].src = stack[j].src /\ stack[k].cause = "MEI"
                          /\ stack[j].cause = "MEI") => ~build.vector /\ stack[j].pc \in {"close"}
    BY DEF NestingBounded
  <2>1. j \in 1 .. depth - 1
    BY DEF TrapInv, ContextInv, RegisterTypes, depth
  <2>2. stack[j].cause \in build.nest
    BY <2>1 DEF TrapInv, ContextInv, LowerOpen, Opened
  <2>3. stack[j].cause # "ECALL" /\ stack[k].cause # "ECALL" =>
            stack[k].cause \in build.allow[stack[j].cause] \cup (IF build.unmask THEN {"MEI"} ELSE {})
    BY DEF NestInv, Narrowed, lets
  <2> QED BY <2>2, <2>3 DEF NestInv, SourceInv
<1>2. Init => NestInv
  <2>1. Init => depth = 0
    BY DEF Init, depth
  <2> QED BY <2>1 DEF NestInv, Narrowed, SourceInv
<1> QED BY <1>1, <1>2, InitTraps, InitSleep, TrapInvKept, SleepTypesKept, ClaimsKept, NestsKept, PTL
        DEF Spec
=============================================================================
