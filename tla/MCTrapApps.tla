----------------------------- MODULE MCTrapApps -----------------------------
(* Two external sources; no, some or all handlers nest, with every mask    *)
(* open, open to external interrupts, or closed to the handler's own class *)
EXTENDS TrapApps

MCPrio == [s \in Ext |-> IF s = HIGH THEN 2 ELSE 1]

\* No mask has the timer's own bit in the timer handler.
Open == [c \in Class |-> IF c = "MTI" THEN {"MSI", "MEI"} ELSE Class]
Masks == {Open, [c \in Class |-> {"MEI"}], [c \in Class |-> Open[c] \ {c}]}

All ==
    [nest : {{}, {"MEI"}, Class, Class \cup {"ECALL"}}, allow : Masks,
     vector : BOOLEAN, preempt : BOOLEAN, unmask : BOOLEAN, mmode : BOOLEAN]

\* Callbacks that enable interrupts need nested handlers; the option to let
\* the ecall handler nest and change the mode is in MCLostMode.
MCBuilds ==
    {b \in All : /\ "ECALL" \in b.nest => ~b.mmode
                 /\ b.unmask => Class \subseteq b.nest
                 /\ b.preempt => "MEI" \in b.nest /\ "MEI" \in b.allow["MEI"]}

MCLostMode ==
    {b \in All : /\ b.nest = Class \cup {"ECALL"} /\ b.mmode /\ ~b.unmask /\ ~b.preempt
                 /\ ~b.vector /\ b.allow = [c \in Class |-> {"MEI"}]}
=============================================================================
