----------------------------- MODULE MCStorage -----------------------------
(***************************************************************************)
(* A flash of two pages, a small device without pages and a device that    *)
(* can only be read.                                                       *)
(***************************************************************************)
EXTENDS Storage

FlashBase == [flash |-> 0, ram |-> 6, rom |-> 8]
FlashSize == [flash |-> 6, ram |-> 2, rom |-> 1]
FlashPage == [flash |-> 3, ram |-> 0, rom |-> 0]
FlashOps == [flash |-> {"read", "write", "erase"}, ram |-> {"read", "write"},
             rom |-> {"read"}]
AllRegistered == {<<"flash", "ram", "rom">>}
=============================================================================
