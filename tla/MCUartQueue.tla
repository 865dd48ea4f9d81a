----------------------------- MODULE MCUartQueue -----------------------------
(* Instance of UartQueue for TLC: "long" stands for every string that does not *)
(* fit a slot, "long_cut" for what is left of it; "a" tells the order of two   *)
(* messages.                                                                   *)
EXTENDS UartQueue

MCText == {"a", "long", "long_cut"}
MCFit  == [m \in MCText |-> IF m = "long" THEN "long_cut" ELSE m]
=============================================================================
