--------------------------- MODULE MCWalkForward ----------------------------
(* Small instances of WalkForward for TLC. *)
EXTENDS WalkForward

Scored(price, conf, regime) == [price |-> price, conf |-> conf, regime |-> regime]

(* A price that moves by more than the thresholds either way, bars that a    *)
(* stricter profile refuses, and a regime that ends a position.              *)
MCBars == {Scored(1000, 64, "long_friendly"), Scored(1020, 64, "long_friendly"),
           Scored(1000, 95, "risk_off")}

MCProfile == [conf |-> 60, cooldown |-> 4, timeStop |-> 4]

MCWindows == <<6, 8>>
ShortWindows == <<2, 4>>
=============================================================================
