-------------------------- MODULE MCPaperPractice ---------------------------
(* Small instances of PaperPractice for TLC. *)
EXTENDS PaperPractice

(* Default thresholds of _default_profile_payload, met and just missed. *)
MCPnl == {-100, 149, 150}

(* The payload after six time stops and six taken profits. *)
ShortHold == [conf |-> 60, cooldown |-> 4, timeStop |-> 4]
=============================================================================
