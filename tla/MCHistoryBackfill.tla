---- MODULE MCHistoryBackfill ----
(* Instances of HistoryBackfill for TLC.                                   *)
EXTENDS HistoryBackfill

(* quickstart_300d needs all of its window, full_730d does not.            *)
MCProfileLookback == [f \in Profiles |-> IF f = "quickstart_300d" THEN 2 ELSE 4]
MCRequiredDays == [f \in Profiles |-> IF f = "quickstart_300d" THEN 2 ELSE 3]
====
