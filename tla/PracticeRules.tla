--------------------------- MODULE PracticeRules ----------------------------
(* What a close does to the profile of the paper practice: the patch rules   *)
(* that the live loop and the replay of history share.                       *)
EXTENDS Integers

Regimes == {"long_friendly", "short_friendly", "risk_off", "no_trade"}
Adverse == {"stop_loss", "risk_disallowed", "regime_degraded"}
Reasons == Adverse \cup {"take_profit", "time_stop"}

AtMost(bound, n) == IF n > bound THEN bound ELSE n
AtLeast(bound, n) == IF n < bound THEN bound ELSE n

(* Mutant: the hold window shrinks below its floor. *)
HalvedHold(bars) == bars - 2

ShorterHold(bars) == AtLeast(4, bars - 2)

(* _build_profile_patch on the payload the close was decided with, merged by *)
(* _apply_profile_patch into the payload that is active when it is applied.  *)
(* take_profit is only ever a gain, so every reason has its patch.           *)
Patched(loaded, active, reason) ==
  IF reason \in Adverse
  THEN [conf |-> AtMost(95, loaded.conf + 5),
        cooldown |-> AtMost(12, loaded.cooldown + 1), timeStop |-> active.timeStop]
  ELSE IF reason = "time_stop"
  THEN [conf |-> AtMost(90, loaded.conf + 2),
        cooldown |-> active.cooldown, timeStop |-> ShorterHold(loaded.timeStop)]
  ELSE [conf |-> AtLeast(55, loaded.conf - 2),
        cooldown |-> active.cooldown, timeStop |-> active.timeStop]
=============================================================================
