----------------------------- MODULE PaperRules -----------------------------
(***************************************************************************)
(* The decisions of the paper-trading pipeline, as predicates and functions *)
(* of the rows they read: what policy a condition run gets, what verdict    *)
(* risk gives it, when an execution intent is ready, and when settlement    *)
(* accepts an entry or an exit.  Rows are records; amounts are integers in  *)
(* base units, times are minutes.                                           *)
(***************************************************************************)
EXTENDS Integers

CONSTANTS
  Mints,            \* token mints that quotes can name
  USDC,             \* the base currency's mint
  Tracked,          \* settings.token_universe
  KnownDecimals,    \* mints whose decimals the registry or a metadata row gives
  ConfiguredSizes,  \* settings.quote_amounts_lamports
  MaxQuoteAge,      \* _INTENT_MAX_QUOTE_AGE = _SETTLEMENT_MAX_QUOTE_AGE
  AllowLong,        \* the bias map's allow_new_long_hypotheses of long_friendly
  AllowShort        \* the bias map's allow_new_short_hypotheses of short_friendly

ASSUME RulesAssumption ==
  /\ USDC \in Mints
  /\ Tracked \subseteq Mints
  /\ KnownDecimals \subseteq Mints
  /\ ConfiguredSizes \subseteq Nat \ {0}
  /\ MaxQuoteAge \in Nat
  /\ AllowLong \in BOOLEAN
  /\ AllowShort \in BOOLEAN

(* The integer that stands for an output amount that is NULL or unparsable. *)
NoAmount == -1

Regimes == {"long_friendly", "short_friendly", "risk_off", "no_trade"}
PolicyStates == {"eligible_long", "eligible_short", "no_trade"}
RiskStates == {"allowed", "no_trade", "halted"}

(* Directions after _normalize_direction: "buy" and "usdc_to_token" are one *)
(* value, "sell" and "token_to_usdc" another, everything else a third.      *)
Directions == {"usdc_to_token", "token_to_usdc", "unsupported"}

(* What the feature run's freshness snapshot says of its required lanes:    *)
(* all eligible, some lane not eligible, or nothing that can be read (no    *)
(* feature run, no snapshot, a malformed one).                              *)
LaneReadings == {"eligible", "ineligible", "unreadable"}

(* A condition scoring run with its latest snapshot and the feature run it  *)
(* was scored from.  status "failed" stands for every run the policy owner  *)
(* refuses: not successful, of another condition set, or with no snapshot.  *)
Condition == [status: {"success", "failed"}, regime: Regimes,
              blocked: BOOLEAN, lanes: LaneReadings]

(* in_amt and out_amt are input_amount and output_amount; at is captured_at.*)
Quote == [dir: Directions, input: Mints, output: Mints,
          in_amt: Nat, out_amt: Nat \cup {NoAmount}, at: Nat]

-----------------------------------------------------------------------------
(* policy/global_regime_v1.py: the bias map applied to a snapshot.          *)
PolicyState(c) ==
  IF c.blocked THEN "no_trade"
  ELSE IF c.regime = "long_friendly" /\ AllowLong THEN "eligible_long"
  ELSE IF c.regime = "short_friendly" /\ AllowShort THEN "eligible_short"
  ELSE "no_trade"

(* risk/gate.py: the verdict on a trace, given the lanes of its feature run. *)
(* The order of the checks decides which of two vetoes a verdict reports.   *)
RiskState(trace, lanes) ==
  IF lanes # "eligible" THEN "halted"
  ELSE IF trace.blocked \/ trace.policy = "no_trade" THEN "no_trade"
  ELSE "allowed"

RiskVerdict(traceId, trace, lanes) ==
  [trace |-> traceId, policy |-> trace.policy, risk |-> RiskState(trace, lanes),
   authorized |-> lanes = "eligible", unresolved |-> lanes = "unreadable"]

-----------------------------------------------------------------------------
(* Mutant: the age of a quote is never looked at. *)
NeverStaleAt(q, t) == q.at <= t

(* A quote is usable at time t when it was captured neither after t nor more *)
(* than MaxQuoteAge before it.                                               *)
FreshAt(q, t) == q.at <= t /\ t - q.at <= MaxQuoteAge

(* Mutant: an allowed verdict is taken for a long one. *)
AnyVerdictAuthorizes(v) == v.risk = "allowed" /\ ~v.unresolved /\ v.authorized

VerdictAuthorizes(v) ==
  /\ v.risk = "allowed"
  /\ ~v.unresolved
  /\ v.authorized
  /\ v.policy = "eligible_long"

(* Mutant: the output amount of the quote is not looked at. *)
SpotBuyQuoteOfAnyOutput(q) ==
  /\ q.dir = "usdc_to_token"
  /\ q.input \in Tracked /\ q.output \in Tracked
  /\ q.input = USDC /\ q.output # USDC
  /\ q.in_amt \in ConfiguredSizes

(* The provenance half of ExecutionIntentOwner._evaluate_inputs: a spot buy *)
(* of a tracked token for USDC, in a configured size, with an output.       *)
SpotBuyQuote(q) ==
  /\ q.dir = "usdc_to_token"
  /\ q.input \in Tracked /\ q.output \in Tracked
  /\ q.input = USDC /\ q.output # USDC
  /\ q.in_amt \in ConfiguredSizes
  /\ q.out_amt \notin {NoAmount, 0}

IntentReady(v, q, t) == VerdictAuthorizes(v) /\ SpotBuyQuote(q) /\ FreshAt(q, t)

(* PaperSettlement._validate_inputs.  The comparisons of the intent's copied *)
(* columns with the quote row always agree: neither row is ever updated.     *)
FillAccepted(intent, q, t) == intent.state = "ready" /\ FreshAt(q, t)

(* Mutant: the size of the exit quote is not compared with the position. *)
AnyExitSizeMatches(mint, qty, q) ==
  q.dir = "token_to_usdc" /\ q.input = mint /\ q.output = USDC /\ mint \in KnownDecimals

(* PaperSettlement._validate_close_inputs: the exact position sold back to   *)
(* USDC.  Quantities are exact: the float net_quantity times 10^decimals     *)
(* rounds back to the integer it was divided from.                           *)
ExitQuoteMatches(mint, qty, q) ==
  /\ q.dir = "token_to_usdc"
  /\ q.input = mint /\ q.output = USDC
  /\ mint \in KnownDecimals
  /\ q.in_amt = qty

CloseAccepted(mint, qty, q, t) ==
  /\ qty > 0
  /\ ExitQuoteMatches(mint, qty, q)
  /\ FreshAt(q, t)
  /\ q.out_amt # NoAmount
=============================================================================
