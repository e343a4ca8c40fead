--------------------------- MODULE PaperOperator ----------------------------
(***************************************************************************)
(* PaperTradeOperator and the owners it calls: policy, risk, execution      *)
(* intent and paper settlement.  A process of Ops is one invocation after   *)
(* another of run_cycle or close_cycle, by the command line or by the       *)
(* practice loop.  Every owner commits its own row, so other processes run  *)
(* between two commits and a crash leaves the rows committed so far.        *)
(* Reads are made outside a transaction (the SQLite driver begins one at    *)
(* the first write), so what simulate_close checked can be stale when it    *)
(* writes.  Rows of conds, quotes, traces, verdicts and intents are         *)
(* inserted and never updated; an index is a row's id.                      *)
(***************************************************************************)
EXTENDS PaperRules, Sequences

CONSTANTS
  Ops,          \* the operator processes
  Openers,      \* those that run run_cycle
  Closers,      \* those that run close_cycle
  CondShapes,   \* condition runs the scorer can write
  QuoteShapes,  \* quotes the capture can write, without their time
  Pins,         \* condition runs a call may be pinned to, 0 for the latest one
  MaxClock, MaxConds, MaxQuotes, MaxTraces  \* bounds of the model

ASSUME OperatorAssumption ==
  /\ Openers \subseteq Ops /\ Closers \subseteq Ops
  /\ CondShapes \subseteq Condition
  /\ QuoteShapes \subseteq [dir: Directions, input: Mints, output: Mints,
                            in_amt: Nat, out_amt: Nat \cup {NoAmount}]
  /\ Pins \subseteq Nat
  /\ MaxClock \in Nat /\ MaxConds \in Nat /\ MaxQuotes \in Nat /\ MaxTraces \in Nat

VARIABLES
  clock,     \* utcnow(), in minutes
  conds,     \* condition_scoring_run with snapshot and feature run
  quotes,    \* quote_snapshot
  traces,    \* policy_global_regime_trace_v1
  verdicts,  \* risk_global_regime_gate_v1
  intents,   \* execution_intent_v1
  sessions,  \* paper_session with its paper_position and the sums of its paper_fills
  pc,        \* per process: the next owner to run
  call,      \* what the running call was asked
  held       \* the ids of the rows the running call has written

env == <<clock, conds, quotes>>
op == <<pc, call, held>>
vars == <<clock, conds, quotes, traces, verdicts, intents, sessions, pc, call, held>>

-----------------------------------------------------------------------------
(* Row types.  The id 0 is "none". *)

Trace == [cond: Nat, policy: PolicyStates, blocked: BOOLEAN]
Verdict == [trace: Nat, policy: PolicyStates, risk: RiskStates,
            authorized: BOOLEAN, unresolved: BOOLEAN]
Intent == [verdict: Nat, quote: Nat, state: {"ready", "rejected"}, at: Nat]
Session == [status: {"open", "closed", "skipped"}, intent: Nat, mint: Mints,
            openedAt: Nat, closedAt: Nat, spent: Nat, bought: Nat, qty: Nat,
            sold: Nat, received: Nat, ending: Nat, pnl: Int,
            exitQuote: Nat, exitVerdict: Nat]

Stages == {"idle", "policy", "risk", "intent", "settle", "close", "closing"}
Call == [kind: {"entry", "exit"}, quote: Nat, session: Nat, pin: Nat, started: Nat]
Held == [trace: Nat, verdict: Nat, intent: Nat]

NoCall == [kind |-> "entry", quote |-> 0, session |-> 0, pin |-> 0, started |-> 0]
Holding(t, v, i) == [trace |-> t, verdict |-> v, intent |-> i]

(* A call moves on, or ends by its return or an exception. *)
Moves(p, stage, ids) ==
  /\ pc' = [pc EXCEPT ![p] = stage]
  /\ held' = [held EXCEPT ![p] = ids]
  /\ UNCHANGED call

Ends(p) ==
  /\ pc' = [pc EXCEPT ![p] = "idle"]
  /\ call' = [call EXCEPT ![p] = NoCall]
  /\ held' = [held EXCEPT ![p] = Holding(0, 0, 0)]

-----------------------------------------------------------------------------
(* The environment: time passes, lanes capture quotes, the scorer writes    *)
(* condition runs.                                                          *)

Tick ==
  /\ clock < MaxClock
  /\ clock' = clock + 1
  /\ UNCHANGED <<conds, quotes, traces, verdicts, intents, sessions, op>>

ScoreCondition ==
  /\ Len(conds) < MaxConds
  /\ \E c \in CondShapes : conds' = Append(conds, c)
  /\ UNCHANGED <<clock, quotes, traces, verdicts, intents, sessions, op>>

CaptureQuote ==
  /\ Len(quotes) < MaxQuotes
  /\ \E q \in QuoteShapes :
       quotes' = Append(quotes, [dir |-> q.dir, input |-> q.input, output |-> q.output,
                                 in_amt |-> q.in_amt, out_amt |-> q.out_amt, at |-> clock])
  /\ UNCHANGED <<clock, conds, traces, verdicts, intents, sessions, pc, call, held>>

-----------------------------------------------------------------------------
Begins(p, request) ==
  /\ pc[p] = "idle"
  /\ pc' = [pc EXCEPT ![p] = "policy"]
  /\ call' = [call EXCEPT ![p] = request]
  /\ UNCHANGED <<env, traces, verdicts, intents, sessions, held>>

(* run_cycle starts: the start time it stamps on every later row, the quote *)
(* it was given, and the condition run it was pinned to (0 for the latest). *)
StartEntry(p, q, pin) ==
  /\ p \in Openers
  /\ Begins(p, [kind |-> "entry", quote |-> q, session |-> 0, pin |-> pin, started |-> clock])

(* close_cycle starts, for a session key its caller has read. *)
StartExit(p, s, q, pin) ==
  /\ p \in Closers
  /\ Begins(p, [kind |-> "exit", quote |-> q, session |-> s, pin |-> pin, started |-> clock])

(* The condition run a policy evaluation selects. *)
SelectedCondition(p) == IF call[p].pin = 0 THEN Len(conds) ELSE call[p].pin

Evaluable(c) == c # 0 /\ conds[c].status = "success"

EvaluatePolicy(p) ==
  /\ pc[p] = "policy"
  /\ LET c == SelectedCondition(p) IN
       \/ /\ Evaluable(c)
          /\ Len(traces) < MaxTraces
          /\ traces' = Append(traces, [cond |-> c, policy |-> PolicyState(conds[c]),
                                       blocked |-> conds[c].blocked])
          /\ Moves(p, "risk", Holding(Len(traces) + 1, 0, 0))
       \/ /\ ~Evaluable(c)
          /\ Ends(p)
          /\ UNCHANGED traces
  /\ UNCHANGED <<env, verdicts, intents, sessions>>

(* Mutant: risk is asked without the id of the trace, and takes the newest. *)
LatestTrace(p) == Len(traces)

SelectedTrace(p) == held[p].trace

EvaluateRisk(p) ==
  /\ pc[p] = "risk"
  /\ LET t == SelectedTrace(p) IN
       verdicts' = Append(verdicts, RiskVerdict(t, traces[t], conds[traces[t].cond].lanes))
  /\ Moves(p, IF call[p].kind = "entry" THEN "intent" ELSE "close",
              Holding(held[p].trace, Len(verdicts) + 1, 0))
  /\ UNCHANGED <<env, traces, intents, sessions>>

CreateIntent(p) ==
  /\ pc[p] = "intent"
  /\ LET ready == IntentReady(verdicts[held[p].verdict], quotes[call[p].quote], call[p].started)
     IN intents' = Append(intents, [verdict |-> held[p].verdict, quote |-> call[p].quote,
                                    state |-> IF ready THEN "ready" ELSE "rejected",
                                    at |-> call[p].started])
  /\ Moves(p, "settle", Holding(held[p].trace, held[p].verdict, Len(intents) + 1))
  /\ UNCHANGED <<env, traces, verdicts, sessions>>

-----------------------------------------------------------------------------
(* simulate_fill.  All it reads was committed before and never changes, so  *)
(* its reads and its commit are one step.                                   *)

OpenedSession(i, at) ==
  LET q == quotes[intents[i].quote] IN
    [status |-> "open", intent |-> i, mint |-> q.output, openedAt |-> at, closedAt |-> 0,
     spent |-> q.in_amt, bought |-> q.out_amt, qty |-> q.out_amt, sold |-> 0,
     received |-> 0, ending |-> 0, pnl |-> 0, exitQuote |-> 0, exitVerdict |-> 0]

(* _persist_skipped_session; the cash of an attempt is the input of a buy.  *)
SkippedSession(i, at) ==
  LET q == quotes[intents[i].quote]
      cash == IF q.dir = "usdc_to_token" THEN q.in_amt ELSE 0
  IN [status |-> "skipped", intent |-> i, mint |-> q.output, openedAt |-> at,
      closedAt |-> at, spent |-> cash, bought |-> 0, qty |-> 0, sold |-> 0,
      received |-> 0, ending |-> cash, pnl |-> 0, exitQuote |-> 0, exitVerdict |-> 0]

SettleEntry(p) ==
  /\ pc[p] = "settle"
  /\ LET i == held[p].intent
         at == call[p].started
         q == quotes[intents[i].quote]
     IN \/ /\ ~FillAccepted(intents[i], q, at)
           /\ sessions' = Append(sessions, SkippedSession(i, at))
           /\ Ends(p)
        \/ /\ FillAccepted(intents[i], q, at)
           /\ q.output \in KnownDecimals
           /\ sessions' = Append(sessions, OpenedSession(i, at))
           /\ Ends(p)
           \* The skip path of a mint without decimals omits a required
           \* argument: a TypeError, and no row.
        \/ /\ FillAccepted(intents[i], q, at)
           /\ q.output \notin KnownDecimals
           /\ Ends(p)
           /\ UNCHANGED sessions
  /\ UNCHANGED <<env, traces, verdicts, intents>>

-----------------------------------------------------------------------------
(* simulate_close: what it reads and checks, then what it writes.  The      *)
(* write does not look at the session again.                                *)

MayClose(p) ==
  LET s == sessions[call[p].session] IN
    /\ s.status = "open"
    /\ CloseAccepted(s.mint, s.qty, quotes[call[p].quote], call[p].started)

CheckClose(p) ==
  /\ pc[p] = "close"
  /\ \/ MayClose(p) /\ Moves(p, "closing", held[p])
     \/ ~MayClose(p) /\ Ends(p)
  /\ UNCHANGED <<env, traces, verdicts, intents, sessions>>

(* Mutant: the realized result leaves the cost basis out. *)
ClosedAtProceeds(s, p) ==
  LET q == quotes[call[p].quote] IN
    [status |-> "closed", intent |-> s.intent, mint |-> s.mint, openedAt |-> s.openedAt,
     closedAt |-> call[p].started, spent |-> s.spent, bought |-> s.bought, qty |-> 0,
     sold |-> s.sold + q.in_amt, received |-> s.received + q.out_amt,
     ending |-> q.out_amt, pnl |-> q.out_amt,
     exitQuote |-> call[p].quote, exitVerdict |-> held[p].verdict]

(* The sums of the fills grow by the exit fill; the session's own columns    *)
(* are overwritten.                                                          *)
ClosedSession(s, p) ==
  LET q == quotes[call[p].quote] IN
    [status |-> "closed", intent |-> s.intent, mint |-> s.mint, openedAt |-> s.openedAt,
     closedAt |-> call[p].started, spent |-> s.spent, bought |-> s.bought, qty |-> 0,
     sold |-> s.sold + q.in_amt, received |-> s.received + q.out_amt,
     ending |-> q.out_amt, pnl |-> q.out_amt - s.spent,
     exitQuote |-> call[p].quote, exitVerdict |-> held[p].verdict]

CommitClose(p) ==
  /\ pc[p] = "closing"
  /\ sessions' = [sessions EXCEPT ![call[p].session] =
                                     ClosedSession(sessions[call[p].session], p)]
  /\ Ends(p)
  /\ UNCHANGED <<env, traces, verdicts, intents>>

(* The process dies between two commits, or during one that rolls back. *)
Crash(p) ==
  /\ pc[p] # "idle"
  /\ Ends(p)
  /\ UNCHANGED <<env, traces, verdicts, intents, sessions>>

-----------------------------------------------------------------------------
Init ==
  /\ clock = 0
  /\ conds = << >> /\ quotes = << >>
  /\ traces = << >> /\ verdicts = << >> /\ intents = << >> /\ sessions = << >>
  /\ pc = [p \in Ops |-> "idle"]
  /\ call = [p \in Ops |-> NoCall]
  /\ held = [p \in Ops |-> Holding(0, 0, 0)]

Begin(p) ==
  \E q \in DOMAIN quotes, pin \in Pins \cap (DOMAIN conds \cup {0}) :
    StartEntry(p, q, pin) \/ \E s \in DOMAIN sessions : StartExit(p, s, q, pin)

Step(p) ==
  \/ EvaluatePolicy(p) \/ EvaluateRisk(p) \/ CreateIntent(p) \/ SettleEntry(p)
  \/ CheckClose(p) \/ CommitClose(p) \/ Crash(p)

Next == Tick \/ ScoreCondition \/ CaptureQuote \/ \E p \in Ops : Begin(p) \/ Step(p)

Spec == Init /\ [][Next]_vars

-----------------------------------------------------------------------------
(* Properties.                                                              *)

(* Every table holds rows of its type, and every id held by a row or by a   *)
(* running call is the id of a row: the foreign keys of the schema.         *)
TypeOK ==
  /\ clock \in Nat
  /\ conds \in Seq(Condition)
  /\ quotes \in Seq(Quote)
  /\ traces \in Seq(Trace)
  /\ verdicts \in Seq(Verdict)
  /\ intents \in Seq(Intent)
  /\ sessions \in Seq(Session)
  /\ pc \in [Ops -> Stages]
  /\ call \in [Ops -> Call]
  /\ held \in [Ops -> Held]

References ==
  /\ \A t \in DOMAIN traces : traces[t].cond \in DOMAIN conds
  /\ \A v \in DOMAIN verdicts : verdicts[v].trace \in DOMAIN traces
  /\ \A i \in DOMAIN intents : /\ intents[i].verdict \in DOMAIN verdicts
                               /\ intents[i].quote \in DOMAIN quotes
  /\ \A s \in DOMAIN sessions : sessions[s].intent \in DOMAIN intents

(* A position was only ever bought on a ready intent of an allowed, fresh   *)
(* verdict on an unblocked long-friendly condition run whose required lanes *)
(* were eligible, from a USDC quote of a configured size captured at most   *)
(* MaxQuoteAge before the cycle; and for exactly what that quote says.  It  *)
(* spans five owners, each of which commits before the next one reads.      *)
BoughtWithAuthority(s) ==
  LET i == intents[s.intent]
      v == verdicts[i.verdict]
      t == traces[v.trace]
      c == conds[t.cond]
      q == quotes[i.quote]
  IN /\ i.state = "ready" /\ v.risk = "allowed" /\ t.policy = "eligible_long"
     /\ c.status = "success" /\ c.regime = "long_friendly" /\ ~c.blocked
     /\ c.lanes = "eligible"
     /\ q.dir = "usdc_to_token" /\ q.input = USDC /\ q.output = s.mint
     /\ s.mint \in Tracked \ {USDC}
     /\ q.at <= s.openedAt /\ s.openedAt <= q.at + MaxQuoteAge
     /\ s.spent = q.in_amt /\ s.spent \in ConfiguredSizes
     /\ s.bought = q.out_amt /\ s.bought > 0

FillProvenance ==
  \A s \in DOMAIN sessions :
    sessions[s].status # "skipped" => BoughtWithAuthority(sessions[s])

(* A closed position was sold on a quote for exactly the bought quantity of *)
(* the bought mint to USDC, fresh when the close started, no earlier than   *)
(* the position was opened, and its ending cash is what that quote pays.    *)
SoldAsQuoted(s) ==
  LET q == quotes[s.exitQuote] IN
    /\ s.exitQuote \in DOMAIN quotes /\ s.exitVerdict \in DOMAIN verdicts
    /\ q.dir = "token_to_usdc" /\ q.input = s.mint /\ q.output = USDC
    /\ q.in_amt = s.bought /\ s.qty = 0
    /\ q.at <= s.closedAt /\ s.closedAt <= q.at + MaxQuoteAge
    /\ s.openedAt <= s.closedAt
    /\ s.ending = q.out_amt

ExitProvenance ==
  \A s \in DOMAIN sessions : sessions[s].status = "closed" => SoldAsQuoted(sessions[s])

(* However calls interleave, the verdict a call holds is a verdict on the   *)
(* trace that call wrote, and that trace is of the condition run the call   *)
(* was pinned to: no call acts on another call's evaluation.                *)
CycleReadsItsOwnRows ==
  \A p \in Ops :
    /\ held[p].trace # 0 /\ call[p].pin # 0 => traces[held[p].trace].cond = call[p].pin
    /\ held[p].verdict # 0 => verdicts[held[p].verdict].trace = held[p].trace
    /\ held[p].intent # 0 => /\ intents[held[p].intent].verdict = held[p].verdict
                           /\ intents[held[p].intent].quote = call[p].quote

(* No position is sold for more than was bought, so a session is closed at  *)
(* most once.  It needs that one process at most runs close_cycle.          *)
SoldAtMostBought == \A s \in DOMAIN sessions : sessions[s].sold <= sessions[s].bought

(* The sessions as the ledger of PaperLedger. *)
LedgerEntry(s) ==
  [status |-> s.status, bought |-> s.bought, sold |-> s.sold, spent |-> s.spent,
   received |-> s.received, ending |-> s.ending, pnl |-> s.pnl]

Ledger == INSTANCE PaperLedger
            WITH ledger <- [s \in 1 .. Len(sessions) |-> LedgerEntry(sessions[s])]

(* With one process that closes, the operator keeps the ledger's promises:  *)
(* settled once, sold once and in full, books that add up, and a closed or  *)
(* skipped session that never changes again.                                *)
LedgerRefinement == Ledger!Spec
=============================================================================
