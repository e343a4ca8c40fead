---- MODULE RegimeCycle ----
(***************************************************************************)
(* From capture to paper-ready receipt: capture/runner.py fills the truth  *)
(* tables and leaves a run row and a health event, capture/lane_status.py  *)
(* joins them to the state of a lane, features/materializer.py refuses to  *)
(* materialize on a lane that is not healthy, condition/scorer.py scores   *)
(* the latest feature run, and live_regime_cycle.py runs all of it.        *)
(*                                                                         *)
(* Three processes write the same tables: the cycle, the background source *)
(* collector, and an operator at the command line.                         *)
(***************************************************************************)
EXTENDS CapturePlans, FeatureRows

CONSTANTS
    IncludeJupiter, IncludeHelius,   \* options of the collector
    WithHeliusWs,   \* option of the cycle
    CliCaptures,    \* captures the operator runs by hand: names of plans
    StartMinute,    \* when the exploration starts
    EarlierCapture, EarlierValue, \* when the macro lane was captured before, and what it read
    HistoryMinutes, \* how far back one candle capture reaches
    FredValues,     \* values an observation may come with
    TickLengths,    \* how many minutes may pass at once
    MaxTicks,       \* how often time passes,
    MaxTrouble,     \* faults, empty replies and crashes together,
    MaxCli          \* manual captures: bounds of the exploration

ASSUME CycleAssumption ==
    /\ TickLengths \subseteq Nat \ {0}
    /\ StartMinute \in Nat /\ EarlierCapture \in 0..StartMinute
    /\ HistoryMinutes \in Nat /\ HistoryMinutes <= StartMinute + 1

VARIABLES
    clock,     \* minutes, utcnow()
    addressed, \* HELIUS_TRACKED_ADDRESSES is set
    lane,      \* per lane: its last success and its last health event
    quote,     \* when the newest USDC to SOL quote was captured
    prices,    \* minutes with a token_price_snapshot
    candles,   \* minutes with a market_candle
    fred,      \* the rows of fred_observation
    pending,   \* observations of captures by hand that are stamped, not yet committed
    draft,     \* per process and for the operator: a feature run not yet published
    features,  \* the latest successful global feature run
    proc,      \* per process: the stage it is at
    receipt,   \* the paper-ready receipt of the last pass
    budget     \* ticks, trouble and manual captures left

tables == <<quote, prices, candles, fred, pending>>
truth == <<lane, tables>>
runs == <<draft, features>>
vars == <<clock, addressed, truth, runs, proc, receipt, budget>>

Never == -1

CycleCapturesButBook ==
    <<"jupiter-prices", "jupiter-quotes", "helius-transactions",
      "coinbase-candles", "coinbase-market-trades">>

CycleCaptures ==
    <<"jupiter-prices", "jupiter-quotes", "helius-transactions",
      "coinbase-candles", "coinbase-book", "coinbase-market-trades">>
    \o (IF WithHeliusWs THEN <<"helius-ws-events">> ELSE <<>>)

CycleStages == CycleCaptures \o <<"global", "spot", "score", "receipt">>

CollectorStagesButProducts == <<"coinbase-candles", "coinbase-book", "coinbase-market-trades">>

CollectorStages ==
    (IF IncludeJupiter THEN <<"jupiter-prices", "jupiter-quotes">> ELSE <<>>)
    \o (IF IncludeHelius THEN <<"helius-transactions", "helius-discovery">> ELSE <<>>)
    \o <<"coinbase-products", "coinbase-candles", "coinbase-book", "coinbase-market-trades">>

Stages == [cycle |-> CycleStages, collector |-> CollectorStages]
Procs == DOMAIN Stages

PlanOf(name) ==
    CASE name = "jupiter-prices" -> JupiterPrices
      [] name = "jupiter-quotes" -> JupiterQuotes
      [] name = "helius-transactions" -> HeliusTransactions
      [] name = "coinbase-products" -> CoinbaseProducts
      [] name = "coinbase-candles" -> CoinbaseCandles
      [] name = "coinbase-market-trades" -> CoinbaseTrades
      [] name = "coinbase-book" -> CoinbaseBook
      [] name = "fred-observations" -> FredObservations
      [] name = "fred-series" -> FredSeries
      [] name = "jupiter-tokens" -> JupiterTokens
      [] name = "jupiter-exact-quote" -> JupiterExactQuote
      [] name = "helius-discovery" -> HeliusDiscovery
      [] name = "helius-ws-events" -> HeliusWsEvents
      [] name = "massive-crypto" -> MassiveCrypto

GlobalRequired == {"coinbase-products", "coinbase-candles", "coinbase-market-trades", "coinbase-book"}
SpotRequired == GlobalRequired
    \cup {"jupiter-prices", "jupiter-quotes", "helius-transactions", "fred-observations"}

OtherLanes == UNION {{PlanOf(c).lane, PlanOf(c).health} :
                        c \in CliCaptures \cup {"helius-discovery", "helius-ws-events"}}
Lanes == SpotRequired \cup (OtherLanes \ {NoLane})

NoReceipt == [at |-> Never, started |-> Never, quote |-> Never, ready |-> FALSE]

Idle == [at |-> 0, started |-> Never, eligible |-> FALSE]

(* A feature run: its rows and, as history that no action reads, when the  *)
(* tables were read for them and which captures were in flight then.       *)
NoRun == [rows |-> <<>>, at |-> Never, inFlight |-> {}]
Builders == Procs \cup {"operator"}

Values == FredValues \cup {EarlierValue}

(* What the run rows and the health events of a lane come to.              *)
LaneRow == [success : Nat \cup {Never}, health : {"missing", "ok", "failed"}]

Init ==
    /\ clock = StartMinute
    /\ addressed \in BOOLEAN
    /\ quote = Never
    /\ prices = {} /\ candles = {}
    /\ fred = {[date |-> 0, at |-> EarlierCapture, value |-> EarlierValue]}
    /\ lane = [l \in Lanes |->
                 IF l = "fred-observations"
                 THEN [success |-> EarlierCapture, health |-> "ok"]
                 ELSE [success |-> Never, health |-> "missing"]]
    /\ pending = {}
    /\ draft = [w \in Builders |-> NoRun]
    /\ features = NoRun
    /\ proc = [p \in Procs |-> Idle]
    /\ receipt = NoReceipt
    /\ budget = [ticks |-> MaxTicks, trouble |-> MaxTrouble, cli |-> MaxCli]

Spend(what) == budget[what] > 0 /\ budget' = [budget EXCEPT ![what] = @ - 1]

-----------------------------------------------------------------------------
(* The state of a lane: the latest successful run of any process joined    *)
(* with the latest health event of any process.                            *)

FreshnessState(l) ==
    LET age == clock - lane[l].success
    IN  CASE lane[l].success = Never -> "never_started"
          [] lane[l].success # Never /\ age > FreshnessWindow[l] -> "stale"
          [] lane[l].success # Never /\ age <= FreshnessWindow[l]
             /\ (lane[l].health # "ok" \/ 10 * age > 8 * FreshnessWindow[l]) -> "degraded"
          [] OTHER -> "healthy_recent"

BlockingLanes(required) == {l \in required : FreshnessState(l) # "healthy_recent"}

-----------------------------------------------------------------------------
(* A capture: its rows are committed first, then its health, then its run. *)

(* An answer, a 404, an error of the request, an error around the requests *)
(* (no client, a locked database).                                         *)
Replies == {"rows", "empty", "missing", "fault", "broken"}

(* What one provider reply makes of the capture.                           *)
Outcome(plan, reply) ==
    CASE reply = "rows" -> "stored"
      [] reply = "empty" -> "nothing"
      [] reply = "missing" -> IF plan.onMissing = "skipped" THEN "nothing" ELSE "failed"
      [] reply = "fault" -> IF plan.onFault = "skipped" THEN "nothing" ELSE "failed"
      [] reply = "broken" -> "failed"

CandleMinutes == {t \in (clock - HistoryMinutes + 1)..clock : t % BucketMinutes = 0}

(* One row for each date up to the day of the stamp.                       *)
FredRows(c) == {[date |-> d, at |-> c.at, value |-> c.value] : d \in 0..DateOf(c.at)}

(* The rows a capture commits to the tables the cycle reads; those of      *)
(* fred_observation are committed by CommitObservations.                   *)
PricesAfter(name) == IF name = "jupiter-prices" THEN prices \cup {clock} ELSE prices
QuoteAfter(name) == IF name = "jupiter-quotes" THEN clock ELSE quote
CandlesAfter(name) == IF name = "coinbase-candles" THEN candles \cup CandleMinutes ELSE candles

StoreRows(name) ==
    /\ prices' = PricesAfter(name)
    /\ quote' = QuoteAfter(name)
    /\ candles' = CandlesAfter(name)
    /\ UNCHANGED <<fred, pending>>

(* _log_health: one event, of this endpoint, whoever runs it.              *)
WithHealth(lanes, name, verdict) ==
    [l \in DOMAIN lanes |->
        IF l = PlanOf(name).health THEN [lanes[l] EXCEPT !.health = verdict] ELSE lanes[l]]

(* _finish_ingest_run(success).                                            *)
WithSuccess(lanes, name) ==
    [l \in DOMAIN lanes |->
        IF l = PlanOf(name).lane THEN [lanes[l] EXCEPT !.success = clock] ELSE lanes[l]]

StageOf(p) == Stages[p][proc[p].at]
Capturing(p) == proc[p].at > 0 /\ StageOf(p) \notin {"global", "spot", "score", "receipt"}

Begin(p) ==
    /\ proc[p].at = 0
    /\ proc' = [proc EXCEPT ![p] = [Idle EXCEPT !.at = 1,
                                                !.started = IF p = "cycle" THEN clock ELSE Never]]
    /\ receipt' = IF p = "cycle" THEN NoReceipt ELSE receipt
    /\ UNCHANGED <<clock, addressed, truth, runs, budget>>

NextStageUnbounded(p) == [proc[p] EXCEPT !.at = @ + 1]

(* Past its last stage a pass is over.                                     *)
NextStage(p) == IF proc[p].at = Len(Stages[p]) THEN Idle
                ELSE [proc[p] EXCEPT !.at = @ + 1]

(* A CaptureError ends the pass: none of its callers catches it.           *)
AfterFailedCapture(p) == Idle

Refuse(p) ==
    /\ Capturing(p)
    /\ PlanOf(StageOf(p)).addressed /\ ~addressed
    /\ proc' = [proc EXCEPT ![p] = AfterFailedCapture(p)]
    /\ UNCHANGED <<clock, addressed, truth, runs, receipt, budget>>

(* A capture that succeeds, though perhaps without a row.                  *)
Capture(p) ==
    /\ Capturing(p)
    /\ LET name == StageOf(p)
       IN  /\ PlanOf(name).addressed => addressed
           /\ lane' = WithSuccess(WithHealth(lane, name, "ok"), name)
           /\ \/ StoreRows(name) /\ UNCHANGED budget
              \/ /\ \E reply \in Replies : Outcome(PlanOf(name), reply) = "nothing"
                 /\ Spend("trouble")
                 /\ UNCHANGED tables
    /\ proc' = [proc EXCEPT ![p] = NextStage(p)]
    /\ UNCHANGED <<clock, addressed, runs, receipt>>

(* A capture that fails, perhaps after some of its items.                  *)
FailCapture(p) ==
    /\ Capturing(p)
    /\ Spend("trouble")
    /\ LET name == StageOf(p)
       IN  /\ lane' = WithHealth(lane, name, "failed")
           /\ PlanOf(name).addressed => addressed
           /\ \E reply \in Replies : Outcome(PlanOf(name), reply) = "failed"
           /\ \/ UNCHANGED tables
              \/ PlanOf(name).perItem /\ StoreRows(name)
    /\ proc' = [proc EXCEPT ![p] = AfterFailedCapture(p)]
    /\ UNCHANGED <<clock, addressed, runs, receipt>>

(* The process dies.  In a capture it may have committed its rows, or its  *)
(* rows and its health event; the run row stays "running", which no lane   *)
(* counts as a success.                                                    *)
Crash(p) ==
    /\ proc[p].at > 0
    /\ Spend("trouble")
    /\ \/ UNCHANGED truth
       \/ Capturing(p) /\ StoreRows(StageOf(p)) /\ UNCHANGED lane
       \/ Capturing(p) /\ StoreRows(StageOf(p)) /\ lane' = WithHealth(lane, StageOf(p), "ok")
    /\ proc' = [proc EXCEPT ![p] = Idle]
    /\ draft' = [draft EXCEPT ![p] = NoRun]
    /\ UNCHANGED <<clock, addressed, features, receipt>>

-----------------------------------------------------------------------------
(* Features, score, receipt.  The tables are read in one session and the   *)
(* rows that come of it committed in another; the run that is finished     *)
(* last is the latest, whichever was read last.                            *)

GlobalRun == [rows |-> GlobalRegimeRows(candles, fred), at |-> clock,
              inFlight |-> {c.at : c \in pending}]

GlobalAuthorized == BlockingLanes(GlobalRequired) = {} /\ candles # {}
SpotAuthorized == BlockingLanes(SpotRequired) = {} /\ prices # {}

At(p, stage) == proc[p].at > 0 /\ StageOf(p) = stage

Building(w) == draft[w].at # Never

Build(w) ==
    /\ ~Building(w) /\ GlobalAuthorized
    /\ draft' = [draft EXCEPT ![w] = GlobalRun]

Publish(w) ==
    /\ Building(w)
    /\ features' = draft[w]
    /\ draft' = [draft EXCEPT ![w] = NoRun]

BuildGlobal(p) ==
    /\ At(p, "global") /\ Build(p)
    /\ UNCHANGED <<clock, addressed, truth, features, proc, receipt, budget>>

PublishGlobal(p) ==
    /\ At(p, "global") /\ Publish(p)
    /\ proc' = [proc EXCEPT ![p] = NextStage(p)]
    /\ UNCHANGED <<clock, addressed, truth, receipt, budget>>

(* No run of the spot features is read downstream: the pass only needs it  *)
(* to succeed.                                                             *)
MaterializeSpot(p) ==
    /\ At(p, "spot") /\ SpotAuthorized
    /\ SpotChainRows(prices, fred) # <<>>
    /\ proc' = [proc EXCEPT ![p] = NextStage(p)]
    /\ UNCHANGED <<clock, addressed, truth, runs, receipt, budget>>

(* A FeatureError ends the pass; the failed feature run is never scored.   *)
RefuseFeatures(p) ==
    /\ \/ At(p, "global") /\ ~Building(p) /\ ~GlobalAuthorized
       \/ At(p, "spot") /\ ~SpotAuthorized
    /\ proc' = [proc EXCEPT ![p] = Idle]
    /\ UNCHANGED <<clock, addressed, truth, runs, receipt, budget>>

(* Score the latest successful feature run, compare, evaluate the policy   *)
(* on the score and the risk gate on its trace.                            *)
Score(p) ==
    /\ At(p, "score")
    /\ \E eligible \in BOOLEAN :
          proc' = [proc EXCEPT ![p] = [NextStage(p) EXCEPT !.eligible = eligible]]
    /\ UNCHANGED <<clock, addressed, truth, runs, receipt, budget>>

(* Too little history, or no model converges.                              *)
ScoreFails(p) ==
    /\ At(p, "score") /\ Spend("trouble")
    /\ proc' = [proc EXCEPT ![p] = Idle]
    /\ UNCHANGED <<clock, addressed, truth, runs, receipt>>

(* The newest USDC to SOL quote there is, and whether the cycle may trade. *)
WriteReceipt(p) ==
    /\ At(p, "receipt")
    /\ receipt' = [at |-> clock, started |-> proc[p].started, quote |-> quote,
                   ready |-> quote # Never /\ proc[p].eligible]
    /\ proc' = [proc EXCEPT ![p] = NextStage(p)]
    /\ UNCHANGED <<clock, addressed, truth, runs, budget>>

-----------------------------------------------------------------------------
(* The operator, crashes, time.                                            *)

(* A capture by hand; for one of observations, that brings none.           *)
CliCapture ==
    /\ Spend("cli")
    /\ \E name \in CliCaptures, reply \in {"rows", "empty"} :
          /\ PlanOf(name).addressed => addressed
          /\ name = "fred-observations" => reply = "empty"
          /\ lane' = WithSuccess(WithHealth(lane, name, "ok"), name)
          /\ IF reply = "rows" THEN StoreRows(name) ELSE UNCHANGED tables
    /\ UNCHANGED <<clock, addressed, runs, proc, receipt>>

(* Observations get the time before the first of them is inserted, and are *)
(* committed together.  No two captures have their time in common.         *)
StampObservations ==
    /\ "fred-observations" \in CliCaptures /\ Spend("cli")
    /\ \A r \in fred \cup pending : r.at # clock
    /\ \E v \in FredValues : pending' = pending \cup {[at |-> clock, value |-> v]}
    /\ UNCHANGED <<clock, addressed, lane, quote, prices, candles, fred, runs, proc, receipt>>

CommitObservations ==
    /\ \E c \in pending :
          /\ pending' = pending \ {c}
          /\ fred' = fred \cup FredRows(c)
    /\ lane' = WithSuccess(WithHealth(lane, "fred-observations", "ok"), "fred-observations")
    /\ UNCHANGED <<clock, addressed, quote, prices, candles, runs, proc, receipt, budget>>

(* The insert fails, which the loop over the series logs and passes over;  *)
(* or the capture fails, or its process dies, before or after the commit.  *)
LoseObservations ==
    /\ Spend("trouble")
    /\ \E c \in pending :
          /\ pending' = pending \ {c}
          /\ \/ /\ UNCHANGED fred
                /\ lane' = WithSuccess(WithHealth(lane, "fred-observations", "ok"),
                                       "fred-observations")
             \/ /\ fred' \in {fred, fred \cup FredRows(c)}
                /\ lane' \in {lane, WithHealth(lane, "fred-observations", "failed")}
             \/ /\ fred' = fred \cup FredRows(c)
                /\ lane' = WithHealth(lane, "fred-observations", "ok")
    /\ UNCHANGED <<clock, addressed, quote, prices, candles, runs, proc, receipt>>

CliBuild ==
    /\ Spend("cli") /\ Build("operator")
    /\ UNCHANGED <<clock, addressed, truth, features, proc, receipt>>

CliPublish ==
    /\ Publish("operator")
    /\ UNCHANGED <<clock, addressed, truth, proc, receipt, budget>>

CliDies ==
    /\ Spend("trouble") /\ Building("operator")
    /\ draft' = [draft EXCEPT !["operator"] = NoRun]
    /\ UNCHANGED <<clock, addressed, truth, features, proc, receipt>>

Tick ==
    /\ Spend("ticks")
    /\ \E d \in TickLengths : clock' = clock + d
    /\ UNCHANGED <<addressed, truth, runs, proc, receipt>>

Work(p) ==
    \/ Begin(p)
    \/ Refuse(p) \/ Capture(p) \/ FailCapture(p)
    \/ BuildGlobal(p) \/ PublishGlobal(p) \/ MaterializeSpot(p) \/ RefuseFeatures(p)
    \/ Score(p) \/ ScoreFails(p) \/ WriteReceipt(p)

Next ==
    \/ \E p \in Procs : Work(p) \/ Crash(p)
    \/ CliCapture \/ StampObservations \/ CommitObservations \/ LoseObservations
    \/ CliBuild \/ CliPublish \/ CliDies
    \/ Tick

Spec == Init /\ [][Next]_vars

(* The practice loop runs collection and cycle over and over, and a call   *)
(* of a provider ends in an answer or a timeout.  Some step of a process is*)
(* enabled in every state and it crashes finitely often, so that moving on *)
(* for ever is what weak fairness of Work(p) comes to.                     *)
FairSpec == Spec /\ \A p \in Procs : []<><<TRUE>>_(proc[p])

-----------------------------------------------------------------------------
(* Tables, processes and receipts are well formed.                         *)
TypeOK ==
    /\ clock \in Nat
    /\ lane \in [Lanes -> LaneRow]
    /\ quote \in Nat \cup {Never}
    /\ prices \subseteq Nat /\ candles \subseteq Nat
    /\ \A r \in fred : r.at <= clock /\ r.value \in Values
    /\ \A c \in pending : c.at <= clock /\ c.value \in FredValues
    /\ DOMAIN draft = Builders /\ DOMAIN features.rows \subseteq Nat
    /\ proc \in [Procs -> [at : 0..Len(CycleStages),
                           started : Nat \cup {Never}, eligible : BOOLEAN]]
    /\ \A p \in Procs : proc[p].at <= Len(Stages[p])
    /\ receipt.at <= clock

(* A receipt rests on captures of its own pass: every required lane whose  *)
(* window is short was captured successfully after the pass began, in      *)
(* spite of older successes, of the collector and of crashes.  The cycle's *)
(* list of captures, the lane rules and the required lanes of the features *)
(* are three lists in three files that have to agree on this.              *)
ReceiptMeansWholePass ==
    receipt.at # Never =>
        \A l \in SpotRequired : FreshnessWindow[l] <= 30 => lane[l].success >= receipt.started

(* What was known at the end of a quarter hour: the observations captured  *)
(* by then, but for those whose capture was in flight, stamped and not yet *)
(* committed, when the run read the table.                                 *)
KnownAt(b, run, observations) ==
    {r \in observations : r.date <= DateOf(b) /\ r.at <= BucketEnd(b) /\ r.at \notin run.inFlight}

LastOf(known) ==
    {r \in known : \A s \in known : s.date < r.date \/ (s.date = r.date /\ s.at <= r.at)}

LastValues(known) == IF known = {} THEN {NoValue} ELSE {r.value : r \in LastOf(known)}

JoinsLastKnown(run, observations) ==
    \A b \in DOMAIN run.rows :
        BucketEnd(b) < run.at =>
            run.rows[b].macro \in LastValues(KnownAt(b, run, observations))

(* The macro value of a quarter hour that was over when the tables were    *)
(* read is, and stays, the last one by date and then by capture of those   *)
(* known when it ended: later observations and late captures of old dates  *)
(* do not reach it (_fred_feature_values tests date and capture time).     *)
(* What escapes is exactly what the time of capture cannot tell: rows      *)
(* stamped before the reading and committed after it, which a run that     *)
(* rematerializes the past joins although the first one could not.         *)
MacroIsLastKnown == JoinsLastKnown(features, fred)

MacroKeptFresh == addressed /\ FreshnessState("fred-observations") = "healthy_recent"

(* Faults, crashes and runs left "running" do not stop the cycle for good: *)
(* as long as the macro lane is kept fresh - by hand, since neither the    *)
(* cycle nor the collector captures it - passes complete again and again.  *)
PassesComplete == <>[]MacroKeptFresh => []<>(proc["cycle"].at = Len(CycleStages))
====
