# Defi-engine: a verification project

TLA+ models of `d5_trading_engine` - its paper-trading core, the capture and
feature pipeline before it, the historical replay and the data behind it, the
gated micro-live swap and the repository's watcher -, the TLC runs that check
them, and TLAPS proofs of what matters most about them. Paths below are
relative to `src/src/d5_trading_engine/` unless they start with `src/`.

## 1. The system and its parts

A research engine for spot tokens on Solana that trades on paper. Data flows
through a chain of owners, each of which opens its own database session, commits
its own rows and hands the next owner an id:

    adapters -> capture -> features -> condition -> policy -> risk
             -> execution intent -> settlement -> practice loop -> proposals

The truth store is one SQLite file in WAL mode. The driver starts a transaction
at the first write, so a read followed by a write is no atomic step, and several
processes (the command line, the practice loop, the training wrappers) may run
at the same time.

| Component | State | Operations | What makes it correct |
|---|---|---|---|
| Capture (`capture/runner.py`, `lane_status.py`, `source_collection.py`) | ingest runs, health events, raw rows, quotes, candles, observations | one capture per lane, lane status, the collector | a lane is eligible only on recent success and health, whoever captured |
| Historical backfill (`capture/massive_backfill.py`, `src/training/automation/`) | raw and parquet files, candles, summaries, receipts | plan, capture chunks of days, collect, hydrate, bootstrap | candles have their files, summaries are true, the window fills, the ladder starts on enough history |
| Features, condition (`features/`, `condition/`), live cycle (`research_loop/live_regime_cycle.py`) | materialization runs, scoring runs, the paper-ready receipt | materialize, score, write the receipt | a receipt rests on captures and features of its own pass; macro values join what was known |
| Policy (`policy/global_regime_v1.py`) | policy traces | evaluate a pinned or the latest successful condition | long only in a friendly, unblocked regime |
| Risk (`risk/gate.py`) | risk verdicts | evaluate a trace | ineligible lanes halt; blocked or no_trade is not allowed |
| Execution intent (`execution_intent/owner.py`) | intents | create a spot intent from a verdict and a quote | ready only on an allowed long and a fresh USDC quote of a configured size |
| Paper settlement (`settlement/paper.py`) | sessions, fills, positions, reports | simulate_fill, simulate_close | settled once, sold once in full, books add up |
| Operator (`paper_runtime/operator.py`) | none of its own | run_cycle, close_cycle | acts on the rows it wrote |
| Practice loop (`paper_runtime/practice.py`) | profiles, revisions, loop runs, decisions | loop, entry, watch, close, patch | one open session, cooldowns, attributed decisions, positions watched to their end |
| Proposals (`reporting/proposals.py`, `research_loop/proposal_*.py`, `profile_governor.py`) | proposals, reviews, comparisons, supersessions | create, review, compare, select | the status agrees with the reviews and comparisons; only an accepted proposal above the bar is selected; nothing is chosen twice on the same evidence |
| Backtest truth and walk-forward (`settlement/backtest.py`, `run_backtest_walk_forward`) | replay sessions, fills, positions, reports, revisions | open, record fill, close, replay of a window, patch | books balance, trades in turn, windows replayed once and in order with the right profile |
| Micro-live (`live_execution/`) | arm file, ledger | arm, pause, execute_swap | no swap unless armed, ready and within the cap; a truthful ledger |
| Watcher (`src/scripts/agents/codex_watch_adapter.py`) | watcher_state.json, lock, packets, archive | passes, audits, dry runs | no change is lost, none reviewed without end, routed only on story files that agree |
| Research, models, reporting | artifacts | batch programs | outside the trading state |

Hard behaviours: interleavings of processes between two commits; a check made
outside the transaction of its write; crashes and restarts between two owners
or between a close and its review; quotes and evaluations that age while a
cycle runs; a profile that is patched by the very closes it governs; returned
results that mean failure although no exception was raised; files that are
written in place and met half written; receipts older than what they describe. Each is listed in
`PROJECT.json` under `hazards`, at the line where it bites.

## 2. Modules

    PaperRules            the owners' decisions, as pure operators
      PaperOperator       the chain of owners, several processes, crashes
        MCPaperOperator       small instances
        PaperOperatorProofs   theorems
    PaperLedger           what settlement promises (abstract; refined by PaperOperator)
    PracticeRules         exits and profile patches, shared by loop and replay
      PaperPractice       the loop above the chain
        MCPaperPractice       small instances
        PaperPracticeProofs   theorems
      WalkForward         the historical replay of windows
        MCWalkForward         small instances
        WalkForwardProofs     theorems
    BacktestTruth         the book of one replay (used by WalkForward)
    ProposalGovernance    proposals, their reviews and comparisons
      MCProposalGovernance     small instances
      ProposalGovernanceProofs theorems
    CapturePlans          what distinguishes the capture functions, lane windows
    FeatureRows           buckets and the macro join, as pure operators
      RegimeCycle         cycle, collector and operator over one truth store
        RegimeCycleProofs     theorems
    HistoryBackfill       the historical cache, the supervisor and an operator
      MCHistoryBackfill       small instances
      HistoryBackfillProofs   theorems
    MicroSwap             arming, pausing and swapping
      MicroSwapProofs         theorems
    WatchAdapter          the watcher's passes beside the scripts that write
      MCWatchAdapter          small instances
      WatchAdapterProofs      theorems

**PaperRules** translates the decisions of policy, risk, intent and settlement:
`PolicyState` (`_evaluate_snapshot`), `RiskState` and `RiskVerdict` (with the
freshness authorization), `IntentReady` (`_evaluate_inputs`), `FillAccepted`
(`_validate_inputs`), `CloseAccepted` (`simulate_close` with
`_validate_close_inputs`). Quantities are integer amounts, times are minutes.
What reaches a decision only as a reason string is left out.

**PaperOperator.** The state is the truth store: `conds`, `quotes`, `traces`,
`verdicts`, `intents` and `sessions` are tables whose indices are row ids; a
session carries its position and the sums of its fills. `pc`, `call` and `held`
are a process's place in `run_cycle` or `close_cycle`, its arguments and the ids
it has been handed. There is one action per owner: `EvaluatePolicy`,
`EvaluateRisk`, `CreateIntent`, `SettleEntry`. `simulate_close` is two actions,
`CheckClose` and `CommitClose`, because its reads are not in the transaction of
its writes. `Crash` ends a call anywhere. `ScoreCondition` and `CaptureQuote`
are the environment: the rows the scorer and the capture lanes commit.
Everything a call stamps has the time it started (`call.started`), as in the
code, where `cycle_started_at` is handed down.

**PaperLedger** is the abstract promise: sessions are settled once, skipped or
bought; an open one is sold once and in full; closed and skipped ones never
change; `pnl` is what was received less what was spent. `LedgerRefinement` in
PaperOperator maps each session to a ledger entry.

**PaperPractice** models one practice iteration as steps: load the profile, run
the regime cycle and look for an open session, then either decide, fill and
record an entry, or evaluate, close, review and record an exit. `Abort` is an
exception that ends the loop or a crash; `StartLoop` restarts it; `EndLoop` is
the end by `max_iterations`. Time is counted in bars of 15 minutes through the
age of a session since its opening or its closing. The chain of owners is seen
through its outcomes: a session that is open or skipped, a session closed.
`ReviewClose` stands for the review and comparison of the patch proposal: it is
applied or it is not. Confidences are hundredths.

**ProposalGovernance.** The state is the proposal tables: `proposals` without
their `status` column, `reviews`, `latest` (the review a query by `created_at`
finds), `comparisons` with their items and supersession edges. `review_proposal`
is two steps, `StartReview` (it takes its time, reads and decides) and
`CommitReview`; `compare_proposals` is three, `StartCompare` (which proposals,
with the status each was loaded with), `Rank` (reviews, ranking, governor) and
`CommitCompare`. `StatusAfter` is what the session writes: a new value that
equals the loaded one makes no UPDATE, so a status written by somebody else in
between survives. `Score` is the governor's weighted sum in units of a 100000th
of a point, with the weights of `src/.ai/policies/profile_router_policy.v1.json`
and, per kind, the surfaces that the story class and stage of
`_PROPOSAL_KIND_HINTS` give. What the metrics of a proposal amount to is its
`signal`, the governor's `base_signal_score`, as an integer. Not followed: the
evidence part of `_sort_key` (candidates equal down to the regime fit are left
in any order); the regime of a fill is fixed when the proposal is created,
although a session closed later has another last fill; `StartCompare` stands for
both `proposal_kind` and `story_class` by one filter on the kind. The first narrows
only the default query, the second also a list of explicit ids
(`research_loop/proposal_comparison.py:659`), so the filter applies to both: a call
with ids and a `proposal_kind` is one without filter.

Two things the model shows and no document contradicts: a held proposal with the
best score keeps an accepted one from being selected, and a comparison with
explicit ids may select a superseded proposal again. A batch proposal
(`research_loop/proposal_batch.py`) has `bounded` FALSE, since its owner type and
its scope are not among those a review supports.

**WalkForward** is `run_backtest_walk_forward` with `_run_backtest_window`.
`history` holds the bars some run has read (price, confidence, regime), drawn
once and then fixed, as the rows of one feature run are. A run goes window by
window through `LoadWindow` (scoring, then the active profile is loaded again),
`OpenBook`, `ReplayBar`, `EndReplay`, `Settle`, `CloseBook` and `ReviewWindow`;
each ends with a commit of the code, `Abort` is an exception or a crash between
any two, and `StartRun` may begin again. The book is a record of
**BacktestTruth**, whose operators are the three calls of the owner with its
refusals. Prices and amounts are integers, rounded where the code rounds
(`Rounded`); the fee of a fill and its amounts are exact. The models a window is
scored with are left out with their numbers. `LivePatch` is the live loop as second
writer of the profile: once some run has completed the ladder
(`MayHaveLoaded`), a close of the loop adds a revision computed from one that was
active since its own last patch and merged into the one that is active, as
`_apply_profile_patch` does for both.

**CapturePlans** has one record per capture function of `capture/runner.py`:
the lane of its run row and of its health event, what an error or a 404 does,
whether it needs tracked addresses, and whether it commits item by item; and the
freshness windows of the lanes. **FeatureRows** has the buckets that get a row
and the join of the macro value as the fold the loop is, over the observations
listed by rank (`InFredOrder`: the i-th row is the one that i - 1 rows come
before), as the query orders them. **RegimeCycle** has the
live cycle and the background collector as processes at a stage of their list,
each stage a capture (`Capture`, `FailCapture`, `Refuse`), a materialization
(`BuildGlobal` then `PublishGlobal`, `MaterializeSpot`, `RefuseFeatures`), `Score` or
`WriteReceipt`; an operator captures and materializes by hand; `Crash` ends a
process anywhere, also between the rows, the health event and the run row of a
capture, which are separate commits. Of a lane's history only the last success
and the last health event count, as in `FreshnessState`. Two operations are cut
where time and other processes can come between their parts: the normalizer stamps
observations before it inserts the first of them and commits them later
(`StampObservations`, `CommitObservations`, `LoseObservations`; `pending` has those
between), and a feature run reads the tables in one session and is published by
another (`Build`, `Publish`; `draft` has what was read). The other captures stamp
and commit in one step: nothing they stamp is compared with a bucket that a run
has closed. Two captures of observations have no stamp in common, and the
observations are those of one series: the join treats each series alone.

**HistoryBackfill.** Days are numbers; a day has a raw file, a parquet file and
tickers with candles. The supervisor picks a job from a status (`Decide`,
`JobFor`) that may be as old as `receipt`; a batch plans its days (`Plan`,
`Planned`, `ChunksOf`), asks for a chunk (`Fetch`, with a full or a short
answer), writes files day by day (`WriteFile`), then candles (`NormalizeRows`),
then what it says of the days (`RecordChunk`); `FailChunk` is an exception that
the batch catches, `Interrupted` anything that ends the job without a summary.
An operator runs the same jobs, and the capture of one day, beside it.

**MicroSwap.** A run of `execute_swap` reads the kill switch (`Start`),
readiness (`CheckReadiness`), the clock (`TakeTime`) and the arm file (`CheckArm`),
and then awaits the order, the signature (`OrderAndSign`) and the execution
(`Execute`) without looking again. `landed` is the chain: an execution may land
although its answer is lost. A run that ends says how: `unanswered` sent its
execution and read no answer, `unrecorded` read one and ended before the line of
the ledger, `raised` ended before it sent anything; `LedgerMatchesChain` names the
first two as the swaps the ledger may miss. The arm file is truncated
(`BeginWrite`) and filled (`EndWrite`) by the operator's command, which may die in
between; one operator gives one command at a time.

**WatchAdapter.** A pass of `run_once` is cut where other processes can be seen:
the saved state and the mailbox (`Load`), the story, the claims of the receipts,
their hashes, the bundle, the report (hashed, then read), the cycles, the state
file, the file for readers. The writers are the shell scripts and the paper
runtime; what they do not replace atomically has a half-written version. A
version stands for the hash of a content. `Start` takes the lock or does nothing;
`Die` is an exception or a kill. No story is active (`""`) once all are complete,
and the audit keeps what names the active story or one of `KeptStories`. The
claims of the three receipts are read in one step, and so are their hashes: a
write in between makes a pass one that was disturbed, of which nothing is
claimed, or the last write before a drift that lasts. `quiet` and `astray` are history: whether the
story files stood still while the pass ran, and whether they contradict its
packet all the same. `archived` and `ArchiveCandidates` are the hygiene audit's.

The mutants are operators placed just before the definition they replace; each
is a plausible slip in that definition, and each property is broken by one.

## 3. What the runs check

| Run | Instance | Shows |
|---|---|---|
| `PaperEntries` | two openers, one quote, two conditions, two traces, clock to 2, quotes age 1 | `FillProvenance`: nothing is bought without the full chain of authority, on a fresh quote. `CycleReadsItsOwnRows`: no call acts on another's evaluation |
| `PaperExits` | one opener, one closer, two quotes, three traces | `ExitProvenance`: what is closed was sold whole, on a fresh quote for that position; `LedgerRefinement`: PaperLedger is implemented |
| `PracticeLoop` | one loop, two sessions, ages to 5, a profile at its shortest hold and a cooldown that reaches 5 or 6 | `AtMostOneOpenSession`, `RevisionLineage`, `DecisionAttribution`, `CooldownRespected` with failures and restarts anywhere; `WatchedUntilClosed` under fairness |
| `ProposalRounds` | one reviewer, one comparator, two proposals out of a patch just above the bar, the best strategy evaluation and a batch proposal, two reviews, two comparisons | `StatusIsBacked`: the status says what the last review or comparison decided; `SelectionClearsTheBar`: who can be selected at all; `ChosenOnNewReview`: a second selection rests on a later review |
| `ReplayWindows` | windows of 6 and 2 bars, a price that moves past both thresholds, a bar a stricter profile refuses, a regime that ends a position, two runs, one patch of the live loop after a stop loss | `BooksBalance`, `TradesInTurn`: the books; `CompletedLadder`: a summary means every window, once and in order; `LessonsInOrder`: each window under the revision all windows before led to, whatever runs failed, each lesson merged into the profile the live loop may have moved meanwhile |
| `RegimeCycle` | cycle and collector, a macro lane that is about to age, one fault or crash, one manual step, one jump of 20 minutes across midnight | `ReceiptMeansWholePass`: what a paper-ready receipt rests on; `MacroIsLastKnown`: the macro join against a plain definition, whatever is captured later, but for captures in flight when the run read the table; `PassesComplete` under fairness |
| `HistoryBackfill` | a window of 4 days in chunks of 2, two tickers, two profiles (one of them needs 3 of its 4 days), one fault, one job by hand, one midnight | `CandlesAreReplayable`, `SummaryIsTrue`, `LadderHasHistory`; `CacheFills` under fairness |
| `MicroSwap` | one run, two amounts around the cap, three writes of the arm file, clock to 2 with a time to live of 1 | `SwapsWereArmed`, `PauseStopsLaterSwaps`, `LedgerMatchesChain` |
| `WatchPasses` | the loop and a process by hand (audit or dry run), two stories, two receipts, one cycle, two writes, one death | `AnsweredHasPacket`, `ReviewedOncePerDeath`, `NothingForgotten`: nothing lost, nothing repeated without end; `RoutedOnTruth`; `EveryCycleIsReviewed`, `DriftIsReported` under fairness |
| `TwoClosers` | two closers | violated: a position is sold twice |
| `BlindReplay` | two runs of two windows | violated: after a failed run a window is replayed under what was learnt from it |
| `StarvedLadder` | no faults, no midnights, two jobs by hand | violated: the history is there and the ladder never starts |

The violated properties are things a document says; each finding in
`PROJECT.json` quotes the line. `TypeOK` is checked in one run per module.

Other places where the code surprises, met while modelling and checked by hand
against the source, but without a run of their own: settlement raises TypeError
for a mint without decimals, where it means to record a skipped session
(`settlement/paper.py:88`, `:102`); the practice loop records
`paper_trade_opened` for a cycle whose fill was skipped
(`paper_runtime/practice.py:1396`); a second practice loop opens a second session,
since nothing reads `max_open_sessions`; a time stop at confidence 0.95 lowers
the confidence to 0.90 (`:2643`); an accepted patch of a losing session cannot
reach the governor's threshold; a comparison may select a proposal its own
ranking places second (`research_loop/proposal_comparison.py:184`); a walk-forward
fits one model more than `max_refits` when the division is even
(`condition/scorer.py:379`); a replay that is nearly out of cash asks for a buy its
book refuses for the fee (`paper_runtime/practice.py:1169`); a quote capture with
no row at all leaves its lane healthy (`capture/runner.py:466`); the loss limits of
an arming are stored and never compared (`live_execution/arm_state.py:51`).

**Bounds.** `MaxClock`, `MaxConds`, `MaxQuotes`, `MaxTraces`, `MaxSessions` and
`MaxAge` bound the runs, in the guards of the actions that grow the tables (ages
saturate). Two processes with one call each, and a second call of one of them,
show every pairwise interleaving of owners; a second condition row is what makes
"latest" and "pinned" differ; a clock one past the quote window makes a quote
stale. In PaperPractice the second session is the first one a cooldown and a
patched profile apply to. Two proposals with two reviews and two comparisons are
what a selection needs to be reviewed again and to compete again. In WalkForward
a run over two windows, with a second run after an abort, has every order of
lessons and replays; six bars are one more than the longest hold, so that every
exit occurs and a new entry follows; one patch of the live loop (`MaxLivePatches`),
by a stop loss, moves a key that a lesson of a time stop leaves alone. In RegimeCycle the macro lane was captured 2300 minutes before: healthy at first,
degraded after the jump, so that a manual capture is needed and revises a value
that closed quarter hours have joined (the value 1 becomes 2), stamped before the
jump and committed after it where that makes a difference. The jump of 20 minutes is past the
15-minute windows and short of the 30-minute ones and crosses midnight; one
fault anywhere in either process, with the passes repeated without end, meets
every stage. In HistoryBackfill a window of four days in chunks of two has a
whole chunk, a cut one (after a day that is there) and a hole between whole days,
and a profile that needs all of its lookback and one that needs less. In MicroSwap one run is enough for what
a run can meet, since runs share nothing but the ledger's end; the theorems are
for any number. In WatchPasses two writes are a change of story and a change of a
receipt in either order, or a report or a cycle beside one of them; `Touched`
leaves out the third receipt, which is read like the second. The proofs below
remove the bounds of their modules. The runs of PaperOperator,
ProposalGovernance, WalkForward and WatchAdapter say `CHECK_DEADLOCK FALSE`:
there bounded tables, runs or writers come to a rest that the program does not
have. In the others a step is always possible.

**Fairness.** Each liveness property names what keeps going:

- `WatchedUntilClosed` (PaperPractice): weak fairness of `Tick` (time passes) and
  of `Iterate(p)` (a running iteration that does not fail goes on to its next
  statement; `run_loop` is a straight-line loop with a sleep). No fairness is
  assumed of `StartLoop`, of what the market offers or of a loop not failing; the
  property therefore says that a session cannot stay open forever under a loop
  that keeps running.
- `PassesComplete` (RegimeCycle): each process moves from stage to stage again and
  again, as weak fairness of its steps would have it, since one is always enabled
  and crashes are finite by `MaxTrouble`: the practice loop and
  the supervisor repeat collection and cycle, and every provider call has a
  timeout. That the macro lane is kept fresh is a premise of the property, not
  fairness: neither process captures it.
- `CacheFills` and `RequiredHistoryStartsTheLadder` (HistoryBackfill): the
  supervisor is a loop that catches every exception and sleeps, and an operator
  lets a job finish. Nothing makes an operator start one; faults are finite by
  `MaxTrouble`, so the provider eventually answers in full.
- `EveryCycleIsReviewed` and `DriftIsReported` (WatchAdapter): a pass that runs
  goes on. Nobody restarts a watcher that died and no writer has to write or to
  finish; both properties are about a loop that stays up.

## 4. What is proved

`PaperOperatorProofs`, for any set of processes, mints, quotes and conditions:

- `TypeCorrect`: the tables are well typed and their foreign keys exist. The
  inductive invariant `TypeInv` adds what a call holds at each stage
  (`HoldsRows`): without it a step could index a table with an id that is not
  there.
- `FillsHaveProvenance`. `FillProvenance` is not inductive: nothing in it says
  that a verdict about to be used agrees with its trace. The strengthening
  `Evidence` says of every row, and of every call between two owners, what the
  owner that wrote it had checked; each owner's step extends it by one link.
- `CyclesReadTheirOwnRows`. `OwnRows` chains the ids a call holds between its
  owners' commits: the trace is of the condition run the call was pinned to, the
  verdict of that trace, the intent of that verdict and of the call's quote,
  whatever other calls appended to the tables meanwhile.
- `ExitsHaveProvenance` and `OperatorImplementsLedger`, both under
  `SingleCloser`: one process at most runs `close_cycle`. `TwoClosers` shows the
  assumption is needed. The strengthening `Exits` says that between
  `CheckClose` and `CommitClose` the session is still what was checked, which
  only a second closer could change.

`PaperPracticeProofs`, for any profile, thresholds and number of sessions:

- `TypeCorrect`, for any number of loops: no sequence of patches takes the
  profile out of its bounds.
- `OneSessionAtATime`, `ProfileMovesByPatches`, `DecisionsAreAttributed` and
  `CooldownHolds`, under `OneLoop`: with two loops both see no open session and
  both open one. The strengthening
  `Safe` says of an iteration at each step what it has read and that it is still
  so: no session is open while an entry is decided, the loaded revision is the
  active one until the review, the session under review is closed and has
  neither a patch nor a decision yet.

`ProposalGovernanceProofs`, for any drafts, regimes, filters and bounds:

- `TypeCorrect`, for any number of reviewers and comparators: besides types and
  foreign keys, an outcome supersedes only when it selects, and cites a review of
  what it selects.
- `SelectionsClearTheBar`, for any number of processes. `ScoreBar` is the
  arithmetic: the score of an accepted candidate, kind by kind, against the
  threshold. `BarInv` carries it from the choice to the row: what a comparator is
  about to write clears the bar as well.
- `OneOfEachIsBacked`, under `OneOfEach`: one reviewer and one comparator.
  `StatusIsBacked` is not inductive; `BackedInv` adds what has become of a status
  since a transaction loaded it: the comparator alone may have changed that of the
  proposal under review, the reviewer alone those under comparison, and no review
  is younger than the one under way. With two reviewers it fails: of two
  overlapping reviews the older one may commit last, and the status is its
  decision while the latest review is the other.
- `ChoicesRestOnNewReviews`, under `OneOfEach` for the same reason: an older
  review that commits late could bring back into scope what was just superseded.
  `ChosenInv` says that a comparison over everything that selected leaves no rival
  of its choice in the default scope until it is reviewed again (`Spends`). For a
  comparison under way: what it loaded is nobody's rival (`Offers`), what it did
  not load is out of scope already (`Covers`), what it judges gets a status
  (`Settles`), and so its choice was reviewed since (`Renews`).

`MicroSwapProofs`, for any number of runs, amounts, caps and times to live:

- `TypeCorrect`, `SwapsAreArmed`, `PausesStopSwaps` and `LedgerAgrees`. None of the
  three is inductive: what a landed swap was checked against was read several
  steps earlier. `ArmInv` says where an armed state in the file comes from (a
  complete write, the last one unless another is under way), `AuthorityInv`
  attaches to every run past its check the write that covers it (the time it is
  compared with was taken before the file was read, so that the arming may be
  younger than the check), `ChainInv` relates phases, chain and ledger. `AroundSteps` and `RestKeeps` say once that
  what others do leaves a run's authority alone.

`HistoryBackfillProofs`, for any tickers, profiles, window, chunk size, and any
number of failures, crashes, jobs by hand and midnights:

- `TypeCorrect`, `CandlesReplayable`, `SummariesAreTrue` and `LadderNeverStarves`.
  `ChunksCover` and `ChunksApart` are the arithmetic of the chunks: cut from the
  start of each run of pending days, every pending day is in one chunk and in one
  only. The invariant `IInv` carries that through a batch (`TaskOK`: what is
  pending is in the chunk at hand or in one to come), says how far the files of
  the chunk at hand are written (`TaskSound`), and that counts taken earlier, the
  receipt among them, never exceed what is whole now (`CountsOK`). Files and
  candles only grow (`Grows`), so what one process believes survives the other.

`WatchAdapterProofs`, for any processes, command lines, stories, cycles and files,
and any number of writes, audits and deaths:

- `TypeCorrect`, `NoReviewIsLost`, `WorkIsRoutedOnTruth`, `DeathsPayForReviews` and
  `SavesKeepWhatWasAnswered`. The invariant `IInv` has, beside the shapes, what a
  pass believes while it reads one file after the other. `Paid`: each version and
  each half line was paid for by a write, and a half-written one half. `Carries`:
  the state of a pass that is no dry run is ahead of the saved one (`Extends`) and
  its packets are on disk before the state is, so a save loses nothing and a death
  before it only repeats. `Reads`: while nobody disturbs the story files, the
  mismatches a pass found are those that stand; with `Routes` nothing goes astray.
  `CountInv`: a cycle that is in no state that will last (`Settled`) has at most as
  many reviews as watchers died, and `Kept` says the same of a version of the
  report with one to spare, since a version between hash and read is reviewed
  under the older hash (`Hashes`).

`WalkForwardProofs`, for any windows, profiles, prices, fees and quote sizes,
and any number of runs, deaths and patches of the live loop:

- `WalkTypeOK`, `WalkBooksBalance`, `WalkTradesInTurn`, `WalkCompletedLadder` and
  `WalkLessonsInOrder`, all from `WalkInvariance`. No property is inductive alone.
  That a book balances (`Sound`) needs that a sale is of all that is held, and
  that the cost of it is the whole basis: `Holds` says what is held is what the
  last buy bought, `Position` that the locals of the run (`entry`, `cost`, the
  bar) agree with the book. `FeeBound` and `WholeBasis` are the arithmetic: with
  at most 10000 basis points a fee is no more than what it is taken from, and
  selling everything leaves no basis behind, whatever was rounded on the way. `InTurn` is
  `TradesInTurn` of one book, and extends fill by fill because the last fill is
  before the bar at hand and `HistoryInv` keeps that bar inside the window.
- `LadderInv` says of a run in progress that each window before the one at hand
  (`Begun`) has a session of it, in order, and that all but the current one are
  closed and empty. `LessonInv` says that from the load of a window to the close
  of its book the loaded revision is the active one, unless the live loop has
  patched since, and that the book has taught nothing yet.

`RegimeCycleProofs`, for any options, manual captures, start, reach of a candle
capture, values, lengths of time, and any number of faults and crashes:

- `CycleTypeOK`, `ReceiptsMeanWholePasses` and `MacrosAreLastKnown`, from
  `CycleInvariance`. `PassInv` carries the receipt: a cycle at its n-th stage has
  had a success, since it began, on the lane of each of the first n - 1 of its
  first six captures (`Captured`), and no step of anybody takes a success back
  (`LaneStep`). `ShortWindows`, `CycleTable` and `FirstCaptures` are the agreement of the
  three lists: whatever required lane has a window of at most 30 minutes is
  captured by one of those six stages. `FeaturesInv` carries the macro values, for
  the published run and for each one that is read and not published (`RunInv`): what
  is committed after a reading was either in flight then, and is not counted, or
  stamped later, after the end of each bucket that was over (`RunKept`).
- `MacrosAreLastKnown` and `PastsAreStable` speak of what the program can promise.
  A capture that is stamped before a quarter hour ends, and committed after a run
  has read the table, is one the join of the next run sees and that of this one
  could not: time of capture does not tell the two cases apart, and the past does
  change there. So `KnownAt` leaves out the captures that were in flight at the
  reading; without that exception TLC finds the invariant violated. `PastsAreStable`,
  an action property, follows from the two sides of a publication: both runs have
  the value of the last known observation, the same ones are known to both if the
  quarter hour is `Settled` for both (`RunsAgree`), and only one is the last
  (`LastIsOne`), since no two have date and time of capture in common.
- `FeatureValueIsLastKnown`, the pure part: the fold that FeatureRows makes of the
  loop of `_fred_feature_values` gives the last known observation, for a table of
  any size without two rows of one date and time of capture. `Rank` is one-to-one into
  1..n and therefore onto (`RankIsOnto`), so the rows are listed once each and in
  order (`FredOrderIsListing`). The induction over the fold is done without the
  induction theorems: `Found` is written down in closed form and satisfies the
  recursion (`FoundIsLoop`), and whatever satisfies it is `Found`, since a smallest
  set of positions where they differ cannot exist (`LoopIsFound`).

Assumptions on constants are `RulesAssumption`, `OperatorAssumption`,
`PracticeAssumption`, `GovernanceAssumption`, `MicroAssumption`,
`HistoryAssumption`, `WatchAssumption`, `WalkForwardAssumption` and
`CycleAssumption`, each in the module that declares it; TLC evaluates them in the
runs. Of the last two: a fee is at most the whole amount (`FeeBps <= 10000`; the
walk-forward opens its books with 10, and a fee above the amount would make a sale cost cash),
the windows end in order, and a candle capture does not reach back before minute
zero.

Only model-checked: the liveness properties `WatchedUntilClosed`,
`PassesComplete`, `CacheFills`, `EveryCycleIsReviewed` and `DriftIsReported`
(fairness is beyond the prover) and what the runs with an expected violation
show. Every invariant and action property of a passing run is a theorem, those of one
closer, one loop, or one reviewer and one comparator under that assumption. Also
beyond the prover: ENABLED, and what a RECURSIVE operator computes; the modules
declare none.

## 5. What is not modelled

- The numbers: feature engineering, regime fits, models, reports. They reach the
  models as arbitrary regimes, confidences and quotes.
- Pure I/O: network clients, payload conversion, artifacts, DuckDB copy. The
  normalizers appear by the rows they leave in the tables another part reads.
- The research and label programs (`shadow_runner.py`, `regime_model_compare.py`,
  `realized_feedback.py`, `evidence_rollup.py`) are batch computations over stored
  history. They hold no state that a trading part reads back.
- Of the practice runtime: the loop's status rows, the reasons of no_trade
  decisions, and two writes of a revision inside one another's transaction (a
  patch is one step).
- Of the capture runner: paging, retries inside a client, raw payloads, and the
  raw-receipt rule of `helius-ws-events`, a lane no feature run requires.
- Of the backfill: rows of a day are a set of tickers, so that the duplicates two
  processes insert for one day are not seen.
- Of the watcher: the text of packets, the sandbox evaluation, and packet ids,
  which have the resolution of a second; `swarm_state.py` and
  `codex_event_watcher.py`.
- Of the command line: read-only reports and rendering.
- Malformed rows a foreign key or a NOT NULL column excludes.

## 6. Plan

Done: the modules above with their runs, and the theorems of section 4. What
would come next, most important first:

1. The transactions of two profile patches, one inside the other.
2. Further theorems beyond the properties of the runs: that PaperPractice's view
   of the owners (a session open or skipped, a session closed) is what
   PaperOperator's ledger allows, as a refinement of PaperLedger by both.
3. The realized-feedback and label programs, as far as proposals rest on them.
