---- MODULE HistoryBackfill ----
(***************************************************************************)
(* The historical cache of Massive minute candles.                         *)
(*                                                                         *)
(* capture/massive_backfill.py plans a range of days, skips those already  *)
(* complete, cuts the others into chunks and captures each chunk with      *)
(* runner.capture_massive_minute_aggs_range: one raw and one parquet file  *)
(* per day, then the candles of the whole chunk in one commit.             *)
(* training/automation/bin/training_supervisor.py decides, pass by pass,   *)
(* whether to hydrate the window of the selected training profile, to run  *)
(* the bootstrap ladder over it, or to collect one more missing day.       *)
(*                                                                         *)
(* A day is a number, a ticker a model value.  The supervisor and an       *)
(* operator at the command line work on the same files and tables.         *)
(***************************************************************************)
EXTENDS Integers, FiniteSets, FiniteSetsExt

CONSTANTS
    Tickers,        \* massive_default_tickers
    Lookback,       \* massive_free_tier_lookback_days
    ChunkDays,      \* massive_rest_minute_aggs_range_chunk_days
    Profiles,       \* the training profiles,
    ProfileLookback,\* history_lookback_days of each and
    RequiredDays,   \* required_history_days of each
    MaxMassiveDays, \* --max-massive-days of the supervisor
    OperatorJobs,   \* what the operator runs: a subset of ByHand
    FirstDay,       \* the day the exploration starts on
    MaxTicks,       \* midnights,
    MaxTrouble,     \* failures, short answers and crashes together,
    MaxCli          \* jobs of the operator: bounds of the exploration

ByHand == {"collect", "missing", "day"}

ASSUME HistoryAssumption ==
    /\ IsFiniteSet(Tickers) /\ Tickers # {}
    /\ Lookback \in Nat \ {0} /\ ChunkDays \in Nat \ {0} /\ MaxMassiveDays \in Nat \ {0}
    /\ IsFiniteSet(Profiles) /\ Profiles # {}
    /\ ProfileLookback \in [Profiles -> 1..Lookback]
    /\ RequiredDays \in [Profiles -> Nat \ {0}]
    /\ OperatorJobs \subseteq ByHand
    /\ FirstDay \in Nat /\ FirstDay >= Lookback
    /\ MaxTicks \in Nat /\ MaxTrouble \in Nat /\ MaxCli \in Nat

VARIABLES
    today,    \* the UTC date
    raw,      \* days with a raw file
    parquet,  \* days with a parquet partition
    candles,  \* per day: the tickers that have candles in market_candle
    receipt,  \* capture_completed_day_count of source_collection_status.json
    ladder,   \* paper_practice_status.json: historical_ladder_completed
    task,     \* per process: the job it is at
    summary,  \* per process: the capture_summary.json of its last batch
    budget    \* midnights, trouble and jobs by hand left

files == <<raw, parquet>>
vars == <<today, files, candles, receipt, ladder, task, summary, budget>>

Procs == {"supervisor", "operator"}
Days == 0..(FirstDay + MaxTicks)

-----------------------------------------------------------------------------
(* The cache and its status.                                               *)

DaysBefore(day, lookback) == (day - lookback)..(day - 1)

(* resolve_full_free_tier_window: ends yesterday.                          *)
FullWindow == DaysBefore(today, Lookback)

Whole(d) == d \in raw /\ d \in parquet /\ candles[d] = Tickers
WholeDays == {d \in Days : Whole(d)}

CompletedCount == Cardinality(FullWindow \cap WholeDays)

NextMissingFirst == today - Lookback
NextMissing == Min(FullWindow \ WholeDays)

(* The receipt of the last collection is preferred to the cache itself.    *)
AvailableRawOnly == IF receipt # 0 THEN receipt ELSE Cardinality(FullWindow \cap raw)
AvailableDays == IF receipt # 0 THEN receipt ELSE CompletedCount

Ready(profile, available) == available >= RequiredDays[profile]

(* auto: the fastest ready profile, else the fastest.                      *)
FastestOf(profiles) ==
    CHOOSE f \in profiles : \A g \in profiles : RequiredDays[f] <= RequiredDays[g]
SelectedProfile(available) ==
    LET ready == {f \in Profiles : Ready(f, available)}
    IN  FastestOf(IF ready # {} THEN ready ELSE Profiles)

ProfileWindow(profile) == DaysBefore(today, ProfileLookback[profile])

BoundedAhead(first, last, days) == first..(first + days - 1)

(* From first to last, at most so many days.                               *)
Bounded(first, last, days) == first..Min({last, first + days - 1})

-----------------------------------------------------------------------------
(* A batch: what it plans.                                                 *)

Statuses == {"skipped", "pending", "captured", "failed"}
Planned(days, resume) ==
    [d \in days |-> IF resume /\ Whole(d) THEN "skipped" ELSE "pending"]

Pending(status) == {d \in DOMAIN status : status[d] = "pending"}

(* Runs of consecutive pending days, each cut every ChunkDays.             *)
RunStart(days, d) == Max({s \in days : s <= d /\ s..d \subseteq days /\ s - 1 \notin days})
ChunksOf(days) ==
    {{e \in days : e \in d..(d + ChunkDays - 1) /\ d..e \subseteq days} :
        d \in {d \in days : (d - RunStart(days, d)) % ChunkDays = 0}}

NextChunk(todo) == CHOOSE c \in todo : \A other \in todo : Min(c) <= Min(other)

Idle == [job |-> "none", phase |-> "idle", status |-> <<>>, todo |-> {}, chunk |-> {},
         answer |-> {}, unwritten |-> {}, half |-> FALSE, after |-> 0]

NoSummary == [status |-> <<>>, outcome |-> "none"]

Init ==
    /\ today = FirstDay
    /\ raw = {} /\ parquet = {}
    /\ candles = [d \in Days |-> {}]
    /\ receipt = 0
    /\ ladder = FALSE
    /\ task = [p \in Procs |-> Idle]
    /\ summary = [p \in Procs |-> NoSummary]
    /\ budget = [ticks |-> MaxTicks, trouble |-> MaxTrouble, cli |-> MaxCli]

Spend(what) == budget[what] > 0 /\ budget' = [budget EXCEPT ![what] = @ - 1]

SetTask(p, t) == task' = [task EXCEPT ![p] = t]

At(p, phase) == task[p].phase = phase

-----------------------------------------------------------------------------
(* The supervisor reads the status and picks the job of this pass.         *)

JobFor(available) ==
    LET ready == Ready(SelectedProfile(available), available)
    IN  CASE ready /\ ~ladder -> "bootstrap"
          [] ~ready -> "hydrate"
          [] ready /\ ladder -> "collect"

Decide ==
    /\ At("supervisor", "idle")
    /\ SetTask("supervisor", [Idle EXCEPT !.job = JobFor(AvailableDays), !.phase = "plan"])
    /\ UNCHANGED <<today, files, candles, receipt, ladder, summary, budget>>

OperatorStarts ==
    /\ At("operator", "idle")
    /\ Spend("cli")
    /\ \E job \in OperatorJobs :
          SetTask("operator", [Idle EXCEPT !.job = job, !.phase = "plan"])
    /\ UNCHANGED <<today, files, candles, receipt, ladder, summary>>

Batch(t, days, resume) ==
    LET status == Planned(days, resume)
    IN  [t EXCEPT !.phase = "next", !.status = status, !.todo = ChunksOf(Pending(status))]

CacheComplete == FullWindow \subseteq WholeDays

(* backfill_missing_full_free_tier, of a cache that is not complete.       *)
MissingDays(bound) == Bounded(NextMissing, today - 1, bound)

(* hydrate_history with a profile: always from the start of its window.    *)
HydrateDays(profile) == Bounded(today - ProfileLookback[profile], today - 1, MaxMassiveDays)

(* The days each job asks for.                                             *)
Plan(p) ==
    /\ At(p, "plan")
    /\ LET t == task[p]
           profile == SelectedProfile(AvailableDays)
       IN  \/ /\ t.job = "hydrate"
              /\ SetTask(p, Batch(t, HydrateDays(profile), TRUE))
           \/ /\ t.job = "bootstrap"
              /\ SetTask(p, Batch(t, ProfileWindow(profile), TRUE))
           \/ /\ t.job = "collect" /\ ~CacheComplete
              /\ SetTask(p, Batch(t, MissingDays(MaxMassiveDays), TRUE))
           \/ /\ t.job = "missing" /\ ~CacheComplete
              /\ SetTask(p, Batch(t, MissingDays(Lookback), TRUE))
           \/ /\ t.job = "collect" /\ CacheComplete
              /\ SetTask(p, [t EXCEPT !.phase = "collect", !.after = CompletedCount])
           \/ /\ t.job = "missing" /\ CacheComplete
              /\ SetTask(p, Idle)
           \/ /\ t.job = "day"
              /\ \E d \in FullWindow : SetTask(p, Batch(t, {d}, FALSE))
    /\ UNCHANGED <<today, files, candles, receipt, ladder, summary, budget>>

-----------------------------------------------------------------------------
(* One chunk.                                                              *)

(* A range writes files for the days that came back, a single day always.  *)
DaysToWrite(job, chunk, answer) ==
    IF job = "day" THEN chunk ELSE {d \in chunk : \E k \in Tickers : <<d, k>> \in answer}

(* What the provider has to say: everything, or less.                      *)
FullAnswer(days) == days \X Tickers
Fetch(p) ==
    /\ At(p, "next") /\ task[p].todo # {}
    /\ LET chunk == NextChunk(task[p].todo)
       IN  \E answer \in SUBSET FullAnswer(chunk) :
             /\ IF answer = FullAnswer(chunk) THEN UNCHANGED budget ELSE Spend("trouble")
             /\ SetTask(p, [task[p] EXCEPT
                    !.phase = "files", !.todo = @ \ {chunk}, !.chunk = chunk, !.answer = answer,
                    !.unwritten = DaysToWrite(task[p].job, chunk, answer), !.half = FALSE])
    /\ UNCHANGED <<today, files, candles, receipt, ladder, summary>>

Answered(t) == {d \in t.chunk : \E k \in Tickers : <<d, k>> \in t.answer}

(* Day by day: the raw file, then the parquet file, unless it has no row.  *)
WriteFile(p) ==
    /\ At(p, "files") /\ task[p].unwritten # {}
    /\ LET t == task[p]
           d == Min(t.unwritten)
       IN  IF ~t.half
           THEN /\ raw' = raw \cup {d}
                /\ SetTask(p, [t EXCEPT !.half = TRUE])
                /\ UNCHANGED parquet
           ELSE /\ parquet' = parquet \cup ({d} \cap Answered(t))
                /\ SetTask(p, [t EXCEPT !.half = FALSE, !.unwritten = @ \ {d}])
                /\ UNCHANGED raw
    /\ UNCHANGED <<today, candles, receipt, ladder, summary, budget>>

FilesBegun(t) == t.phase = "files"

(* The candles go in when every file is there.                             *)
FilesDone(t) == t.phase = "files" /\ t.unwritten = {}

NormalizeRows(p) ==
    /\ FilesDone(task[p])
    /\ candles' = [d \in Days |-> candles[d] \cup {k \in Tickers : <<d, k>> \in task[p].answer}]
    /\ SetTask(p, [task[p] EXCEPT !.phase = "record"])
    /\ UNCHANGED <<today, files, receipt, ladder, summary, budget>>

CapturedAll(t) == [d \in DOMAIN t.status |-> IF d \in t.chunk THEN "captured" ELSE t.status[d]]

(* A day without rows is failed, although its chunk is not.                *)
Recorded(t) ==
    [d \in DOMAIN t.status |->
        IF d \in t.chunk THEN (IF d \in Answered(t) THEN "captured" ELSE "failed")
        ELSE t.status[d]]

RecordChunk(p) ==
    /\ At(p, "record")
    /\ SetTask(p, [task[p] EXCEPT !.phase = "next", !.status = Recorded(task[p]),
                                  !.chunk = {}, !.answer = {}])
    /\ UNCHANGED <<today, files, candles, receipt, ladder, summary, budget>>

(* An exception anywhere in the chunk fails its days and ends the batch.   *)
FailChunk(p) ==
    /\ task[p].phase \in {"files", "record"}
    /\ Spend("trouble")
    /\ summary' = IF task[p].job = "day" THEN summary
                  ELSE [summary EXCEPT ![p] =
                          [outcome |-> "failed",
                           status |-> [d \in DOMAIN task[p].status |->
                              IF d \in task[p].chunk THEN "failed" ELSE task[p].status[d]]]]
    /\ SetTask(p, Idle)
    /\ UNCHANGED <<today, files, candles, receipt, ladder>>

-----------------------------------------------------------------------------
(* After the last chunk.                                                   *)

PhaseAfter(job) ==
    CASE job = "collect" -> "collect"
      [] job = "bootstrap" -> "ladder"
      [] job \notin {"collect", "bootstrap"} -> "idle"

FinishBatch(p) ==
    /\ At(p, "next") /\ task[p].todo = {}
    /\ summary' = IF task[p].job = "day" THEN summary
                  ELSE [summary EXCEPT ![p] = [outcome |-> "success", status |-> task[p].status]]
    /\ SetTask(p, IF PhaseAfter(task[p].job) = "idle" THEN Idle
                  ELSE [Idle EXCEPT !.job = task[p].job, !.phase = PhaseAfter(task[p].job),
                                    !.after = CompletedCount])
    /\ UNCHANGED <<today, files, candles, receipt, ladder, budget>>

(* The receipt says how much was there before the other lanes were         *)
(* captured.                                                               *)
WriteCollectReceipt(p) ==
    /\ At(p, "collect")
    /\ receipt' = task[p].after
    /\ SetTask(p, Idle)
    /\ UNCHANGED <<today, files, candles, ladder, summary, budget>>

(* Features, comparison and walk-forward over what there is.               *)
CompleteLadder(p) ==
    /\ At(p, "ladder")
    /\ ladder' = TRUE
    /\ SetTask(p, Idle)
    /\ UNCHANGED <<today, files, candles, receipt, summary, budget>>

(* Another lane's capture or the ladder fails, or the process dies.        *)
Interrupted(p) ==
    /\ task[p].phase # "idle"
    /\ Spend("trouble")
    /\ SetTask(p, Idle)
    /\ UNCHANGED <<today, files, candles, receipt, ladder, summary>>

Midnight ==
    /\ Spend("ticks")
    /\ today' = today + 1
    /\ UNCHANGED <<files, candles, receipt, ladder, task, summary>>

Work(p) ==
    \/ Plan(p)
    \/ Fetch(p) \/ WriteFile(p) \/ NormalizeRows(p) \/ RecordChunk(p)
    \/ FinishBatch(p) \/ WriteCollectReceipt(p) \/ CompleteLadder(p)

Next ==
    \/ Decide \/ OperatorStarts
    \/ \E p \in Procs : Work(p) \/ FailChunk(p) \/ Interrupted(p)
    \/ Midnight

Spec == Init /\ [][Next]_vars

(* The supervisor is a loop that catches every exception and goes on, and  *)
(* the operator lets a job finish.                                         *)
SupervisorWorks == Decide \/ Work("supervisor")
FairSpec == Spec /\ WF_vars(SupervisorWorks) /\ WF_vars(Work("operator"))

-----------------------------------------------------------------------------
(* Every table is of its type, and nothing of today or later is asked for. *)
TypeOK ==
    /\ today \in Days
    /\ raw \subseteq Days /\ parquet \subseteq Days
    /\ candles \in [Days -> SUBSET Tickers]
    /\ receipt \in 0..Lookback
    /\ ladder \in BOOLEAN
    /\ \A p \in Procs :
          /\ DOMAIN task[p].status \subseteq Days
          /\ \A d \in DOMAIN task[p].status : d < today /\ task[p].status[d] \in Statuses
          /\ \A d \in UNION task[p].todo : task[p].status[d] = "pending"
          /\ task[p].chunk \subseteq DOMAIN task[p].status

(* Whatever fails or dies when, a candle in the truth tables can be        *)
(* replayed: its day has a raw and a parquet file                          *)
(* (capture_massive_minute_aggs_range writes them first).                  *)
CandlesAreReplayable == \A d \in Days : candles[d] # {} => d \in raw /\ d \in parquet

(* What a batch reports is so, whoever else captured meanwhile: a skipped  *)
(* day is whole, a captured day has candles, and a batch reported as a     *)
(* success leaves no day of its range undecided (_summary_payload).        *)
SummaryIsTrue ==
    \A p \in Procs :
       LET status == summary[p].status
       IN  /\ summary[p].outcome = "success" => Pending(status) = {}
           /\ \A d \in DOMAIN status :
                 /\ status[d] = "skipped" => Whole(d)
                 /\ status[d] = "captured" => candles[d] # {}

(* The ladder only starts when as many days as the profile requires were   *)
(* captured whole, though readiness is read from a receipt that may be     *)
(* older than the cache (practice.py, _training_available_history_days).   *)
LadderHasHistory ==
    task["supervisor"].job = "bootstrap" =>
        \E f \in Profiles : Cardinality(WholeDays) >= RequiredDays[f]

(* Once the supervisor collects for good, the window fills up although     *)
(* each pass only asks for the next missing days, answers fall short and   *)
(* processes die (source_collection.py, collect_incremental).              *)
CacheFills == <>[](ladder /\ JobFor(AvailableDays) = "collect") => <>[]CacheComplete

(* training/README.md: paper training starts once the history of the       *)
(* fastest profile is there.                                               *)
RequiredHistoryStartsTheLadder ==
    (CompletedCount >= RequiredDays[FastestOf(Profiles)]) ~> ladder
====
