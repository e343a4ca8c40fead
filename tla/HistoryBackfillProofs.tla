---- MODULE HistoryBackfillProofs ----
(***************************************************************************)
(* Theorems of HistoryBackfill, for any tickers, profiles, window, chunk   *)
(* size and bounds: types, candles that can be replayed, summaries that    *)
(* are true.                                                               *)
(***************************************************************************)
EXTENDS HistoryBackfill, NaturalsInduction, WellFoundedInduction, FiniteSetTheorems, TLAPS

-----------------------------------------------------------------------------
(* Arithmetic and least elements.                                          *)

(* Every nonempty set of days has a first one.                             *)
LEMMA FirstDayOf ==
    ASSUME NEW S \in SUBSET Nat, S # {}
    PROVE  Min(S) \in S /\ \A y \in S : Min(S) <= y
  <1>1. PICK R : R = OpToRel(<, Nat)
    OBVIOUS
  <1>2. IsWellFoundedOn(R, Nat)
    BY <1>1, NatLessThanWellFounded
  <1>3. S \subseteq Nat
    OBVIOUS
  <1>4. PICK x \in S : \A y \in S : ~ (<<y, x>> \in R)
    BY <1>2, <1>3, WFMin, Zenon
  <1>5. \A a, b \in Nat : a < b => <<a, b>> \in R
    BY <1>1 DEF OpToRel
  <1>6. \A y \in S : ~ (y < x)
    BY <1>3, <1>4, <1>5
  <1>7. \A y \in S : x <= y
    BY <1>3, <1>6
  <1> QED BY <1>7 DEF Min

LEMMA EarlierOfTwo ==
    ASSUME NEW a \in Int, NEW b \in Int
    PROVE  Min({a, b}) \in {a, b} /\ Min({a, b}) <= a /\ Min({a, b}) <= b
  <1>1. \E x \in {a, b} : \A y \in {a, b} : x <= y
    <2>1. CASE a <= b
      BY <2>1
    <2>2. CASE b <= a
      BY <2>2
    <2> QED BY <2>1, <2>2
  <1> QED BY <1>1 DEF Min

LEMMA RestOfSum ==
    ASSUME NEW c \in Nat \ {0}, NEW q \in Nat, NEW r \in 0..(c - 1)
    PROVE  (c * q + r) % c = r
  OBVIOUS

LEMMA RestIsLess ==
    ASSUME NEW a \in Nat, NEW c \in Nat \ {0}
    PROVE  /\ a % c \in 0..(c - 1) /\ a % c <= a
           /\ (a - (a % c)) % c = 0
  <1>1. a % c \in 0..(c - 1) /\ a \div c \in Nat
    OBVIOUS
  <1>2. a = (c * (a \div c)) + (a % c)
    OBVIOUS
  <1>3. PICK q \in Nat, r \in 0..(c - 1) : q = a \div c /\ r = a % c
    BY <1>1
  <1>4. PICK m \in Nat : m = c * q
    OBVIOUS
  <1>5. a = m + r /\ r <= a
    BY <1>2, <1>3, <1>4
  <1>6. a - r = (c * q) + 0
    BY <1>4, <1>5
  <1>7. ((c * q) + 0) % c = 0
    BY RestOfSum
  <1> QED BY <1>3, <1>5, <1>6, <1>7

(* Between two multiples of c there is room for c.                         *)
LEMMA MultiplesApart ==
    ASSUME NEW c \in Nat \ {0}, NEW a \in Nat, NEW b \in Nat,
           a % c = 0, b % c = 0, a < b
    PROVE  b - a >= c
  <1> SUFFICES ASSUME b - a < c PROVE FALSE
    OBVIOUS
  <1>1. a \div c \in Nat /\ a = (c * (a \div c)) + (a % c)
    OBVIOUS
  <1>2. b - a \in 0..(c - 1) /\ b = (c * (a \div c)) + (b - a)
    BY <1>1
  <1>3. b % c = b - a
    BY <1>1, <1>2, RestOfSum
  <1> QED BY <1>3

-----------------------------------------------------------------------------
(* The chunks of a set of days cover it and do not overlap.                *)

(* The run of d starts where everything up to d is there and what precedes *)
(* is not.                                                                 *)
LEMMA RunStartIs ==
    ASSUME NEW days \in SUBSET Nat, NEW d \in days, NEW s \in days,
           s <= d, s..d \subseteq days, s - 1 \notin days
    PROVE  RunStart(days, d) = s
  <1> DEFINE T == {x \in days : x <= d /\ x..d \subseteq days /\ x - 1 \notin days}
  <1>1. s \in T
    OBVIOUS
  <1>2. ASSUME NEW x \in T PROVE x = s
    <2>1. x \in Nat /\ s \in Nat /\ d \in Nat
      OBVIOUS
    <2>2. CASE x < s
      <3>1. s - 1 \in x..d
        BY <2>1, <2>2
      <3> QED BY <1>2, <3>1
    <2>3. CASE s < x
      <3>1. x - 1 \in s..d
        BY <2>1, <2>3, <1>2
      <3> QED BY <1>2, <3>1
    <2> QED BY <2>1, <2>2, <2>3
  <1>3. T = {s}
    BY <1>1, <1>2
  <1>4. Max({s}) = s
    BY DEF Max
  <1> QED BY <1>3, <1>4 DEF RunStart

LEMMA RunHasStart ==
    ASSUME NEW days \in SUBSET Nat, NEW d \in days
    PROVE  \E s \in days : s <= d /\ s..d \subseteq days /\ s - 1 \notin days
  <1> DEFINE T == {x \in days : x <= d /\ x..d \subseteq days}
  <1>1. d \in Nat /\ d..d = {d}
    OBVIOUS
  <1>2. d \in T /\ T \in SUBSET Nat
    <2>1. d <= d /\ d..d \subseteq days
      BY <1>1
    <2>2. T \subseteq days /\ days \subseteq Nat
      OBVIOUS
    <2> QED BY <2>1, <2>2
  <1>3. PICK s \in T : \A y \in T : s <= y
    <2> HIDE DEF T
    <2> QED BY <1>2, FirstDayOf
  <1>4. s \in Nat /\ s <= d /\ s..d \subseteq days
    BY <1>3
  <1>5. ASSUME s - 1 \in days PROVE FALSE
    <2>1. (s - 1)..d \subseteq days
      <3>1. \A z \in (s - 1)..d : z = s - 1 \/ z \in s..d
        BY <1>1, <1>4
      <3> QED BY <1>4, <1>5, <3>1
    <2>2. s - 1 \in T /\ ~(s <= s - 1)
      BY <1>1, <1>4, <1>5, <2>1
    <2> QED BY <1>3, <1>4, <2>2
  <1> QED BY <1>3, <1>4, <1>5

ChunkFrom(days, d) == {e \in days : e \in d..(d + ChunkDays - 1) /\ d..e \subseteq days}

LEMMA ChunksCover ==
    ASSUME NEW days \in SUBSET Nat, NEW d \in days
    PROVE  \E c \in ChunksOf(days) : d \in c
  <1> USE HistoryAssumption DEF HistoryAssumption
  <1>1. PICK s \in days : s <= d /\ s..d \subseteq days /\ s - 1 \notin days
    BY RunHasStart
  <1>2. s \in Nat /\ d \in Nat /\ d - s \in Nat /\ ChunkDays \in Nat \ {0}
    BY <1>1
  <1>3. PICK e : e = d - ((d - s) % ChunkDays)
    OBVIOUS
  <1>4. (d - s) % ChunkDays \in 0..(ChunkDays - 1) /\ (d - s) % ChunkDays <= d - s
    BY <1>2, RestIsLess
  <1>5. e \in s..d /\ d \in e..(e + ChunkDays - 1) /\ e - s = (d - s) - ((d - s) % ChunkDays)
    BY <1>2, <1>3, <1>4
  <1>6. (e - s) % ChunkDays = 0
    BY <1>2, <1>5, RestIsLess
  <1>7. e \in days /\ s <= e /\ s..e \subseteq days /\ e..d \subseteq days
    BY <1>1, <1>2, <1>5
  <1>8. RunStart(days, e) = s
    BY <1>1, <1>7, RunStartIs
  <1>9. ChunkFrom(days, e) \in ChunksOf(days)
    BY <1>6, <1>7, <1>8 DEF ChunksOf, ChunkFrom
  <1>10. d \in ChunkFrom(days, e)
    BY <1>5, <1>7 DEF ChunkFrom
  <1> QED BY <1>9, <1>10

LEMMA ChunksInside ==
    ASSUME NEW days \in SUBSET Nat, NEW c \in ChunksOf(days)
    PROVE  c # {} /\ c \subseteq days
  <1> USE HistoryAssumption DEF HistoryAssumption
  <1>1. PICK d \in days : c = ChunkFrom(days, d)
    BY DEF ChunksOf, ChunkFrom
  <1>2. d \in Nat /\ d..d = {d} /\ d \in d..(d + ChunkDays - 1)
    OBVIOUS
  <1>3. d \in c
    BY <1>1, <1>2 DEF ChunkFrom
  <1> QED BY <1>1, <1>3 DEF ChunkFrom

LEMMA ChunksApart ==
    ASSUME NEW days \in SUBSET Nat, NEW b \in ChunksOf(days), NEW c \in ChunksOf(days), NEW e \in b \cap c
    PROVE  b = c
  <1> USE HistoryAssumption DEF HistoryAssumption
  <1>1. PICK x \in days : b = ChunkFrom(days, x) /\ (x - RunStart(days, x)) % ChunkDays = 0
    BY DEF ChunksOf, ChunkFrom
  <1>2. PICK y \in days : c = ChunkFrom(days, y) /\ (y - RunStart(days, y)) % ChunkDays = 0
    BY DEF ChunksOf, ChunkFrom
  <1>3. ASSUME NEW u \in days, NEW v \in days, u < v,
               (u - RunStart(days, u)) % ChunkDays = 0, (v - RunStart(days, v)) % ChunkDays = 0,
               e \in ChunkFrom(days, u), e \in ChunkFrom(days, v)
        PROVE  FALSE
    <2>1. u \in Nat /\ v \in Nat /\ e \in Nat /\ e \in u..(u + ChunkDays - 1) /\ e \in v..(v + ChunkDays - 1)
          /\ u..e \subseteq days
      BY <1>3 DEF ChunkFrom
    <2>2. PICK s \in days : s <= u /\ s..u \subseteq days /\ s - 1 \notin days
      BY RunHasStart
    <2>3. s..v \subseteq days /\ s <= v /\ s \in Nat
      <3>1. \A z \in s..v : z \in s..u \/ z \in u..e
        BY <1>3, <2>1, <2>2
      <3> QED BY <1>3, <2>1, <2>2, <3>1
    <2>4. RunStart(days, u) = s
      BY <2>2, RunStartIs
    <2>5. RunStart(days, v) = s
      BY <2>2, <2>3, RunStartIs
    <2>6. u - s \in Nat /\ v - s \in Nat /\ u - s < v - s /\ (v - s) - (u - s) < ChunkDays
      BY <1>3, <2>1, <2>2, <2>3
    <2>7. (u - s) % ChunkDays = 0 /\ (v - s) % ChunkDays = 0 /\ ChunkDays \in Nat \ {0}
      BY <1>3, <2>4, <2>5
    <2>8. (v - s) - (u - s) >= ChunkDays
      BY <2>6, <2>7, MultiplesApart
    <2> QED BY <2>6, <2>7, <2>8
  <1>4. x \in Nat /\ y \in Nat /\ (x = y \/ x < y \/ y < x)
    OBVIOUS
  <1> QED BY <1>1, <1>2, <1>3, <1>4

LEMMA NextChunkIsOne ==
    ASSUME NEW todo, todo # {}, \A c \in todo : c # {} /\ c \in SUBSET Nat
    PROVE  NextChunk(todo) \in todo
  <1> DEFINE S == {Min(c) : c \in todo}
  <1>1. S \in SUBSET Nat /\ S # {}
    <2>1. ASSUME NEW c \in todo PROVE Min(c) \in Nat
      BY <2>1, FirstDayOf
    <2> QED BY <2>1
  <1>2. PICK m \in S : \A y \in S : m <= y
    <2> HIDE DEF S
    <2> QED BY <1>1, FirstDayOf
  <1>3. \E c \in todo : \A other \in todo : Min(c) <= Min(other)
    <2>1. PICK c \in todo : m = Min(c)
      BY <1>2
    <2>2. \A other \in todo : Min(other) \in S
      OBVIOUS
    <2> QED BY <1>2, <2>1, <2>2
  <1> QED BY <1>3 DEF NextChunk

-----------------------------------------------------------------------------
(* The inductive invariant.                                                *)

Batches == {<<>>} \cup UNION {[D -> Statuses] : D \in SUBSET Days}
Jobs == ByHand \cup {"none", "hydrate", "bootstrap"}
Phases == {"idle", "plan", "next", "files", "record", "collect", "ladder"}
TaskRec ==
    [job : Jobs, phase : Phases, status : Batches, todo : SUBSET SUBSET Days,
     chunk : SUBSET Days, answer : SUBSET (Days \X Tickers), unwritten : SUBSET Days,
     half : BOOLEAN, after : 0..Lookback]
SummaryRec == [status : Batches, outcome : {"none", "failed", "success"}]

(* What a process still has to do covers what is pending, chunk by chunk.  *)
TaskOK(t, day) ==
    /\ \A d \in DOMAIN t.status : d < day
    /\ t.phase \in {"idle", "plan", "collect", "ladder"} => t.status = <<>>
    /\ t.phase \notin {"files", "record"} => t.chunk = {}
    /\ \A c \in t.todo : c # {} /\ \A d \in c : d \in DOMAIN t.status /\ t.status[d] = "pending"
    /\ \A b, c \in t.todo : b \cap c # {} => b = c
    /\ \A c \in t.todo : c \cap t.chunk = {}
    /\ t.chunk \subseteq DOMAIN t.status
    /\ t.answer \subseteq t.chunk \X Tickers
    /\ t.unwritten \subseteq t.chunk
    /\ t.phase # "files" => t.unwritten = {}
    /\ t.half => t.phase = "files" /\ t.unwritten # {}
    /\ \A d \in Pending(t.status) : d \in t.chunk \/ \E c \in t.todo : d \in c

(* What a process believes of the files and tables is so.                  *)
StatusSound(status, r, q, c) ==
    \A d \in DOMAIN status :
        /\ status[d] = "skipped" => d \in r /\ d \in q /\ c[d] = Tickers
        /\ status[d] = "captured" => c[d] # {}

TaskSound(t, r, q, c) ==
    /\ StatusSound(t.status, r, q, c)
    /\ t.phase = "files" => \A d \in Answered(t) : d \in t.unwritten \/ (d \in r /\ d \in q)
    /\ t.half => Min(t.unwritten) \in r
    /\ t.phase = "record" => \A d \in Answered(t) : c[d] # {}

SummaryOK(s, r, q, c) ==
    /\ StatusSound(s.status, r, q, c)
    /\ s.outcome = "success" => Pending(s.status) = {}

Base ==
    /\ today \in Nat /\ FirstDay <= today
    /\ budget \in [{"ticks", "trouble", "cli"} -> Nat]
    /\ today + budget["ticks"] = FirstDay + MaxTicks
    /\ raw \subseteq Days /\ parquet \subseteq Days
    /\ candles \in [Days -> SUBSET Tickers]
    /\ receipt \in 0..Lookback
    /\ ladder \in BOOLEAN
    /\ CandlesAreReplayable

TasksOK ==
    /\ task \in [Procs -> TaskRec]
    /\ \A p \in Procs : TaskOK(task[p], today) /\ TaskSound(task[p], raw, parquet, candles)

SummariesOK ==
    /\ summary \in [Procs -> SummaryRec]
    /\ \A p \in Procs : SummaryOK(summary[p], raw, parquet, candles)

Enough(days) == \E f \in Profiles : days >= RequiredDays[f]

(* A count that was taken once is still covered.                           *)
Counted(t, days) == t.after <= days /\ (t.job = "bootstrap" => Enough(days))

CountsOK ==
    /\ receipt <= Cardinality(WholeDays)
    /\ \A p \in Procs : Counted(task[p], Cardinality(WholeDays))

IInv == Base /\ TasksOK /\ SummariesOK /\ CountsOK

-----------------------------------------------------------------------------
(* Files and candles are only added.                                       *)

Grows(r, q, c, r2, q2, c2) ==
    /\ r \subseteq r2 /\ q \subseteq q2
    /\ \A d \in Days : c[d] \subseteq c2[d] /\ c2[d] \subseteq Tickers

LEMMA BatchType ==
    ASSUME NEW s \in Batches
    PROVE  DOMAIN s \subseteq Days /\ \A d \in DOMAIN s : s[d] \in Statuses
  <1>1. DOMAIN <<>> = {}
    OBVIOUS
  <1> QED BY <1>1 DEF Batches

LEMMA StatusSoundGrows ==
    ASSUME NEW s \in Batches, NEW r, NEW q, NEW c, NEW r2, NEW q2, NEW c2,
           StatusSound(s, r, q, c), Grows(r, q, c, r2, q2, c2)
    PROVE  StatusSound(s, r2, q2, c2)
  <1>1. \A d \in DOMAIN s : d \in Days
    BY BatchType
  <1>2. ASSUME NEW d \in DOMAIN s, s[d] = "skipped"
        PROVE  d \in r2 /\ d \in q2 /\ c2[d] = Tickers
    BY <1>1, <1>2 DEF StatusSound, Grows
  <1>3. ASSUME NEW d \in DOMAIN s, s[d] = "captured"
        PROVE  c2[d] # {}
    BY <1>1, <1>3 DEF StatusSound, Grows
  <1> QED BY <1>2, <1>3 DEF StatusSound

LEMMA TaskSoundGrows ==
    ASSUME NEW t \in TaskRec, NEW r, NEW q, NEW c, NEW r2, NEW q2, NEW c2,
           TaskSound(t, r, q, c), Grows(r, q, c, r2, q2, c2)
    PROVE  TaskSound(t, r2, q2, c2)
  <1>1. t.status \in Batches /\ t.chunk \subseteq Days
    BY DEF TaskRec
  <1>2. StatusSound(t.status, r2, q2, c2)
    BY <1>1, StatusSoundGrows DEF TaskSound
  <1>3. \A d \in Answered(t) : d \in Days
    BY <1>1 DEF Answered
  <1>4. t.phase = "files" => \A d \in Answered(t) : d \in t.unwritten \/ (d \in r2 /\ d \in q2)
    BY DEF TaskSound, Grows
  <1>5. t.half => Min(t.unwritten) \in r2
    BY DEF TaskSound, Grows
  <1>6. t.phase = "record" => \A d \in Answered(t) : c2[d] # {}
    BY <1>3 DEF TaskSound, Grows
  <1> QED BY <1>2, <1>4, <1>5, <1>6 DEF TaskSound

LEMMA SummaryGrows ==
    ASSUME NEW s \in SummaryRec, NEW r, NEW q, NEW c, NEW r2, NEW q2, NEW c2,
           SummaryOK(s, r, q, c), Grows(r, q, c, r2, q2, c2)
    PROVE  SummaryOK(s, r2, q2, c2)
  <1>1. s.status \in Batches
    BY DEF SummaryRec
  <1> QED BY <1>1, StatusSoundGrows DEF SummaryOK

LEMMA DaysAreFinite == IsFiniteSet(Days) /\ Days \subseteq Nat
  <1>1. FirstDay + MaxTicks \in Int
    BY HistoryAssumption DEF HistoryAssumption
  <1> QED BY <1>1, FS_Interval DEF Days

LEMMA WholeCount ==
    ASSUME NEW S \in SUBSET Days
    PROVE  IsFiniteSet(S) /\ Cardinality(S) \in Nat
  BY DaysAreFinite, FS_Subset, FS_CardinalityType

LEMMA WholeGrows ==
    ASSUME Base, Grows(raw, parquet, candles, raw', parquet', candles')
    PROVE  /\ Cardinality(WholeDays) \in Nat /\ Cardinality(WholeDays') \in Nat
           /\ Cardinality(WholeDays) <= Cardinality(WholeDays')
  <1>1. WholeDays \in SUBSET Days /\ WholeDays' \in SUBSET Days
    BY DEF WholeDays
  <1>2. ASSUME NEW d \in WholeDays PROVE d \in WholeDays'
    <2>1. d \in Days /\ d \in raw /\ d \in parquet /\ candles[d] = Tickers
      BY DEF WholeDays, Whole
    <2>2. d \in raw' /\ d \in parquet' /\ candles'[d] = Tickers
      BY <2>1 DEF Grows
    <2> QED BY <2>1, <2>2 DEF WholeDays, Whole
  <1>3. IsFiniteSet(WholeDays') /\ Cardinality(WholeDays') \in Nat /\ Cardinality(WholeDays) \in Nat
    BY <1>1, WholeCount
  <1> QED BY <1>2, <1>3, FS_Subset

LEMMA EnoughGrows ==
    ASSUME NEW a \in Nat, NEW b \in Nat, a <= b, Enough(a)
    PROVE  Enough(b)
  <1>1. \A f \in Profiles : RequiredDays[f] \in Nat
    BY HistoryAssumption DEF HistoryAssumption
  <1> QED BY <1>1 DEF Enough

-----------------------------------------------------------------------------
(* One process moves on: what remains to be shown is its own task.         *)

Growing ==
    /\ Grows(raw, parquet, candles, raw', parquet', candles')
    /\ today <= today'

LEMMA Standing ==
    ASSUME Base, UNCHANGED <<today, files, candles>>
    PROVE  Growing /\ WholeDays' = WholeDays
  <1>1. raw' = raw /\ parquet' = parquet /\ candles' = candles /\ today' = today
    BY DEF files
  <1>2. \A d \in Days : candles[d] \subseteq Tickers
    BY DEF Base
  <1>3. today <= today'
    BY <1>1 DEF Base
  <1> QED BY <1>1, <1>2, <1>3 DEF Growing, Grows, WholeDays, Whole

LEMMA BaseStands ==
    ASSUME Base, UNCHANGED <<today, files, candles, receipt, ladder, budget>>
    PROVE  Base'
  <1>1. raw' = raw /\ parquet' = parquet /\ candles' = candles
    BY DEF files
  <1> QED BY <1>1 DEF Base, CandlesAreReplayable

LEMMA SpendKeeps ==
    ASSUME Base, NEW what \in {"trouble", "cli"}, Spend(what),
           UNCHANGED <<today, files, candles, receipt, ladder>>
    PROVE  Base'
  <1>1. raw' = raw /\ parquet' = parquet /\ candles' = candles
    BY DEF files
  <1>2. budget' \in [{"ticks", "trouble", "cli"} -> Nat] /\ budget'["ticks"] = budget["ticks"]
    BY DEF Base, Spend
  <1> QED BY <1>1, <1>2 DEF Base, CandlesAreReplayable

LEMMA TasksStep ==
    ASSUME TasksOK, Growing, NEW p \in Procs, NEW t \in TaskRec,
           today \in Nat, today' \in Nat,
           SetTask(p, t), TaskOK(t, today'), TaskSound(t, raw', parquet', candles')
    PROVE  TasksOK' /\ task'[p] = t /\ \A q \in Procs : q # p => task'[q] = task[q]
  <1>1. task' \in [Procs -> TaskRec] /\ task'[p] = t /\ \A q \in Procs : q # p => task'[q] = task[q]
    BY DEF SetTask, TasksOK
  <1>2. ASSUME NEW q \in Procs, q # p
        PROVE  TaskOK(task'[q], today') /\ TaskSound(task'[q], raw', parquet', candles')
    <2>1. PICK u \in TaskRec : u = task[q] /\ u = task'[q]
      BY <1>1, <1>2 DEF TasksOK
    <2>2. TaskOK(u, today) /\ TaskSound(u, raw, parquet, candles)
      BY <2>1 DEF TasksOK
    <2>3. TaskSound(u, raw', parquet', candles')
      BY <2>2, TaskSoundGrows DEF Growing
    <2>4. \A d \in DOMAIN u.status : d < today'
      <3>1. u.status \in Batches
        BY DEF TaskRec
      <3>2. \A d \in DOMAIN u.status : d \in Nat /\ d < today
        BY <2>2, <3>1, BatchType, DaysAreFinite DEF TaskOK
      <3> QED BY <3>2 DEF Growing
    <2>5. TaskOK(u, today')
      BY <2>2, <2>4 DEF TaskOK
    <2> QED BY <2>1, <2>3, <2>5
  <1> QED BY <1>1, <1>2 DEF TasksOK

LEMMA SummariesStand ==
    ASSUME SummariesOK, Growing, UNCHANGED summary
    PROVE  SummariesOK'
  <1>1. ASSUME NEW q \in Procs PROVE SummaryOK(summary[q], raw', parquet', candles')
    <2>1. summary[q] \in SummaryRec /\ SummaryOK(summary[q], raw, parquet, candles)
      BY DEF SummariesOK
    <2> QED BY <2>1, SummaryGrows DEF Growing
  <1> QED BY <1>1 DEF SummariesOK

LEMMA SummariesStep ==
    ASSUME SummariesOK, Growing, NEW p \in Procs, NEW s \in SummaryRec,
           summary' = [summary EXCEPT ![p] = s], SummaryOK(s, raw', parquet', candles')
    PROVE  SummariesOK'
  <1>1. summary' \in [Procs -> SummaryRec] /\ summary'[p] = s
        /\ \A q \in Procs : q # p => summary'[q] = summary[q]
    BY DEF SummariesOK
  <1>2. ASSUME NEW q \in Procs, q # p PROVE SummaryOK(summary'[q], raw', parquet', candles')
    <2>1. summary[q] \in SummaryRec /\ SummaryOK(summary[q], raw, parquet, candles)
      BY DEF SummariesOK
    <2> QED BY <1>1, <1>2, <2>1, SummaryGrows DEF Growing
  <1> QED BY <1>1, <1>2 DEF SummariesOK

LEMMA CountsStep ==
    ASSUME Base, TasksOK, CountsOK, Growing, NEW p \in Procs,
           \A q \in Procs : q # p => task'[q] = task[q],
           Counted(task'[p], Cardinality(WholeDays')),
           receipt' = receipt
    PROVE  CountsOK'
  <1>1. PICK m \in Nat, n \in Nat : m = Cardinality(WholeDays) /\ n = Cardinality(WholeDays') /\ m <= n
    BY WholeGrows DEF Growing
  <1>2. ASSUME NEW q \in Procs, q # p PROVE Counted(task'[q], n)
    <2>1. task[q] \in TaskRec /\ Counted(task[q], m)
      BY <1>1 DEF TasksOK, CountsOK
    <2>2. task[q].after \in Nat
      BY <2>1 DEF TaskRec
    <2>3. task[q].after <= n
      BY <1>1, <2>1, <2>2 DEF Counted
    <2>4. task[q].job = "bootstrap" => Enough(n)
      BY <1>1, <2>1, EnoughGrows DEF Counted
    <2> QED BY <1>2, <2>3, <2>4 DEF Counted
  <1>3. receipt' <= n
    BY <1>1 DEF CountsOK, Base
  <1> QED BY <1>1, <1>2, <1>3 DEF CountsOK

(* A process that goes on with the job and the count it has.               *)
LEMMA CountedStill ==
    ASSUME Base, TasksOK, CountsOK, Growing, NEW p \in Procs, NEW t,
           t.job = task[p].job, t.after = task[p].after
    PROVE  Counted(t, Cardinality(WholeDays'))
  <1>1. PICK m \in Nat, n \in Nat : m = Cardinality(WholeDays) /\ n = Cardinality(WholeDays') /\ m <= n
    BY WholeGrows DEF Growing
  <1>2. task[p] \in TaskRec /\ Counted(task[p], m)
    BY <1>1 DEF TasksOK, CountsOK
  <1>3. task[p].after \in Nat
    BY <1>2 DEF TaskRec
  <1>4. t.after <= n
    BY <1>1, <1>2, <1>3 DEF Counted
  <1>5. t.job = "bootstrap" => Enough(n)
    BY <1>1, <1>2, EnoughGrows DEF Counted
  <1> QED BY <1>1, <1>4, <1>5 DEF Counted

(* A process without a job promises nothing.                               *)
LEMMA NothingCounted ==
    ASSUME NEW t, t.job # "bootstrap", t.after = 0, NEW n \in Nat
    PROVE  Counted(t, n)
  BY DEF Counted

(* A task without days.                                                    *)
NoDays(t) ==
    /\ t.phase \in {"idle", "plan", "collect", "ladder"}
    /\ t.status = <<>> /\ t.todo = {} /\ t.chunk = {} /\ t.answer = {}
    /\ t.unwritten = {} /\ ~t.half

LEMMA NoDaysOK ==
    ASSUME NEW t \in TaskRec, NoDays(t), NEW day, NEW r, NEW q, NEW c
    PROVE  TaskOK(t, day) /\ TaskSound(t, r, q, c)
  <1>1. DOMAIN t.status = {}
    BY DEF NoDays
  <1>2. Pending(t.status) = {}
    BY <1>1 DEF Pending
  <1>3. TaskOK(t, day)
    BY <1>1, <1>2 DEF TaskOK, NoDays
  <1>4. TaskSound(t, r, q, c)
    BY <1>1 DEF TaskSound, StatusSound, NoDays
  <1> QED BY <1>3, <1>4

LEMMA IdleIs ==
    /\ Idle \in TaskRec /\ NoDays(Idle)
    /\ Idle.job = "none" /\ Idle.after = 0
  <1>1. <<>> \in Batches
    BY Zenon DEF Batches
  <1>2. 0 \in 0..Lookback
    BY HistoryAssumption DEF HistoryAssumption
  <1>3. Idle \in TaskRec
    BY <1>1, <1>2 DEF TaskRec, Idle, Jobs, Phases
  <1> QED BY <1>3 DEF Idle, NoDays

-----------------------------------------------------------------------------
(* Counts, profiles and windows.                                           *)

LEMMA CompletedIs ==
    ASSUME Base
    PROVE  CompletedCount \in 0..Lookback /\ CompletedCount <= Cardinality(WholeDays)
  <1>1. Lookback \in Nat \ {0} /\ today \in Nat
    BY HistoryAssumption DEF HistoryAssumption, Base
  <1>2. IsFiniteSet(FullWindow) /\ Cardinality(FullWindow) = Lookback
    BY <1>1, FS_Interval DEF FullWindow, DaysBefore
  <1>3. Cardinality(FullWindow \cap WholeDays) \in Nat
        /\ Cardinality(FullWindow \cap WholeDays) <= Lookback
    BY <1>2, FS_Subset, FS_CardinalityType
  <1>4. IsFiniteSet(WholeDays)
    BY WholeCount DEF WholeDays
  <1>5. Cardinality(FullWindow \cap WholeDays) <= Cardinality(WholeDays)
    BY <1>4, FS_Subset
  <1> QED BY <1>1, <1>3, <1>5 DEF CompletedCount

LEMMA AvailableIs ==
    ASSUME Base, CountsOK
    PROVE  AvailableDays \in Nat /\ AvailableDays <= Cardinality(WholeDays)
  <1>1. receipt \in Nat /\ receipt <= Cardinality(WholeDays)
    BY HistoryAssumption DEF HistoryAssumption, Base, CountsOK
  <1>2. CompletedCount \in Nat /\ CompletedCount <= Cardinality(WholeDays)
    BY CompletedIs
  <1> QED BY <1>1, <1>2 DEF AvailableDays

LEMMA FastestIsOne ==
    ASSUME NEW S \in SUBSET Profiles, S # {}
    PROVE  FastestOf(S) \in S
  <1> DEFINE days == {RequiredDays[f] : f \in S}
  <1>1. days \in SUBSET Nat /\ days # {}
    BY HistoryAssumption DEF HistoryAssumption
  <1>2. PICK m \in days : \A n \in days : m <= n
    <2> HIDE DEF days
    <2> QED BY <1>1, FirstDayOf
  <1>3. PICK f \in S : m = RequiredDays[f]
    BY <1>2
  <1>4. \A g \in S : RequiredDays[f] <= RequiredDays[g]
    BY <1>2, <1>3
  <1> QED BY <1>4 DEF FastestOf

LEMMA SelectedIsOne ==
    ASSUME NEW available
    PROVE  SelectedProfile(available) \in Profiles
  <1>1. Profiles # {}
    BY HistoryAssumption DEF HistoryAssumption
  <1>2. FastestOf(Profiles) \in Profiles
    BY <1>1, FastestIsOne
  <1>3. {f \in Profiles : Ready(f, available)} # {} =>
            FastestOf({f \in Profiles : Ready(f, available)}) \in Profiles
    BY FastestIsOne
  <1> QED BY <1>2, <1>3 DEF SelectedProfile

Past(day) == SUBSET (0..(day - 1))

LEMMA FullWindowIsPast ==
    ASSUME Base
    PROVE  FullWindow \in Past(today) /\ FullWindow # {}
  <1>1. today \in Nat /\ Lookback \in Nat \ {0} /\ Lookback <= today
    BY HistoryAssumption DEF HistoryAssumption, Base
  <1>2. today - 1 \in (today - Lookback)..(today - 1)
    BY <1>1
  <1>3. (today - Lookback)..(today - 1) \subseteq 0..(today - 1)
    BY <1>1
  <1> QED BY <1>2, <1>3 DEF FullWindow, DaysBefore, Past

LEMMA ProfileWindowIsPast ==
    ASSUME Base, NEW f \in Profiles
    PROVE  ProfileWindow(f) \in Past(today) /\ today - ProfileLookback[f] \in Nat
  <1>1. today \in Nat /\ ProfileLookback[f] \in Nat /\ ProfileLookback[f] <= today
    BY HistoryAssumption DEF HistoryAssumption, Base
  <1> QED BY <1>1 DEF ProfileWindow, DaysBefore, Past

LEMMA BoundedIsPast ==
    ASSUME NEW first \in Nat, NEW day \in Nat, NEW days \in Nat
    PROVE  Bounded(first, day - 1, days) \in Past(day)
  <1>1. PICK m : m = Min({day - 1, first + days - 1})
    OBVIOUS
  <1>2. m \in Int /\ m <= day - 1
    BY <1>1, EarlierOfTwo
  <1> QED BY <1>1, <1>2 DEF Bounded, Past

LEMMA MissingIsPast ==
    ASSUME Base, ~CacheComplete, NEW bound \in Nat
    PROVE  MissingDays(bound) \in Past(today)
  <1>1. FullWindow \ WholeDays # {} /\ FullWindow \in SUBSET Nat
    BY FullWindowIsPast DEF CacheComplete, Past
  <1>2. NextMissing \in Nat
    BY <1>1, FirstDayOf DEF NextMissing
  <1>3. today \in Nat
    BY DEF Base
  <1> QED BY <1>2, <1>3, BoundedIsPast DEF MissingDays

LEMMA PastIsDays ==
    ASSUME Base
    PROVE  Past(today) \subseteq SUBSET Days /\ today \in Days
  <1>1. today \in Nat /\ FirstDay + MaxTicks \in Nat /\ budget["ticks"] \in Nat
        /\ today + budget["ticks"] = FirstDay + MaxTicks
    BY HistoryAssumption DEF HistoryAssumption, Base
  <1>2. today \in Nat /\ today <= FirstDay + MaxTicks
    BY <1>1
  <1> QED BY <1>1, <1>2 DEF Past, Days

-----------------------------------------------------------------------------
(* Starting a job.                                                         *)

LEMMA PlanningIs ==
    ASSUME NEW job \in Jobs, NEW t, t = [Idle EXCEPT !.job = job, !.phase = "plan"]
    PROVE  t \in TaskRec /\ NoDays(t) /\ t.job = job /\ t.phase = "plan" /\ t.after = 0
  <1>1. <<>> \in Batches
    BY Zenon DEF Batches
  <1>2. 0 \in 0..Lookback
    BY HistoryAssumption DEF HistoryAssumption
  <1>3. t \in TaskRec
    BY <1>1, <1>2 DEF TaskRec, Idle, Phases
  <1> QED BY <1>3 DEF Idle, NoDays

(* A process takes up a task without days while nothing else changes but   *)
(* what is left of the budget.                                             *)
LEMMA TakesUp ==
    ASSUME IInv, Base', NEW p \in Procs, NEW t \in TaskRec, NoDays(t), SetTask(p, t),
           Counted(t, Cardinality(WholeDays)),
           UNCHANGED <<today, files, candles, receipt, summary>>
    PROVE  IInv'
  <1>1. Growing /\ WholeDays' = WholeDays
    BY Standing DEF IInv
  <1>2. TaskOK(t, today') /\ TaskSound(t, raw', parquet', candles')
    BY NoDaysOK
  <1>3. TasksOK' /\ task'[p] = t /\ \A q \in Procs : q # p => task'[q] = task[q]
    BY <1>1, <1>2, TasksStep DEF IInv, Base
  <1>4. CountsOK'
    BY <1>1, <1>3, CountsStep DEF IInv
  <1>5. SummariesOK'
    BY <1>1, SummariesStand DEF IInv
  <1> QED BY <1>3, <1>4, <1>5 DEF IInv

LEMMA DecideKeeps ==
    ASSUME IInv, Decide
    PROVE  IInv'
  <1>1. PICK a \in Nat : a = AvailableDays /\ a <= Cardinality(WholeDays)
    BY AvailableIs DEF IInv
  <1>2. PICK job : job = JobFor(a)
    OBVIOUS
  <1>3. PICK f \in Profiles : f = SelectedProfile(a)
    BY SelectedIsOne
  <1>4. /\ job \in {"bootstrap", "hydrate", "collect"}
        /\ job = "bootstrap" => Ready(f, a)
    <2>1. CASE Ready(f, a) /\ ~ladder
      BY <1>2, <1>3, <2>1 DEF JobFor
    <2>2. CASE ~Ready(f, a)
      BY <1>2, <1>3, <2>2 DEF JobFor
    <2>3. CASE Ready(f, a) /\ ladder
      BY <1>2, <1>3, <2>3 DEF JobFor
    <2> QED BY <2>1, <2>2, <2>3
  <1>5. PICK t : t = [Idle EXCEPT !.job = job, !.phase = "plan"]
    OBVIOUS
  <1>6. job \in Jobs
    BY <1>4 DEF Jobs, ByHand
  <1>7. t \in TaskRec /\ NoDays(t) /\ t.job = job /\ t.after = 0
    BY <1>5, <1>6, PlanningIs
  <1>8. PICK n \in Nat : n = Cardinality(WholeDays)
    BY WholeCount DEF WholeDays
  <1>9. job = "bootstrap" => Enough(n)
    <2>1. RequiredDays[f] \in Nat
      BY HistoryAssumption DEF HistoryAssumption
    <2> QED BY <1>1, <1>4, <1>8, <2>1 DEF Ready, Enough
  <1>10. Counted(t, Cardinality(WholeDays))
    BY <1>7, <1>8, <1>9 DEF Counted
  <1>11. Base'
    BY BaseStands DEF IInv, Decide
  <1>12. SetTask("supervisor", t) /\ "supervisor" \in Procs
    BY <1>1, <1>2, <1>5 DEF Decide, Procs
  <1> QED BY <1>7, <1>10, <1>11, <1>12, TakesUp DEF Decide

LEMMA OperatorStartsKeeps ==
    ASSUME IInv, OperatorStarts
    PROVE  IInv'
  <1>1. PICK job \in OperatorJobs :
            SetTask("operator", [Idle EXCEPT !.job = job, !.phase = "plan"])
    BY DEF OperatorStarts
  <1>2. job \in Jobs /\ job # "bootstrap"
    BY HistoryAssumption DEF HistoryAssumption, Jobs, ByHand
  <1>3. PICK t : t = [Idle EXCEPT !.job = job, !.phase = "plan"]
    OBVIOUS
  <1>4. t \in TaskRec /\ NoDays(t) /\ t.job = job /\ t.after = 0
    BY <1>2, <1>3, PlanningIs
  <1>5. PICK n \in Nat : n = Cardinality(WholeDays)
    BY WholeCount DEF WholeDays
  <1>6. Counted(t, Cardinality(WholeDays))
    BY <1>2, <1>4, <1>5, NothingCounted
  <1>7. Base'
    BY SpendKeeps DEF IInv, OperatorStarts
  <1> QED BY <1>1, <1>3, <1>4, <1>6, <1>7, TakesUp DEF OperatorStarts, Procs

(* Whatever ends a job, its process is idle again.                         *)
LEMMA GoesIdle ==
    ASSUME IInv, Base', NEW p \in Procs, SetTask(p, Idle),
           UNCHANGED <<today, files, candles, receipt, summary>>
    PROVE  IInv'
  <1>1. PICK n \in Nat : n = Cardinality(WholeDays)
    BY WholeCount DEF WholeDays
  <1>2. Counted(Idle, Cardinality(WholeDays))
    BY <1>1, IdleIs, NothingCounted
  <1> QED BY <1>2, IdleIs, TakesUp

LEMMA InterruptedKeeps ==
    ASSUME IInv, NEW p \in Procs, Interrupted(p)
    PROVE  IInv'
  <1>1. Base'
    BY SpendKeeps DEF IInv, Interrupted
  <1> QED BY <1>1, GoesIdle DEF Interrupted

LEMMA CompleteLadderKeeps ==
    ASSUME IInv, NEW p \in Procs, CompleteLadder(p)
    PROVE  IInv'
  <1>1. raw' = raw /\ parquet' = parquet /\ candles' = candles
    BY DEF CompleteLadder, files
  <1>2. Base'
    BY <1>1 DEF CompleteLadder, IInv, Base, CandlesAreReplayable
  <1> QED BY <1>2, GoesIdle DEF CompleteLadder

LEMMA WriteCollectReceiptKeeps ==
    ASSUME IInv, NEW p \in Procs, WriteCollectReceipt(p)
    PROVE  IInv'
  <1>1. Growing /\ WholeDays' = WholeDays
    BY Standing DEF IInv, WriteCollectReceipt
  <1>2. receipt' \in 0..Lookback /\ receipt' <= Cardinality(WholeDays)
    <2>1. task[p] \in TaskRec /\ Counted(task[p], Cardinality(WholeDays))
      BY DEF IInv, TasksOK, CountsOK
    <2> QED BY <2>1 DEF WriteCollectReceipt, TaskRec, Counted
  <1>3. raw' = raw /\ parquet' = parquet /\ candles' = candles
    BY DEF WriteCollectReceipt, files
  <1>4. Base'
    BY <1>2, <1>3 DEF WriteCollectReceipt, IInv, Base, CandlesAreReplayable
  <1>5. TaskOK(Idle, today') /\ TaskSound(Idle, raw', parquet', candles')
    BY IdleIs, NoDaysOK
  <1>6. TasksOK' /\ task'[p] = Idle /\ \A q \in Procs : q # p => task'[q] = task[q]
    BY <1>1, <1>5, IdleIs, TasksStep DEF IInv, Base, WriteCollectReceipt
  <1>7. PICK n \in Nat : n = Cardinality(WholeDays)
    BY WholeCount DEF WholeDays
  <1>8. Counted(Idle, n)
    BY IdleIs, NothingCounted
  <1>9. CountsOK'
    BY <1>1, <1>2, <1>6, <1>7, <1>8 DEF IInv, CountsOK
  <1>10. SummariesOK'
    BY <1>1, SummariesStand DEF IInv, WriteCollectReceipt
  <1> QED BY <1>4, <1>6, <1>9, <1>10 DEF IInv

-----------------------------------------------------------------------------
(* Planning a batch.                                                       *)

(* A process goes on with its job.                                         *)
LEMMA MovesOn ==
    ASSUME IInv, Base', Growing, NEW p \in Procs, NEW t \in TaskRec, SetTask(p, t),
           TaskOK(t, today'), TaskSound(t, raw', parquet', candles'),
           t.job = task[p].job, t.after = task[p].after,
           UNCHANGED <<receipt, summary>>
    PROVE  IInv'
  <1>1. today \in Nat /\ today' \in Nat
    BY DEF IInv, Base
  <1>2. TasksOK' /\ task'[p] = t /\ \A q \in Procs : q # p => task'[q] = task[q]
    BY <1>1, TasksStep DEF IInv
  <1>3. Counted(t, Cardinality(WholeDays'))
    BY CountedStill DEF IInv
  <1>4. CountsOK'
    BY <1>2, <1>3, CountsStep DEF IInv
  <1>5. SummariesOK'
    BY SummariesStand DEF IInv
  <1> QED BY <1>2, <1>4, <1>5 DEF IInv

LEMMA PlannedIs ==
    ASSUME NEW days \in SUBSET Days, NEW resume \in BOOLEAN, NEW s, s = Planned(days, resume)
    PROVE  /\ s \in Batches /\ DOMAIN s = days
           /\ \A d \in days : s[d] \in {"skipped", "pending"} /\ (s[d] = "skipped" => Whole(d))
  <1>1. DOMAIN s = days
    BY DEF Planned
  <1>2. \A d \in days : s[d] \in {"skipped", "pending"} /\ (s[d] = "skipped" => Whole(d))
    BY DEF Planned
  <1>3. s \in [days -> Statuses]
    BY DEF Planned, Statuses
  <1>4. s \in Batches
    BY <1>3 DEF Batches
  <1> QED BY <1>1, <1>2, <1>4

LEMMA BatchIs ==
    ASSUME Base, NEW t \in TaskRec, t.phase = "plan", TaskOK(t, today),
           NEW days \in Past(today), NEW resume \in BOOLEAN,
           NEW v, v = Batch(t, days, resume)
    PROVE  /\ v \in TaskRec /\ v.job = t.job /\ v.after = t.after
           /\ TaskOK(v, today) /\ TaskSound(v, raw, parquet, candles)
  <1>1. days \in SUBSET Days /\ days \in SUBSET Nat /\ \A d \in days : d < today
    <2>1. days \in SUBSET Days
      BY PastIsDays
    <2>2. today \in Nat
      BY DEF Base
    <2> QED BY <2>1, <2>2 DEF Past
  <1>2. PICK s : s = Planned(days, resume)
    OBVIOUS
  <1>3. /\ s \in Batches /\ DOMAIN s = days
        /\ \A d \in days : s[d] \in {"skipped", "pending"} /\ (s[d] = "skipped" => Whole(d))
    BY <1>1, <1>2, PlannedIs
  <1>4. PICK pending : pending = Pending(s)
    OBVIOUS
  <1>5. pending \subseteq days /\ pending \in SUBSET Nat /\ \A d \in pending : s[d] = "pending"
    BY <1>1, <1>3, <1>4 DEF Pending
  <1>6. PICK todo : todo = ChunksOf(pending)
    OBVIOUS
  <1>7. /\ \A c \in todo : c # {} /\ c \subseteq pending
        /\ \A b, c \in todo : b \cap c # {} => b = c
        /\ \A d \in pending : \E c \in todo : d \in c
    <2>1. \A c \in todo : c # {} /\ c \subseteq pending
      BY <1>5, <1>6, ChunksInside
    <2>2. \A b, c \in todo : b \cap c # {} => b = c
      BY <1>5, <1>6, ChunksApart
    <2>3. \A d \in pending : \E c \in todo : d \in c
      BY <1>5, <1>6, ChunksCover
    <2> QED BY <2>1, <2>2, <2>3
  <1>8. todo \in SUBSET SUBSET Days
    BY <1>1, <1>5, <1>7
  <1>9. v = [t EXCEPT !.phase = "next", !.status = s, !.todo = todo]
    BY <1>2, <1>4, <1>6 DEF Batch
  <1>10. /\ v \in TaskRec /\ v.job = t.job /\ v.phase = "next" /\ v.status = s /\ v.todo = todo
         /\ v.chunk = t.chunk /\ v.answer = t.answer /\ v.unwritten = t.unwritten
         /\ v.half = t.half /\ v.after = t.after
    <2>1. /\ v.job = t.job /\ v.phase = "next" /\ v.status = s /\ v.todo = todo
          /\ v.chunk = t.chunk /\ v.answer = t.answer /\ v.unwritten = t.unwritten
          /\ v.half = t.half /\ v.after = t.after
      BY <1>9 DEF TaskRec
    <2>2. v \in TaskRec
      BY <1>3, <1>8, <1>9 DEF TaskRec, Phases
    <2> QED BY <2>1, <2>2
  <1>11. v.chunk = {} /\ v.answer = {} /\ v.unwritten = {} /\ ~v.half
    BY <1>10 DEF TaskOK
  <1>12. TaskOK(v, today)
    <2>1. DOMAIN v.status = days /\ Pending(v.status) = pending
      BY <1>3, <1>4, <1>10
    <2>2. \A c \in v.todo : c # {} /\ \A d \in c : d \in DOMAIN v.status /\ v.status[d] = "pending"
      BY <1>5, <1>7, <1>10, <2>1
    <2>3. \A d \in Pending(v.status) : \E c \in v.todo : d \in c
      BY <1>7, <1>10, <2>1
    <2>4. \A d \in DOMAIN v.status : d < today
      BY <1>1, <2>1
    <2>5. \A b, c \in v.todo : b \cap c # {} => b = c
      BY <1>7, <1>10
    <2> QED BY <1>10, <1>11, <2>2, <2>3, <2>4, <2>5 DEF TaskOK
  <1>13. StatusSound(s, raw, parquet, candles)
    BY <1>3 DEF StatusSound, Whole
  <1>14. TaskSound(v, raw, parquet, candles)
    BY <1>10, <1>11, <1>13 DEF TaskSound
  <1> QED BY <1>10, <1>12, <1>14

LEMMA PlansBatch ==
    ASSUME IInv, NEW p \in Procs, At(p, "plan"), NEW days \in Past(today), NEW resume \in BOOLEAN,
           SetTask(p, Batch(task[p], days, resume)),
           UNCHANGED <<today, files, candles, receipt, ladder, summary, budget>>
    PROVE  IInv'
  <1>1. PICK v : v = Batch(task[p], days, resume)
    OBVIOUS
  <1>2. task[p] \in TaskRec /\ task[p].phase = "plan" /\ TaskOK(task[p], today)
    BY DEF IInv, TasksOK, At
  <1>3. /\ v \in TaskRec /\ v.job = task[p].job /\ v.after = task[p].after
        /\ TaskOK(v, today) /\ TaskSound(v, raw, parquet, candles)
    BY <1>1, <1>2, BatchIs DEF IInv
  <1>4. today' = today /\ raw' = raw /\ parquet' = parquet /\ candles' = candles
    BY DEF files
  <1>5. Growing
    BY Standing DEF IInv
  <1>6. Base'
    BY BaseStands DEF IInv
  <1> QED BY <1>1, <1>3, <1>4, <1>5, <1>6, MovesOn

LEMMA PlanKeeps ==
    ASSUME IInv, NEW p \in Procs, Plan(p)
    PROVE  IInv'
  <1>1. PICK t \in {task[p]}, f \in Profiles : t = task[p] /\ f = SelectedProfile(AvailableDays)
    BY SelectedIsOne
  <1>2. Base /\ At(p, "plan") /\ UNCHANGED <<today, files, candles, receipt, ladder, summary, budget>>
    BY DEF Plan, IInv
  <1>3. task[p] \in TaskRec /\ NoDays(t)
    <2>1. task[p] \in TaskRec /\ TaskOK(t, today) /\ t.phase = "plan"
      BY <1>1, <1>2 DEF IInv, TasksOK, At
    <2>2. t.status = <<>> /\ t.chunk = {} /\ ~t.half
      BY <2>1 DEF TaskOK
    <2>3. DOMAIN t.status = {}
      BY <2>2
    <2>4. t.todo = {} /\ t.answer = {} /\ t.unwritten = {}
      BY <1>1, <2>1, <2>2, <2>3 DEF TaskOK, TaskRec
    <2> QED BY <2>1, <2>2, <2>4 DEF NoDays
  <1>4. MaxMassiveDays \in Nat /\ Lookback \in Nat /\ TRUE \in BOOLEAN /\ FALSE \in BOOLEAN
    BY HistoryAssumption DEF HistoryAssumption
  <1>5. CASE SetTask(p, Batch(t, HydrateDays(f), TRUE))
    <2>1. today - ProfileLookback[f] \in Nat /\ today \in Nat
      BY <1>2, ProfileWindowIsPast DEF Base
    <2>2. HydrateDays(f) \in Past(today)
      BY <1>4, <2>1, BoundedIsPast DEF HydrateDays
    <2> QED BY <1>1, <1>2, <1>4, <1>5, <2>2, PlansBatch
  <1>6. CASE SetTask(p, Batch(t, ProfileWindow(f), TRUE))
    <2>1. ProfileWindow(f) \in Past(today)
      BY <1>2, ProfileWindowIsPast
    <2> QED BY <1>1, <1>2, <1>4, <1>6, <2>1, PlansBatch
  <1>7. CASE ~CacheComplete /\ SetTask(p, Batch(t, MissingDays(MaxMassiveDays), TRUE))
    <2>1. MissingDays(MaxMassiveDays) \in Past(today)
      BY <1>2, <1>4, <1>7, MissingIsPast
    <2> QED BY <1>1, <1>2, <1>4, <1>7, <2>1, PlansBatch
  <1>8. CASE ~CacheComplete /\ SetTask(p, Batch(t, MissingDays(Lookback), TRUE))
    <2>1. MissingDays(Lookback) \in Past(today)
      BY <1>2, <1>4, <1>8, MissingIsPast
    <2> QED BY <1>1, <1>2, <1>4, <1>8, <2>1, PlansBatch
  <1>9. CASE t.job = "collect" /\ SetTask(p, [t EXCEPT !.phase = "collect", !.after = CompletedCount])
    <2>1. PICK n \in 0..Lookback : n = CompletedCount /\ n <= Cardinality(WholeDays)
      BY <1>2, CompletedIs
    <2> DEFINE v == [t EXCEPT !.phase = "collect", !.after = n]
    <2>2. /\ v \in TaskRec /\ NoDays(v) /\ v.job = t.job /\ v.after = n
      <3>1. v \in TaskRec /\ v.job = t.job /\ v.after = n
        BY <1>1, <1>3, <2>1 DEF TaskRec, Phases
      <3>2. /\ v.phase = "collect" /\ v.status = t.status /\ v.todo = t.todo /\ v.chunk = t.chunk
            /\ v.answer = t.answer /\ v.unwritten = t.unwritten /\ v.half = t.half
        BY <1>1, <1>3, <2>1 DEF TaskRec
      <3> QED BY <1>3, <3>1, <3>2 DEF NoDays
    <2>3. SetTask(p, v)
      BY <1>9, <2>1
    <2> HIDE DEF v
    <2>4. Counted(v, Cardinality(WholeDays))
      BY <1>9, <2>1, <2>2 DEF Counted
    <2>5. Base'
      BY <1>2, BaseStands
    <2> QED BY <1>2, <2>2, <2>3, <2>4, <2>5, TakesUp
  <1>10. CASE SetTask(p, Idle)
    <2>1. Base'
      BY <1>2, BaseStands
    <2> QED BY <1>2, <1>10, <2>1, GoesIdle
  <1>11. CASE \E d \in FullWindow : SetTask(p, Batch(t, {d}, FALSE))
    <2>1. PICK d \in FullWindow : SetTask(p, Batch(t, {d}, FALSE))
      BY <1>11
    <2>2. {d} \in Past(today)
      BY <1>2, FullWindowIsPast DEF Past
    <2> QED BY <1>1, <1>2, <1>4, <2>1, <2>2, PlansBatch
  <1> QED BY <1>1, <1>5, <1>6, <1>7, <1>8, <1>9, <1>10, <1>11 DEF Plan

-----------------------------------------------------------------------------
(* Working through the chunks.                                             *)

LEMMA FetchKeeps ==
    ASSUME IInv, NEW p \in Procs, Fetch(p)
    PROVE  IInv'
  <1>1. PICK t \in TaskRec : t = task[p]
    BY DEF IInv, TasksOK
  <1>2. t.phase = "next" /\ t.todo # {} /\ TaskOK(t, today) /\ TaskSound(t, raw, parquet, candles)
    BY <1>1 DEF Fetch, At, IInv, TasksOK
  <1>3. PICK chunk : chunk = NextChunk(t.todo)
    OBVIOUS
  <1>4. chunk \in t.todo
    <2>1. \A c \in t.todo : c # {} /\ c \in SUBSET Nat
      BY <1>2, DaysAreFinite DEF TaskOK, TaskRec
    <2> QED BY <1>2, <1>3, <2>1, NextChunkIsOne
  <1>5. PICK answer \in SUBSET (chunk \X Tickers) :
            /\ IF answer = FullAnswer(chunk) THEN UNCHANGED budget ELSE Spend("trouble")
            /\ SetTask(p, [t EXCEPT
                    !.phase = "files", !.todo = @ \ {chunk}, !.chunk = chunk, !.answer = answer,
                    !.unwritten = DaysToWrite(t.job, chunk, answer), !.half = FALSE])
    BY <1>1, <1>3 DEF Fetch, FullAnswer
  <1>6. PICK unwritten : unwritten = DaysToWrite(t.job, chunk, answer)
    OBVIOUS
  <1>7. unwritten \subseteq chunk /\ \A d \in chunk : (\E k \in Tickers : <<d, k>> \in answer) => d \in unwritten
    BY <1>6 DEF DaysToWrite
  <1>8. chunk \in SUBSET Days /\ answer \in SUBSET (Days \X Tickers) /\ unwritten \in SUBSET Days
    BY <1>4, <1>5, <1>7 DEF TaskRec
  <1>9. PICK v : v = [t EXCEPT !.phase = "files", !.todo = @ \ {chunk}, !.chunk = chunk,
                               !.answer = answer, !.unwritten = unwritten, !.half = FALSE]
    OBVIOUS
  <1>10. /\ v \in TaskRec /\ v.job = t.job /\ v.phase = "files" /\ v.status = t.status
         /\ v.todo = t.todo \ {chunk} /\ v.chunk = chunk /\ v.answer = answer
         /\ v.unwritten = unwritten /\ v.half = FALSE /\ v.after = t.after
    BY <1>8, <1>9 DEF TaskRec, Phases
  <1>11. TaskOK(v, today)
    <2>1. t.chunk = {}
      BY <1>2 DEF TaskOK
    <2>2. \A c \in v.todo : c \cap v.chunk = {}
      BY <1>2, <1>4, <1>10 DEF TaskOK
    <2>3. \A d \in Pending(v.status) : d \in v.chunk \/ \E c \in v.todo : d \in c
      BY <1>2, <1>10, <2>1 DEF TaskOK
    <2>4. v.chunk \subseteq DOMAIN v.status
      BY <1>2, <1>4, <1>10 DEF TaskOK
    <2>5. \A c \in v.todo : c # {} /\ \A d \in c : d \in DOMAIN v.status /\ v.status[d] = "pending"
      BY <1>2, <1>10 DEF TaskOK
    <2>6. \A d \in DOMAIN v.status : d < today
      BY <1>2, <1>10 DEF TaskOK
    <2>7. \A b, c \in v.todo : b \cap c # {} => b = c
      BY <1>2, <1>10 DEF TaskOK
    <2> QED BY <1>5, <1>7, <1>10, <2>2, <2>3, <2>4, <2>5, <2>6, <2>7 DEF TaskOK
  <1>12. TaskSound(v, raw, parquet, candles)
    <2>1. StatusSound(v.status, raw, parquet, candles)
      BY <1>2, <1>10 DEF TaskSound
    <2>2. \A d \in Answered(v) : d \in v.unwritten
      BY <1>7, <1>10 DEF Answered
    <2> QED BY <1>10, <2>1, <2>2 DEF TaskSound
  <1>13. Base'
    BY <1>5, BaseStands, SpendKeeps DEF IInv, Fetch
  <1>14. Growing
    BY Standing DEF IInv, Fetch
  <1>15. today' = today /\ raw' = raw /\ parquet' = parquet /\ candles' = candles
    BY DEF Fetch, files
  <1>16. SetTask(p, v)
    BY <1>5, <1>6, <1>9
  <1> QED BY <1>1, <1>10, <1>11, <1>12, <1>13, <1>14, <1>15, <1>16, MovesOn DEF Fetch

LEMMA WriteFileKeeps ==
    ASSUME IInv, NEW p \in Procs, WriteFile(p)
    PROVE  IInv'
  <1>1. PICK t \in TaskRec : t = task[p]
    BY DEF IInv, TasksOK
  <1>2. /\ t.phase = "files" /\ t.unwritten # {} /\ TaskOK(t, today)
        /\ TaskSound(t, raw, parquet, candles) /\ Base
    BY <1>1 DEF WriteFile, At, IInv, TasksOK
  <1>3. PICK d : d = Min(t.unwritten)
    OBVIOUS
  <1>4. d \in t.unwritten /\ d \in Days
    <2>1. t.unwritten \in SUBSET Nat /\ t.unwritten \subseteq Days
      BY DaysAreFinite DEF TaskRec
    <2> QED BY <1>2, <1>3, <2>1, FirstDayOf
  <1>5. CASE ~t.half
    <2>1. PICK v : v = [t EXCEPT !.half = TRUE]
      OBVIOUS
    <2>2. raw' = raw \cup {d} /\ parquet' = parquet /\ SetTask(p, v)
      BY <1>1, <1>3, <1>5, <2>1 DEF WriteFile
    <2>3. /\ v \in TaskRec /\ v.job = t.job /\ v.phase = t.phase /\ v.status = t.status
          /\ v.todo = t.todo /\ v.chunk = t.chunk /\ v.answer = t.answer
          /\ v.unwritten = t.unwritten /\ v.half /\ v.after = t.after
      BY <2>1 DEF TaskRec
    <2>4. TaskOK(v, today)
      BY <1>2, <2>3 DEF TaskOK
    <2>5. Grows(raw, parquet, candles, raw', parquet', candles')
      BY <1>2, <2>2 DEF WriteFile, Grows, Base
    <2>6. TaskSound(v, raw', parquet', candles')
      <3>1. TaskSound(t, raw', parquet', candles')
        BY <1>2, <2>5, TaskSoundGrows
      <3>2. Answered(v) = Answered(t)
        BY <2>3 DEF Answered
      <3>3. Min(v.unwritten) \in raw'
        BY <1>3, <2>2, <2>3
      <3> QED BY <2>3, <3>1, <3>2, <3>3 DEF TaskSound
    <2>7. Base'
      BY <1>2, <1>4, <2>2 DEF Base, CandlesAreReplayable, WriteFile
    <2>8. today' = today /\ Growing
      BY <1>2, <2>5 DEF WriteFile, Growing, Base
    <2> QED BY <1>1, <2>2, <2>3, <2>4, <2>6, <2>7, <2>8, MovesOn DEF WriteFile
  <1>6. CASE t.half
    <2>1. PICK v : v = [t EXCEPT !.half = FALSE, !.unwritten = @ \ {d}]
      OBVIOUS
    <2>2. raw' = raw /\ parquet' = parquet \cup ({d} \cap Answered(t)) /\ SetTask(p, v)
      BY <1>1, <1>3, <1>6, <2>1 DEF WriteFile
    <2>3. /\ v \in TaskRec /\ v.job = t.job /\ v.phase = t.phase /\ v.status = t.status
          /\ v.todo = t.todo /\ v.chunk = t.chunk /\ v.answer = t.answer
          /\ v.unwritten = t.unwritten \ {d} /\ ~v.half /\ v.after = t.after
      BY <2>1 DEF TaskRec
    <2>4. TaskOK(v, today)
      BY <1>2, <2>3 DEF TaskOK
    <2>5. Grows(raw, parquet, candles, raw', parquet', candles')
      BY <1>2, <2>2 DEF WriteFile, Grows, Base
    <2>6. TaskSound(v, raw', parquet', candles')
      <3>1. TaskSound(t, raw', parquet', candles')
        BY <1>2, <2>5, TaskSoundGrows
      <3>2. Answered(v) = Answered(t)
        BY <2>3 DEF Answered
      <3>3. d \in raw'
        BY <1>2, <1>3, <1>6, <2>2 DEF TaskSound
      <3>4. \A e \in Answered(v) : e \in v.unwritten \/ (e \in raw' /\ e \in parquet')
        BY <1>2, <2>2, <2>3, <3>1, <3>2, <3>3 DEF TaskSound
      <3> QED BY <1>2, <2>3, <3>1, <3>4 DEF TaskSound
    <2>7. Base'
      BY <1>2, <1>4, <2>2 DEF Base, CandlesAreReplayable, WriteFile
    <2>8. today' = today /\ Growing
      BY <1>2, <2>5 DEF WriteFile, Growing, Base
    <2> QED BY <1>1, <2>2, <2>3, <2>4, <2>6, <2>7, <2>8, MovesOn DEF WriteFile
  <1> QED BY <1>5, <1>6

LEMMA NormalizeRowsKeeps ==
    ASSUME IInv, NEW p \in Procs, NormalizeRows(p)
    PROVE  IInv'
  <1>1. PICK t \in TaskRec : t = task[p]
    BY DEF IInv, TasksOK
  <1>2. /\ t.phase = "files" /\ t.unwritten = {} /\ TaskOK(t, today)
        /\ TaskSound(t, raw, parquet, candles) /\ Base
    BY <1>1 DEF NormalizeRows, FilesDone, IInv, TasksOK
  <1>3. \A d \in Days : candles'[d] = candles[d] \cup {k \in Tickers : <<d, k>> \in t.answer}
    BY <1>1 DEF NormalizeRows
  <1>4. candles' \in [Days -> SUBSET Tickers]
    <2>1. \A d \in Days : candles[d] \cup {k \in Tickers : <<d, k>> \in t.answer} \in SUBSET Tickers
      BY <1>2 DEF Base
    <2> QED BY <1>1, <2>1 DEF NormalizeRows
  <1>5. raw' = raw /\ parquet' = parquet /\ today' = today
    BY DEF NormalizeRows, files
  <1>6. Grows(raw, parquet, candles, raw', parquet', candles')
    BY <1>3, <1>4, <1>5 DEF Grows
  <1>7. Growing
    BY <1>2, <1>5, <1>6 DEF Growing, Base
  <1>8. \A d \in Answered(t) : d \in raw /\ d \in parquet
    BY <1>2 DEF TaskSound
  <1>9. \A d \in Days, k \in Tickers : <<d, k>> \in t.answer => d \in Answered(t)
    BY <1>2 DEF TaskOK, Answered
  <1>10. CandlesAreReplayable'
    <2>1. ASSUME NEW d \in Days, candles'[d] # {} PROVE d \in raw' /\ d \in parquet'
      <3>1. CASE candles[d] # {}
        BY <1>2, <1>5, <3>1 DEF Base, CandlesAreReplayable
      <3>2. CASE \E k \in Tickers : <<d, k>> \in t.answer
        BY <1>5, <1>8, <1>9, <3>2
      <3> QED BY <1>3, <2>1, <3>1, <3>2
    <2> QED BY <2>1 DEF CandlesAreReplayable
  <1>11. Base'
    BY <1>2, <1>4, <1>5, <1>10 DEF Base, NormalizeRows
  <1>12. PICK v : v = [t EXCEPT !.phase = "record"]
    OBVIOUS
  <1>13. /\ v \in TaskRec /\ v.job = t.job /\ v.phase = "record" /\ v.status = t.status
         /\ v.todo = t.todo /\ v.chunk = t.chunk /\ v.answer = t.answer
         /\ v.unwritten = t.unwritten /\ v.half = t.half /\ v.after = t.after
    BY <1>12 DEF TaskRec, Phases
  <1>14. TaskOK(v, today)
    BY <1>2, <1>13 DEF TaskOK
  <1>15. TaskSound(v, raw', parquet', candles')
    <2>1. TaskSound(t, raw', parquet', candles')
      BY <1>2, <1>6, TaskSoundGrows
    <2>2. \A d \in Answered(v) : candles'[d] # {}
      <3>1. ASSUME NEW d \in Answered(t) PROVE candles'[d] # {}
        <4>1. d \in Days
          BY DEF Answered, TaskRec
        <4>2. PICK k \in Tickers : <<d, k>> \in t.answer
          BY DEF Answered
        <4> QED BY <1>3, <4>1, <4>2
      <3>2. Answered(v) = Answered(t)
        BY <1>13 DEF Answered
      <3> QED BY <3>1, <3>2
    <2>3. ~v.half
      BY <1>2, <1>13 DEF TaskOK
    <2> QED BY <1>13, <2>1, <2>2, <2>3 DEF TaskSound
  <1>16. SetTask(p, v)
    BY <1>1, <1>12 DEF NormalizeRows
  <1> QED BY <1>1, <1>5, <1>7, <1>11, <1>13, <1>14, <1>15, <1>16, MovesOn DEF NormalizeRows

(* The days of a chunk get a status of their own.                          *)
Settled(t, s) ==
    /\ s \in Batches /\ DOMAIN s = DOMAIN t.status
    /\ \A d \in DOMAIN s :
          IF d \in t.chunk THEN s[d] \in {"captured", "failed"} ELSE s[d] = t.status[d]

LEMMA SettledIs ==
    ASSUME NEW t \in TaskRec, NEW s, s = [d \in DOMAIN t.status |-> s[d]],
           \A d \in DOMAIN t.status :
              IF d \in t.chunk THEN s[d] \in {"captured", "failed"} ELSE s[d] = t.status[d]
    PROVE  Settled(t, s)
  <1>1. PICK D : D = DOMAIN t.status
    OBVIOUS
  <1>2. D \in SUBSET Days /\ \A d \in D : t.status[d] \in Statuses
    BY <1>1, BatchType DEF TaskRec
  <1>3. \A d \in D : s[d] \in Statuses
    BY <1>1, <1>2 DEF Statuses
  <1>4. s \in [D -> Statuses] /\ DOMAIN s = D
    BY <1>1, <1>3
  <1>5. s \in Batches
    BY <1>2, <1>4 DEF Batches
  <1> QED BY <1>1, <1>4, <1>5 DEF Settled

LEMMA RecordChunkKeeps ==
    ASSUME IInv, NEW p \in Procs, RecordChunk(p)
    PROVE  IInv'
  <1>1. PICK t \in TaskRec : t = task[p]
    BY DEF IInv, TasksOK
  <1>2. t.phase = "record" /\ TaskOK(t, today) /\ TaskSound(t, raw, parquet, candles)
    BY <1>1 DEF RecordChunk, At, IInv, TasksOK
  <1>3. PICK s : s = Recorded(t)
    OBVIOUS
  <1>4. /\ \A d \in DOMAIN t.status :
              IF d \in t.chunk THEN s[d] \in {"captured", "failed"} ELSE s[d] = t.status[d]
        /\ \A d \in t.chunk : s[d] = "captured" => d \in Answered(t)
    BY <1>2, <1>3 DEF Recorded, TaskOK
  <1>5. Settled(t, s)
    <2>1. s = [d \in DOMAIN t.status |-> s[d]]
      BY <1>3 DEF Recorded
    <2> QED BY <1>4, <2>1, SettledIs
  <1>6. PICK v : v = [t EXCEPT !.phase = "next", !.status = s, !.chunk = {}, !.answer = {}]
    OBVIOUS
  <1>7. /\ v \in TaskRec /\ v.job = t.job /\ v.phase = "next" /\ v.status = s
        /\ v.todo = t.todo /\ v.chunk = {} /\ v.answer = {}
        /\ v.unwritten = t.unwritten /\ v.half = t.half /\ v.after = t.after
    BY <1>5, <1>6 DEF TaskRec, Phases, Settled
  <1>8. SetTask(p, v)
    BY <1>1, <1>3, <1>6 DEF RecordChunk
  <1>9. today' = today /\ raw' = raw /\ parquet' = parquet /\ candles' = candles
    BY DEF RecordChunk, files
  <1>10. Growing /\ Base'
    BY Standing, BaseStands DEF IInv, RecordChunk
  <1>11. ~v.half /\ v.unwritten = {}
    BY <1>2, <1>7 DEF TaskOK
  <1>12. StatusSound(s, raw, parquet, candles)
    <2>1. ASSUME NEW d \in DOMAIN s, d \in t.chunk
          PROVE  s[d] # "skipped" /\ (s[d] = "captured" => candles[d] # {})
      BY <1>2, <1>4, <1>5, <2>1 DEF TaskSound, Settled
    <2>2. ASSUME NEW d \in DOMAIN s, d \notin t.chunk
          PROVE  /\ s[d] = "skipped" => d \in raw /\ d \in parquet /\ candles[d] = Tickers
                 /\ s[d] = "captured" => candles[d] # {}
      BY <1>2, <1>5, <2>2 DEF TaskSound, StatusSound, Settled
    <2> QED BY <2>1, <2>2 DEF StatusSound
  <1>13. TaskSound(v, raw, parquet, candles)
    BY <1>7, <1>11, <1>12 DEF TaskSound
  <1>14. TaskOK(v, today)
    <2>1. \A d \in DOMAIN v.status : d < today
      BY <1>2, <1>5, <1>7 DEF TaskOK, Settled
    <2>2. \A c \in v.todo : c # {} /\ \A d \in c : d \in DOMAIN v.status /\ v.status[d] = "pending"
      <3>1. ASSUME NEW c \in t.todo, NEW d \in c
            PROVE  d \in DOMAIN s /\ s[d] = "pending"
        BY <1>2, <1>5 DEF TaskOK, Settled
      <3> QED BY <1>2, <1>7, <3>1 DEF TaskOK
    <2>3. \A d \in Pending(v.status) : \E c \in v.todo : d \in c
      <3>1. ASSUME NEW d \in DOMAIN s, s[d] = "pending"
            PROVE  \E c \in t.todo : d \in c
        <4>1. d \notin t.chunk /\ d \in DOMAIN t.status /\ t.status[d] = "pending"
          BY <1>5, <3>1 DEF Settled
        <4> QED BY <1>2, <4>1 DEF TaskOK, Pending
      <3> QED BY <1>7, <3>1 DEF Pending
    <2>4. \A b, c \in v.todo : b \cap c # {} => b = c
      BY <1>2, <1>7 DEF TaskOK
    <2> QED BY <1>7, <1>11, <2>1, <2>2, <2>3, <2>4 DEF TaskOK
  <1> QED BY <1>1, <1>7, <1>8, <1>9, <1>10, <1>13, <1>14, MovesOn DEF RecordChunk

LEMMA FailChunkKeeps ==
    ASSUME IInv, NEW p \in Procs, FailChunk(p)
    PROVE  IInv'
  <1>1. PICK t \in TaskRec : t = task[p]
    BY DEF IInv, TasksOK
  <1>2. TaskOK(t, today) /\ TaskSound(t, raw, parquet, candles)
    BY <1>1 DEF IInv, TasksOK
  <1>3. PICK s : s = [d \in DOMAIN t.status |-> IF d \in t.chunk THEN "failed" ELSE t.status[d]]
    OBVIOUS
  <1>4. \A d \in DOMAIN t.status : s[d] = IF d \in t.chunk THEN "failed" ELSE t.status[d]
    BY <1>3
  <1>5. Settled(t, s)
    <2>1. s = [d \in DOMAIN t.status |-> s[d]]
      BY <1>3
    <2> QED BY <1>4, <2>1, SettledIs
  <1>6. PICK r : r = [outcome |-> "failed", status |-> s]
    OBVIOUS
  <1>7. r \in SummaryRec /\ r.status = s /\ r.outcome = "failed"
    BY <1>5, <1>6 DEF SummaryRec, Settled
  <1>8. summary' = summary \/ summary' = [summary EXCEPT ![p] = r]
    BY <1>1, <1>3, <1>6 DEF FailChunk
  <1>9. StatusSound(s, raw, parquet, candles)
    BY <1>2, <1>4, <1>5 DEF TaskSound, StatusSound, Settled
  <1>10. SummaryOK(r, raw', parquet', candles')
    BY <1>7, <1>9 DEF SummaryOK, FailChunk, files
  <1>11. Growing /\ WholeDays' = WholeDays /\ Base'
    BY Standing, SpendKeeps DEF IInv, FailChunk
  <1>12. SummariesOK'
    BY <1>7, <1>8, <1>10, <1>11, SummariesStand, SummariesStep DEF IInv
  <1>13. TaskOK(Idle, today') /\ TaskSound(Idle, raw', parquet', candles')
    BY IdleIs, NoDaysOK
  <1>14. TasksOK' /\ task'[p] = Idle /\ \A q \in Procs : q # p => task'[q] = task[q]
    BY <1>11, <1>13, IdleIs, TasksStep DEF IInv, Base, FailChunk
  <1>15. PICK n \in Nat : n = Cardinality(WholeDays)
    BY WholeCount DEF WholeDays
  <1>16. Counted(Idle, Cardinality(WholeDays'))
    BY <1>11, <1>15, IdleIs, NothingCounted
  <1>17. CountsOK'
    BY <1>11, <1>14, <1>16, CountsStep DEF IInv, FailChunk
  <1> QED BY <1>11, <1>12, <1>14, <1>17 DEF IInv

-----------------------------------------------------------------------------
(* After the last chunk, and the next day.                                 *)

LEMMA AfterwardsIs ==
    ASSUME NEW job \in Jobs, NEW phase \in Phases, NEW m \in 0..Lookback,
           NEW t, t = [Idle EXCEPT !.job = job, !.phase = phase, !.after = m]
    PROVE  t \in TaskRec
  <1>1. PICK u \in TaskRec : u = Idle
    BY IdleIs
  <1>2. t = [u EXCEPT !.job = job, !.phase = phase, !.after = m]
    BY <1>1
  <1> QED BY <1>2 DEF TaskRec

LEMMA FinishedTask ==
    ASSUME Base, NEW t \in TaskRec, TaskOK(t, today), Counted(t, Cardinality(WholeDays)),
           NEW v, v = IF PhaseAfter(t.job) = "idle" THEN Idle
                      ELSE [Idle EXCEPT !.job = t.job, !.phase = PhaseAfter(t.job),
                                        !.after = CompletedCount]
    PROVE  v \in TaskRec /\ NoDays(v) /\ Counted(v, Cardinality(WholeDays))
  <1>1. PICK n \in Nat : n = Cardinality(WholeDays)
    BY WholeCount DEF WholeDays
  <1>2. CASE PhaseAfter(t.job) = "idle"
    BY <1>1, <1>2, IdleIs, NothingCounted
  <1>3. CASE PhaseAfter(t.job) # "idle"
    <2>1. PICK phase : phase = PhaseAfter(t.job)
      OBVIOUS
    <2>2. phase \in {"collect", "ladder"}
      BY <1>3, <2>1 DEF PhaseAfter
    <2>3. PICK m \in 0..Lookback : m = CompletedCount /\ m <= n
      BY <1>1, CompletedIs
    <2>4. v = [Idle EXCEPT !.job = t.job, !.phase = phase, !.after = m]
      BY <1>3, <2>1, <2>3
    <2>5. <<>> \in Batches /\ t.job \in Jobs
      BY Zenon DEF Batches, TaskRec
    <2>6. v \in TaskRec /\ v.job = t.job /\ v.phase = phase /\ v.after = m
      <3>1. v.job = t.job /\ v.phase = phase /\ v.after = m
        BY <2>4 DEF Idle
      <3>2. v \in TaskRec
        BY <2>2, <2>3, <2>4, <2>5, AfterwardsIs DEF Phases
      <3> QED BY <3>1, <3>2
    <2>7. NoDays(v)
      BY <2>2, <2>4, <2>6 DEF Idle, NoDays
    <2> QED BY <1>1, <2>3, <2>6, <2>7 DEF Counted
  <1> QED BY <1>2, <1>3

LEMMA FinishBatchKeeps ==
    ASSUME IInv, NEW p \in Procs, FinishBatch(p)
    PROVE  IInv'
  <1>1. PICK t \in TaskRec : t = task[p]
    BY DEF IInv, TasksOK
  <1>2. /\ t.phase = "next" /\ t.todo = {} /\ TaskOK(t, today)
        /\ TaskSound(t, raw, parquet, candles) /\ Counted(t, Cardinality(WholeDays)) /\ Base
    BY <1>1 DEF FinishBatch, At, IInv, TasksOK, CountsOK
  <1>3. PICK r : r = [outcome |-> "success", status |-> t.status]
    OBVIOUS
  <1>4. r \in SummaryRec /\ r.status = t.status /\ r.outcome = "success"
    BY <1>3 DEF SummaryRec, TaskRec
  <1>5. summary' = summary \/ summary' = [summary EXCEPT ![p] = r]
    BY <1>1, <1>3 DEF FinishBatch
  <1>6. Pending(t.status) = {}
    BY <1>2 DEF TaskOK
  <1>7. SummaryOK(r, raw', parquet', candles')
    BY <1>2, <1>4, <1>6 DEF SummaryOK, TaskSound, FinishBatch, files
  <1>8. Growing /\ WholeDays' = WholeDays /\ Base'
    BY <1>2, Standing, BaseStands DEF FinishBatch
  <1>9. SummariesOK'
    BY <1>4, <1>5, <1>7, <1>8, SummariesStand, SummariesStep DEF IInv
  <1>10. PICK v : v = IF PhaseAfter(t.job) = "idle" THEN Idle
                      ELSE [Idle EXCEPT !.job = t.job, !.phase = PhaseAfter(t.job),
                                        !.after = CompletedCount]
    OBVIOUS
  <1>11. v \in TaskRec /\ NoDays(v) /\ Counted(v, Cardinality(WholeDays))
    BY <1>2, <1>10, FinishedTask
  <1>12. SetTask(p, v)
    BY <1>1, <1>10 DEF FinishBatch
  <1>13. TaskOK(v, today') /\ TaskSound(v, raw', parquet', candles')
    BY <1>11, NoDaysOK
  <1>14. TasksOK' /\ task'[p] = v /\ \A q \in Procs : q # p => task'[q] = task[q]
    BY <1>8, <1>11, <1>12, <1>13, TasksStep DEF IInv, Base
  <1>15. CountsOK'
    BY <1>8, <1>11, <1>14, CountsStep DEF IInv, FinishBatch
  <1> QED BY <1>8, <1>9, <1>14, <1>15 DEF IInv

LEMMA MidnightKeeps ==
    ASSUME IInv, Midnight
    PROVE  IInv'
  <1>1. raw' = raw /\ parquet' = parquet /\ candles' = candles /\ receipt' = receipt
        /\ ladder' = ladder /\ task' = task /\ summary' = summary /\ today' = today + 1
    BY DEF Midnight, files
  <1>2. Base
    BY DEF IInv
  <1>3. budget' \in [{"ticks", "trouble", "cli"} -> Nat] /\ budget'["ticks"] = budget["ticks"] - 1
    BY <1>2 DEF Midnight, Spend, Base
  <1>4. budget["ticks"] \in Nat /\ FirstDay + MaxTicks \in Nat /\ FirstDay \in Nat
    BY <1>2, HistoryAssumption DEF HistoryAssumption, Base
  <1>5. today' \in Nat /\ FirstDay <= today' /\ today' + budget'["ticks"] = FirstDay + MaxTicks
    BY <1>1, <1>2, <1>3, <1>4 DEF Base
  <1>6. Base'
    BY <1>1, <1>2, <1>3, <1>5 DEF Base, CandlesAreReplayable
  <1>7. TasksOK'
    <2>1. ASSUME NEW p \in Procs PROVE TaskOK(task[p], today')
      <3>1. PICK t \in TaskRec : t = task[p] /\ TaskOK(t, today)
        BY DEF IInv, TasksOK
      <3>2. \A d \in DOMAIN t.status : d \in Nat /\ d < today
        BY <3>1, BatchType, DaysAreFinite DEF TaskOK, TaskRec
      <3>3. \A d \in DOMAIN t.status : d < today'
        BY <1>1, <1>2, <3>2 DEF Base
      <3>4. TaskOK(t, today')
        BY <3>1, <3>3 DEF TaskOK
      <3> QED BY <3>1, <3>4
    <2> QED BY <1>1, <2>1 DEF IInv, TasksOK
  <1>8. SummariesOK'
    BY <1>1 DEF IInv, SummariesOK
  <1>9. WholeDays' = WholeDays
    BY <1>1 DEF WholeDays, Whole
  <1>10. CountsOK'
    BY <1>1, <1>9 DEF IInv, CountsOK
  <1> QED BY <1>6, <1>7, <1>8, <1>10 DEF IInv

-----------------------------------------------------------------------------
(* The theorems.                                                           *)

LEMMA Initially == Init => IInv
  <1> SUFFICES ASSUME Init PROVE IInv
    OBVIOUS
  <1>1. Base
    <2>1. FirstDay \in Nat /\ MaxTicks \in Nat /\ 0 \in 0..Lookback
      BY HistoryAssumption DEF HistoryAssumption
    <2>2. budget \in [{"ticks", "trouble", "cli"} -> Nat] /\ budget["ticks"] = MaxTicks
      BY HistoryAssumption DEF HistoryAssumption, Init
    <2>3. candles \in [Days -> SUBSET Tickers] /\ CandlesAreReplayable
      BY DEF Init, CandlesAreReplayable
    <2>4. today = FirstDay /\ raw = {} /\ parquet = {} /\ receipt = 0 /\ ladder = FALSE
      BY DEF Init
    <2>5. today \in Nat /\ FirstDay <= today /\ today + budget["ticks"] = FirstDay + MaxTicks
      BY <2>1, <2>2, <2>4
    <2> QED BY <2>1, <2>2, <2>3, <2>4, <2>5 DEF Base
  <1>2. TasksOK
    <2>1. task \in [Procs -> TaskRec] /\ \A p \in Procs : task[p] = Idle
      BY IdleIs DEF Init
    <2>2. TaskOK(Idle, today) /\ TaskSound(Idle, raw, parquet, candles)
      BY IdleIs, NoDaysOK
    <2> QED BY <2>1, <2>2 DEF TasksOK
  <1>3. SummariesOK
    <2>1. <<>> \in Batches
      BY Zenon DEF Batches
    <2>2. NoSummary \in SummaryRec /\ NoSummary.status = <<>> /\ NoSummary.outcome = "none"
      BY <2>1 DEF NoSummary, SummaryRec
    <2>3. DOMAIN NoSummary.status = {}
      BY <2>2
    <2>4. SummaryOK(NoSummary, raw, parquet, candles)
      BY <2>2, <2>3 DEF SummaryOK, StatusSound
    <2> QED BY <2>2, <2>4 DEF Init, SummariesOK
  <1>4. CountsOK
    <2>1. PICK n \in Nat : n = Cardinality(WholeDays)
      BY WholeCount DEF WholeDays
    <2>2. Counted(Idle, n) /\ 0 <= n
      BY IdleIs, NothingCounted
    <2> QED BY <2>1, <2>2 DEF Init, CountsOK
  <1> QED BY <1>1, <1>2, <1>3, <1>4 DEF IInv

LEMMA Inductive == IInv /\ [Next]_vars => IInv'
  <1> SUFFICES ASSUME IInv, [Next]_vars PROVE IInv'
    OBVIOUS
  <1>1. CASE Decide
    BY <1>1, DecideKeeps
  <1>2. CASE OperatorStarts
    BY <1>2, OperatorStartsKeeps
  <1>3. ASSUME NEW p \in Procs, Work(p) PROVE IInv'
    BY <1>3, PlanKeeps, FetchKeeps, WriteFileKeeps, NormalizeRowsKeeps, RecordChunkKeeps,
       FinishBatchKeeps, WriteCollectReceiptKeeps, CompleteLadderKeeps DEF Work
  <1>4. ASSUME NEW p \in Procs, FailChunk(p) PROVE IInv'
    BY <1>4, FailChunkKeeps
  <1>5. ASSUME NEW p \in Procs, Interrupted(p) PROVE IInv'
    BY <1>5, InterruptedKeeps
  <1>6. CASE Midnight
    BY <1>6, MidnightKeeps
  <1>7. CASE UNCHANGED vars
    BY <1>7 DEF vars, files, IInv, Base, TasksOK, SummariesOK, CountsOK, WholeDays, Whole,
                CandlesAreReplayable
  <1> QED BY <1>1, <1>2, <1>3, <1>4, <1>5, <1>6, <1>7 DEF Next

LEMMA Invariant == Spec => []IInv
  BY Initially, Inductive, PTL DEF Spec

LEMMA Implied == IInv => TypeOK /\ CandlesAreReplayable /\ SummaryIsTrue /\ LadderHasHistory
  <1> SUFFICES ASSUME IInv PROVE TypeOK /\ CandlesAreReplayable /\ SummaryIsTrue /\ LadderHasHistory
    OBVIOUS
  <1>1. ASSUME NEW p \in Procs
        PROVE  /\ DOMAIN task[p].status \subseteq Days
               /\ \A d \in DOMAIN task[p].status : d < today /\ task[p].status[d] \in Statuses
               /\ \A d \in UNION task[p].todo : task[p].status[d] = "pending"
               /\ task[p].chunk \subseteq DOMAIN task[p].status
    <2>1. task[p] \in TaskRec /\ TaskOK(task[p], today)
      BY DEF IInv, TasksOK
    <2>2. task[p].status \in Batches
      BY <2>1 DEF TaskRec
    <2>3. DOMAIN task[p].status \subseteq Days /\ \A d \in DOMAIN task[p].status : task[p].status[d] \in Statuses
      BY <2>2, BatchType
    <2> QED BY <2>1, <2>3 DEF TaskOK
  <1>2. TypeOK
    BY <1>1, PastIsDays DEF IInv, Base, TypeOK
  <1>3. SummaryIsTrue
    BY DEF IInv, SummariesOK, SummaryOK, StatusSound, SummaryIsTrue, Whole
  <1>4. LadderHasHistory
    BY DEF IInv, CountsOK, Counted, Enough, LadderHasHistory, Procs
  <1> QED BY <1>2, <1>3, <1>4 DEF IInv, Base

(* The tables keep their types, and no batch asks for today or later       *)
(* (resolve_full_free_tier_window ends yesterday).                         *)
THEOREM TypeCorrect == Spec => []TypeOK
  BY Invariant, Implied, PTL

(* However the supervisor and an operator interleave, fail and die, every  *)
(* day with candles has its raw and its parquet file                       *)
(* (capture_massive_minute_aggs_range writes the files first).             *)
THEOREM CandlesReplayable == Spec => []CandlesAreReplayable
  BY Invariant, Implied, PTL

(* A batch's summary is true when it is written and stays so: skipped days *)
(* are whole, captured days have candles, a success decides every day      *)
(* (_summary_payload).                                                     *)
THEOREM SummariesAreTrue == Spec => []SummaryIsTrue
  BY Invariant, Implied, PTL

(* The bootstrap ladder runs over at least the days some profile requires, *)
(* though the receipt it is decided on may be old                          *)
(* (_training_available_history_days).                                     *)
THEOREM LadderNeverStarves == Spec => []LadderHasHistory
  BY Invariant, Implied, PTL
====
