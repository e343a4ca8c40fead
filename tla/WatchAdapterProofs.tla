---- MODULE WatchAdapterProofs ----
(***************************************************************************)
(* Theorems of WatchAdapter, for any processes, jobs, stories, cycles and  *)
(* files, and any number of writes, audits and deaths.                     *)
(***************************************************************************)
EXTENDS WatchAdapter, FiniteSetTheorems, TLAPS

Story == Stories \union {""}
Claims == [Receipts -> Story]
Signature == [story : Story, claims : Claims, hashes : [Receipts -> Nat]]
BundleRec == [story : Story, docs : Nat, promotion : Nat]
StateRec == [offset : Nat, events : Nat, bundle : BundleRec, report : Nat,
             seen : SUBSET Cycles, drift : Signature, audit : Nat]
Job == [loop : BOOLEAN, dry : BOOLEAN, audit : BOOLEAN]
Pc == {"down", "load", "story", "claims", "hashes", "audit", "drift", "promotion", "report",
       "report_body", "cycles", "review", "save", "latest"}
Process == [pc : Pc, job : Job, state : StateRec, story : Story, claims : Claims,
            signature : Signature, quiet : BOOLEAN, report : Nat, todo : SUBSET Cycles]
Kinds == {"truth_drift", "story_promotion_changed", "strategy_report_changed",
          "paper_cycle_closed", "ai_hygiene"}
PacketRec == [kind : Kinds, story : Story, claims : Claims, bundle : BundleRec, report : Nat,
              cycles : SUBSET Cycles, astray : BOOLEAN]

-----------------------------------------------------------------------------
(* The inductive invariant.                                                *)

(* Every version a writer gave and every half line is paid for by a write. *)
Paid(n, k) == IF Torn(n) THEN n < 2 * k ELSE n <= 2 * k

WorldInv ==
    /\ prd \in [active : Story, torn : BOOLEAN]
    /\ receipt \in [Receipts -> [story : Story, version : Nat]]
    /\ \A f \in Receipts : Paid(receipt[f].version, writes)
    /\ report \in Nat /\ report <= writes
    /\ opened \subseteq Cycles
    /\ mailbox \in Nat /\ Paid(mailbox, writes)
    /\ writes \in 0..MaxWrites /\ deaths \in 0..MaxDeaths

Fits(s) == s.offset <= mailbox /\ 2 * s.events <= s.offset /\ s.report <= report

PacketOK(k) ==
    /\ k.report <= report
    /\ k.kind \notin {"truth_drift", "ai_hygiene"} => ~k.astray

FilesInv ==
    /\ saved \in StateRec /\ Fits(saved) /\ Answered(saved)
    /\ latest \in [offset : Nat, events : Nat]
    /\ latest.offset <= mailbox /\ latest.events <= saved.events
    /\ archived \subseteq Files
    /\ packets \in Seq(PacketRec) /\ \A i \in DOMAIN packets : PacketOK(packets[i])

LockInv ==
    /\ holders \subseteq Watchers /\ \A p, q \in holders : p = q
    /\ watcher \in [Watchers -> Process]
    /\ \A p \in Watchers : watcher[p].pc = "down" <=> p \notin holders

(* What a pass believes of the story files while they stand still.         *)
Reads(w) ==
    w.quiet =>
      /\ w.pc \notin {"load", "story"} => StoryFilesWhole /\ w.story = prd.active
      /\ w.pc \notin {"load", "story", "claims"} =>
           \A f \in Receipts :
             w.claims[f] = IF receipt[f].story = w.story THEN "" ELSE receipt[f].story

Signs(w) ==
    w.pc \in {"audit", "drift"} => w.signature.story = w.story /\ w.signature.claims = w.claims

Routes(w) ==
    w.pc \in {"promotion", "report", "report_body", "cycles", "review"} => w.claims = NoClaims

(* Between the hash of the report and its review no packet shows a later   *)
(* version.                                                                *)
Hashes(w) ==
    /\ w.report <= report
    /\ w.pc = "report_body" =>
         /\ w.state.report < w.report
         /\ \A i \in Written("strategy_report_changed") : packets[i].report <= w.report

Lists(w) == w.pc = "review" => w.todo \intersect w.state.seen = {}

Extends(s, t) ==
    /\ s.offset <= t.offset /\ s.events <= t.events /\ s.report <= t.report
    /\ s.seen \subseteq t.seen /\ s.audit <= t.audit

(* The state of a pass that writes is ahead of the saved one, and so are   *)
(* its packets.                                                            *)
Writes(w) == ~w.job.dry /\ w.pc # "load"
Carries(w) ==
    Writes(w) => /\ Answered(w.state) /\ Extends(saved, w.state)
                 /\ w.pc = "latest" => saved = w.state

Holds(w) == Reads(w) /\ Signs(w) /\ Routes(w) /\ Hashes(w) /\ Lists(w) /\ Carries(w)

PassInv ==
    \A p \in Watchers : Fits(watcher[p].state) /\ (p \in holders => Holds(watcher[p]))

(* A review beyond the first is paid for by a death; one of the report is  *)
(* free while its hash is not kept.                                        *)
Settled(c) ==
    \/ c \in saved.seen
    \/ \E p \in holders : Writes(watcher[p]) /\ c \in watcher[p].state.seen
Kept(v) ==
    \/ v <= saved.report
    \/ \E p \in holders : Writes(watcher[p]) /\ v <= watcher[p].state.report

CountInv ==
    /\ \A c \in Cycles : Cardinality(CycleReviews(c)) <= deaths + (IF Settled(c) THEN 1 ELSE 0)
    /\ \A v \in Nat : Cardinality(ReportReviews(v)) <= deaths + (IF Kept(v) THEN 2 ELSE 1)

IInv == WorldInv /\ FilesInv /\ LockInv /\ PassInv /\ CountInv

-----------------------------------------------------------------------------
(* Arithmetic.                                                             *)

LEMMA Parity ==
  /\ ~Torn(0)
  /\ \A n \in Nat : Torn(n + 1) <=> ~Torn(n)
  BY DEF Torn

LEMMA Bounds ==
  /\ Stories # {} /\ KeptStories \subseteq Stories /\ Touched \subseteq Receipts
  /\ MaxWrites \in Nat /\ MaxAudits \in Nat /\ MaxDeaths \in Nat
  BY WatchAssumption

(* A write pays for what it starts, and nothing is owed less for it.       *)
LEMMA PaidMore ==
  ASSUME NEW n \in Nat, NEW k \in Nat, Paid(n, k)
  PROVE  /\ \A m \in Nat : k <= m => Paid(n, m)
         /\ Torn(n) => Paid(n + 1, k)
         /\ Paid(n + 1, k + 1)
  BY Parity DEF Paid

(* The lines from an offset on are no more than half of what is there.     *)
LEMMA LinesBound ==
  ASSUME mailbox \in Nat, NEW o \in Nat, o <= mailbox
  PROVE  LinesFrom(o) \in Nat /\ 2 * LinesFrom(o) <= mailbox - o
  <1> DEFINE lines == {line \in 0..mailbox : o <= 2 * line /\ 2 * line + 2 <= mailbox}
  <1>1. PICK a \in Nat : 2 * a = o \/ 2 * a = o + 1
    <2>1. (o + 1) \div 2 \in Nat
      OBVIOUS
    <2>2. 2 * ((o + 1) \div 2) = o \/ 2 * ((o + 1) \div 2) = o + 1
      OBVIOUS
    <2> QED BY <2>1, <2>2
  <1>2. PICK b \in Int : 2 * b + 2 = mailbox \/ 2 * b + 3 = mailbox
    <2>1. (mailbox \div 2) - 1 \in Int
      OBVIOUS
    <2>2. \/ 2 * ((mailbox \div 2) - 1) + 2 = mailbox
          \/ 2 * ((mailbox \div 2) - 1) + 3 = mailbox
      OBVIOUS
    <2> QED BY <2>1, <2>2
  <1>3. lines = a..b
    BY <1>1, <1>2
  <1>4. Cardinality(a..b) = IF a > b THEN 0 ELSE b - a + 1
    BY <1>1, <1>2, FS_Interval
  <1>5. LinesFrom(o) = Cardinality(a..b)
    BY <1>3 DEF LinesFrom
  <1> QED BY <1>1, <1>2, <1>4, <1>5

-----------------------------------------------------------------------------
(* Packets.                                                                *)

MorePackets ==
    /\ DOMAIN packets \subseteq DOMAIN packets'
    /\ \A i \in DOMAIN packets : packets'[i] = packets[i]

LEMMA AnsweredStays ==
  ASSUME MorePackets, NEW s, Answered(s)
  PROVE  Answered(s)'
  <1>1. ASSUME NEW kind, NEW i \in Written(kind)
        PROVE  i \in Written(kind)' /\ packets'[i] = packets[i]
    BY DEF Written, MorePackets
  <1>2. s.drift # NoSignature => \E i \in Written("truth_drift")' :
           packets'[i].story = s.drift.story /\ packets'[i].claims = s.drift.claims
    BY <1>1 DEF Answered
  <1>3. s.bundle # NoBundle =>
           \E i \in Written("story_promotion_changed")' : packets'[i].bundle = s.bundle
    BY <1>1 DEF Answered
  <1>4. s.report > 0 =>
           \E i \in Written("strategy_report_changed")' : packets'[i].report >= s.report
    BY <1>1 DEF Answered
  <1>5. \A c \in s.seen : \E i \in Written("paper_cycle_closed")' : c \in packets'[i].cycles
    BY <1>1 DEF Answered
  <1>6. s.audit > 0 => s.audit \in Written("ai_hygiene")'
    BY <1>1 DEF Answered
  <1> QED BY <1>2, <1>3, <1>4, <1>5, <1>6 DEF Answered

(* The packet of a pass: none of a dry run.                                *)
Adds(w, k, n) ==
    /\ packets' \in Seq(PacketRec) /\ MorePackets /\ n = Len(packets) + 1
    /\ Len(packets) \in Nat /\ DOMAIN packets = 1..Len(packets)
    /\ w.job.dry => packets' = packets
    /\ ~w.job.dry => DOMAIN packets' = DOMAIN packets \union {n} /\ packets'[n] = k

LEMMA PacketAdded ==
  ASSUME packets \in Seq(PacketRec), NEW k \in PacketRec, NEW w, NEW p, w = watcher[p],
         WritePacket(p, k), NEW n, n = Len(packets) + 1
  PROVE  Adds(w, k, n)
  <1>1. Len(packets) \in Nat /\ DOMAIN packets = 1..Len(packets)
    OBVIOUS
  <1>2. CASE w.job.dry
    BY <1>1, <1>2 DEF WritePacket, Adds, MorePackets
  <1>3. CASE ~w.job.dry
    <2>1. packets' = Append(packets, k)
      BY <1>3 DEF WritePacket
    <2>2. /\ packets' \in Seq(PacketRec) /\ DOMAIN packets' = DOMAIN packets \union {n}
          /\ \A i \in DOMAIN packets : packets'[i] = packets[i]
          /\ packets'[n] = k
      BY <1>1, <2>1
    <2> QED BY <1>1, <1>3, <2>2 DEF Adds, MorePackets
  <1> QED BY <1>2, <1>3

LEMMA WrittenFinite ==
  ASSUME packets \in Seq(PacketRec), NEW S, S \subseteq DOMAIN packets
  PROVE  IsFiniteSet(S)
  <1>1. DOMAIN packets = 1..Len(packets) /\ Len(packets) \in Nat
    OBVIOUS
  <1>2. IsFiniteSet(1..Len(packets))
    BY <1>1, FS_Interval
  <1> QED BY <1>1, <1>2, FS_Subset

LEMMA OneMore ==
  ASSUME NEW S, NEW T, NEW n, IsFiniteSet(S), T \subseteq S \union {n}
  PROVE  Cardinality(T) <= Cardinality(S) + 1 /\ Cardinality(S) \in Nat /\ Cardinality(T) \in Nat
  <1>1. IsFiniteSet(S \union {n}) /\ Cardinality(S) \in Nat
    BY FS_AddElement, FS_CardinalityType
  <1>2. Cardinality(S \union {n}) = IF n \in S THEN Cardinality(S) ELSE Cardinality(S) + 1
    BY FS_AddElement
  <1>3. Cardinality(T) <= Cardinality(S \union {n}) /\ IsFiniteSet(T)
    BY <1>1, FS_Subset
  <1>4. Cardinality(T) \in Nat
    BY <1>3, FS_CardinalityType
  <1> QED BY <1>1, <1>2, <1>3, <1>4

-----------------------------------------------------------------------------
(* The initial state.                                                      *)

LEMMA EmptyTypes ==
  /\ NoClaims \in Claims /\ NoSignature \in Signature /\ NoBundle \in BundleRec
  /\ EmptyState \in StateRec /\ Down \in Process
  /\ Down.pc = "down" /\ Down.state = EmptyState /\ Down.quiet = FALSE /\ Down.report = 0
  /\ EmptyState.offset = 0 /\ EmptyState.events = 0 /\ EmptyState.report = 0
  /\ EmptyState.seen = {} /\ EmptyState.audit = 0
  /\ EmptyState.drift = NoSignature /\ EmptyState.bundle = NoBundle
  <1>1. NoClaims \in Claims
    BY DEF NoClaims, Claims, Story
  <1>2. NoSignature \in Signature
    BY <1>1 DEF NoSignature, Signature, Story
  <1>3. NoBundle \in BundleRec
    BY DEF NoBundle, BundleRec, Story
  <1>4. EmptyState \in StateRec
    BY <1>2, <1>3 DEF EmptyState, StateRec
  <1>5. NoJob \in Job
    BY DEF NoJob, Job
  <1>6. Down \in Process
    BY <1>1, <1>2, <1>4, <1>5 DEF Down, Process, Pc, Story
  <1> QED BY <1>1, <1>2, <1>3, <1>4, <1>6 DEF EmptyState, Down

LEMMA EmptyFits ==
  ASSUME mailbox \in Nat, report \in Nat
  PROVE  Fits(EmptyState)
  BY EmptyTypes DEF Fits

LEMMA EmptyAnswered == Answered(EmptyState)
  BY EmptyTypes DEF Answered

LEMMA InitInv == Init => IInv
  <1> SUFFICES ASSUME Init PROVE IInv
    OBVIOUS
  <1> USE Bounds
  <1>1. WorldInv
    <2>1. (CHOOSE s \in Stories : TRUE) \in Stories
      OBVIOUS
    <2>2. prd \in [active : Story, torn : BOOLEAN]
      BY <2>1 DEF Init, Story
    <2>3. /\ receipt \in [Receipts -> [story : Story, version : Nat]]
          /\ \A f \in Receipts : receipt[f].version = 0
      BY DEF Init, Story
    <2>4. Paid(0, 0)
      BY Parity DEF Paid
    <2>5. /\ report = 0 /\ opened = {} /\ mailbox = 0 /\ writes = 0 /\ deaths = 0
      BY DEF Init
    <2> QED BY <2>2, <2>3, <2>4, <2>5 DEF WorldInv
  <1>2. FilesInv
    <2>1. saved = EmptyState /\ latest = [offset |-> 0, events |-> 0] /\ packets = <<>>
          /\ archived = {}
      BY DEF Init
    <2>2. Fits(saved) /\ Answered(saved) /\ saved \in StateRec /\ saved.events = 0
      BY <1>1, <2>1, EmptyTypes, EmptyFits, EmptyAnswered DEF WorldInv
    <2>3. packets \in Seq(PacketRec)
      BY <2>1
    <2>4. DOMAIN packets = {}
      BY <2>1
    <2> QED BY <1>1, <2>1, <2>2, <2>3, <2>4 DEF FilesInv, WorldInv
  <1>3. LockInv
    BY EmptyTypes DEF Init, LockInv
  <1>4. PassInv
    BY <1>1, EmptyTypes, EmptyFits DEF Init, PassInv, WorldInv
  <1>5. CountInv
    <2>1. DOMAIN packets = {}
      <3>1. packets = <<>>
        BY DEF Init
      <3> QED BY <3>1
    <2>2. (\A c : CycleReviews(c) = {}) /\ (\A v : ReportReviews(v) = {})
      BY <2>1 DEF CycleReviews, ReportReviews, Written
    <2>3. deaths = 0
      BY DEF Init
    <2>4. Cardinality({}) = 0
      BY FS_EmptySet
    <2> QED BY <2>2, <2>3, <2>4 DEF CountInv
  <1> QED BY <1>1, <1>2, <1>3, <1>4, <1>5 DEF IInv

-----------------------------------------------------------------------------
(* The writers.                                                            *)

(* What a writer leaves of what the watchers rely on.                      *)
Grows ==
    /\ report \in Nat /\ report' \in Nat /\ report <= report'
    /\ mailbox \in Nat /\ mailbox' \in Nat /\ mailbox <= mailbox'

StoryStays == watcher' = watcher /\ prd' = prd /\ receipt' = receipt

LEMMA WriteWorld ==
  ASSUME WorldInv, Write
  PROVE  /\ WorldInv' /\ Grows
         /\ UNCHANGED <<files, holders, deaths>>
         /\ StoryStays \/ watcher' = Disturbed
  <1> PICK k : k = writes
    OBVIOUS
  <1> PICK m : m = writes'
    OBVIOUS
  <1>1. /\ k \in Nat /\ k <= MaxWrites /\ MaxWrites \in Nat /\ report \in Nat /\ report <= k
        /\ mailbox \in Nat /\ Paid(mailbox, k) /\ opened \subseteq Cycles
        /\ \A f \in Receipts : receipt[f].version \in Nat /\ Paid(receipt[f].version, k)
    BY Bounds DEF WorldInv
  <1>2. ASSUME m \in Nat, k <= m, m <= MaxWrites,
               report' \in Nat, report <= report', report' <= m, opened' \subseteq Cycles,
               mailbox' \in Nat, mailbox <= mailbox', Paid(mailbox', m),
               prd' \in [active : Story, torn : BOOLEAN],
               receipt' \in [Receipts -> [story : Story, version : Nat]],
               \A f \in Receipts : receipt'[f] # receipt[f] => Paid(receipt'[f].version, m),
               deaths' = deaths
        PROVE  WorldInv' /\ Grows
    <2>1. \A f \in Receipts : Paid(receipt'[f].version, m)
      BY <1>1, <1>2, PaidMore
    <2>2. m \in 0..MaxWrites
      BY <1>1, <1>2
    <2> QED BY <1>1, <1>2, <2>1, <2>2 DEF WorldInv, Grows
  <1>3. CASE UpdateStory \/ StoryWritten
    <2>1. /\ UNCHANGED <<receipt, report, opened, mailbox, files, holders, deaths>>
          /\ watcher' = Disturbed
      BY <1>3 DEF UpdateStory, StoryWritten
    <2>4. m = k \/ (k < MaxWrites /\ m = k + 1)
      BY <1>3 DEF UpdateStory, StoryWritten, MayWrite, Wrote
    <2>5. prd' \in [active : Story, torn : BOOLEAN]
      <3>1. CASE UpdateStory
        <4>1. PICK story \in Stories \union {""} : prd' = [active |-> story, torn |-> TRUE]
          BY <3>1 DEF UpdateStory
        <4>2. story \in Story
          BY DEF Story
        <4> QED BY <4>1, <4>2
      <3>2. CASE StoryWritten
        <4> PICK d \in [active : Story, torn : BOOLEAN] : d = prd
          BY DEF WorldInv
        <4>1. [d EXCEPT !.torn = FALSE] \in [active : Story, torn : BOOLEAN]
          OBVIOUS
        <4>2. prd' = [d EXCEPT !.torn = FALSE]
          BY <3>2 DEF StoryWritten
        <4> QED BY <4>1, <4>2
      <3> QED BY <1>3, <3>1, <3>2
    <2>2. m \in Nat /\ k <= m /\ m <= MaxWrites /\ Paid(mailbox, m)
      BY <1>1, <2>4, PaidMore
    <2>3. report' <= m /\ receipt' \in [Receipts -> [story : Story, version : Nat]]
      BY <1>1, <2>1, <2>2 DEF WorldInv
    <2> QED BY <1>1, <1>2, <2>1, <2>2, <2>3, <2>5
  <1>4. CASE UpdateReceipt \/ ReceiptWritten
    <2>1. /\ UNCHANGED <<prd, report, opened, mailbox, files, holders, deaths>>
          /\ watcher' = Disturbed
      BY <1>4 DEF UpdateReceipt, ReceiptWritten
    <2>2. PICK f \in Receipts, s \in Story :
            /\ receipt' = [receipt EXCEPT ![f] = [story |-> s, version |-> receipt[f].version + 1]]
            /\ \/ ~Torn(receipt[f].version) /\ m = k + 1 /\ k < MaxWrites
               \/ Torn(receipt[f].version) /\ m = k
      <3>1. CASE UpdateReceipt
        <4>1. PICK f \in Touched, s \in Stories :
                /\ ~Torn(receipt[f].version)
                /\ receipt' = [receipt EXCEPT ![f] = [story |-> s, version |-> @.version + 1]]
          BY <3>1 DEF UpdateReceipt
        <4> QED BY <3>1, <4>1, Bounds DEF UpdateReceipt, MayWrite, Wrote, Story
      <3>2. CASE ReceiptWritten
        <4>1. PICK f \in Receipts :
                /\ Torn(receipt[f].version)
                /\ receipt' = [receipt EXCEPT ![f].version = @ + 1]
          BY <3>2 DEF ReceiptWritten
        <4>2. PICK r \in [story : Story, version : Nat] : r = receipt[f]
          BY DEF WorldInv
        <4>3. [r EXCEPT !.version = @ + 1] = [story |-> r.story, version |-> r.version + 1]
          OBVIOUS
        <4>4. r.story \in Story
          OBVIOUS
        <4> QED BY <3>2, <4>1, <4>2, <4>3, <4>4 DEF ReceiptWritten
      <3> QED BY <1>4, <3>1, <3>2
    <2> PICK n \in Nat : n = receipt[f].version
      BY <1>1
    <2>3. m \in Nat /\ k <= m /\ m <= MaxWrites /\ Paid(mailbox, m)
      BY <1>1, <2>2, PaidMore
    <2>4. Paid(n + 1, m)
      BY <1>1, <2>2, PaidMore
    <2>5. /\ receipt' \in [Receipts -> [story : Story, version : Nat]]
          /\ receipt'[f].version = n + 1
          /\ \A g \in Receipts \ {f} : receipt'[g] = receipt[g]
      BY <2>2 DEF WorldInv
    <2>6. \A g \in Receipts : receipt'[g] # receipt[g] => Paid(receipt'[g].version, m)
      BY <2>4, <2>5
    <2>7. report' <= m /\ prd' \in [active : Story, torn : BOOLEAN]
      BY <1>1, <2>1, <2>3 DEF WorldInv
    <2> QED BY <1>1, <1>2, <2>1, <2>3, <2>5, <2>6, <2>7
  <1>5. CASE UpdateReport \/ OpenCycle \/ AppendMail
    <2>1. /\ UNCHANGED <<prd, receipt, files, holders, watcher, deaths>>
      BY <1>5 DEF UpdateReport, OpenCycle, AppendMail
    <2>7. opened' \subseteq Cycles
      BY <1>1, <1>5 DEF UpdateReport, OpenCycle, AppendMail
    <2>2. /\ m = k \/ (k < MaxWrites /\ m = k + 1)
          /\ report' = report \/ (report' = report + 1 /\ m = k + 1)
      BY <1>1, <1>5 DEF UpdateReport, OpenCycle, AppendMail, MayWrite, Wrote
    <2>3. m \in Nat /\ k <= m /\ m <= MaxWrites
      BY <1>1, <2>2
    <2>4. report' \in Nat /\ report <= report' /\ report' <= m
      BY <1>1, <2>2, <2>3
    <2>5. mailbox' \in Nat /\ mailbox <= mailbox' /\ Paid(mailbox', m)
      <3>1. CASE UpdateReport \/ OpenCycle
        <4>1. mailbox' = mailbox
          BY <3>1 DEF UpdateReport, OpenCycle
        <4> QED BY <1>1, <2>3, <4>1, PaidMore
      <3>2. CASE AppendMail
        <4>1. mailbox' = mailbox + 1 /\ m = (IF Torn(mailbox) THEN k ELSE k + 1)
          BY <3>2 DEF AppendMail
        <4>2. Paid(mailbox + 1, m)
          BY <1>1, <4>1, PaidMore
        <4> QED BY <1>1, <4>1, <4>2
      <3> QED BY <1>5, <3>1, <3>2
    <2>6. /\ prd' \in [active : Story, torn : BOOLEAN]
          /\ receipt' \in [Receipts -> [story : Story, version : Nat]]
      BY <2>1 DEF WorldInv
    <2> QED BY <1>2, <2>1, <2>3, <2>4, <2>5, <2>6, <2>7 DEF StoryStays
  <1> QED BY <1>3, <1>4, <1>5 DEF Write

(* A writer of the story files only makes the passes give up on them.      *)
LEMMA DisturbedFields ==
  ASSUME watcher \in [Watchers -> Process], watcher' = Disturbed
  PROVE  /\ watcher' \in [Watchers -> Process]
         /\ \A p \in Watchers : LET w == watcher[p]  v == watcher'[p] IN
              /\ v.pc = w.pc /\ v.job = w.job /\ v.state = w.state /\ v.story = w.story
              /\ v.claims = w.claims /\ v.signature = w.signature /\ v.quiet = FALSE
              /\ v.report = w.report /\ v.todo = w.todo
  <1>1. ASSUME NEW p \in Watchers
        PROVE  LET w == watcher[p]  v == watcher'[p] IN
               /\ v \in Process
               /\ v.pc = w.pc /\ v.job = w.job /\ v.state = w.state /\ v.story = w.story
               /\ v.claims = w.claims /\ v.signature = w.signature /\ v.quiet = FALSE
               /\ v.report = w.report /\ v.todo = w.todo
    <2> PICK w \in Process : w = watcher[p]
      OBVIOUS
    <2> PICK v : v = [w EXCEPT !.quiet = FALSE]
      OBVIOUS
    <2>1. watcher'[p] = v
      BY DEF Disturbed
    <2>2. v \in Process
      BY DEF Process
    <2>3. /\ v.pc = w.pc /\ v.job = w.job /\ v.state = w.state /\ v.story = w.story
          /\ v.claims = w.claims /\ v.signature = w.signature /\ v.quiet = FALSE
          /\ v.report = w.report /\ v.todo = w.todo
      BY DEF Process
    <2> QED BY <2>1, <2>2, <2>3
  <1>2. watcher' = [p \in Watchers |-> watcher'[p]]
    BY DEF Disturbed
  <1> QED BY <1>1, <1>2

LEMMA ReviewsType ==
  ASSUME packets \in Seq(PacketRec)
  PROVE  /\ \A c : Cardinality(CycleReviews(c)) \in Nat /\ IsFiniteSet(CycleReviews(c))
         /\ \A v : Cardinality(ReportReviews(v)) \in Nat /\ IsFiniteSet(ReportReviews(v))
  <1>1. ASSUME NEW c PROVE IsFiniteSet(CycleReviews(c))
    BY WrittenFinite DEF CycleReviews, Written
  <1>2. ASSUME NEW v PROVE IsFiniteSet(ReportReviews(v))
    BY WrittenFinite DEF ReportReviews, Written
  <1> QED BY <1>1, <1>2, FS_CardinalityType

(* The reviews that were made, however many more a step may allow.         *)
SameReviews ==
    /\ \A c \in Cycles : CycleReviews(c)' = CycleReviews(c)
    /\ \A v \in Nat : ReportReviews(v)' = ReportReviews(v)

LEMMA CountStays ==
  ASSUME CountInv, packets \in Seq(PacketRec), deaths \in Nat, deaths' \in Nat, SameReviews,
         \/ deaths' = deaths /\ (\A c \in Cycles : Settled(c) => Settled(c)')
                             /\ (\A v \in Nat : Kept(v) => Kept(v)')
         \/ deaths' = deaths + 1
  PROVE  CountInv'
  <1> PICK d \in Nat : d = deaths
    OBVIOUS
  <1> PICK e \in Nat : e = deaths'
    OBVIOUS
  <1>1. ASSUME NEW c \in Cycles
        PROVE  Cardinality(CycleReviews(c))' <= e + (IF Settled(c)' THEN 1 ELSE 0)
    <2> PICK n \in Nat : n = Cardinality(CycleReviews(c))
      BY ReviewsType
    <2>1. n <= d + (IF Settled(c) THEN 1 ELSE 0)
      BY DEF CountInv
    <2>2. n <= e + (IF Settled(c)' THEN 1 ELSE 0)
      BY <2>1
    <2> QED BY <2>2 DEF SameReviews
  <1>2. ASSUME NEW v \in Nat
        PROVE  Cardinality(ReportReviews(v))' <= e + (IF Kept(v)' THEN 2 ELSE 1)
    <2> PICK n \in Nat : n = Cardinality(ReportReviews(v))
      BY ReviewsType
    <2>1. n <= d + (IF Kept(v) THEN 2 ELSE 1)
      BY DEF CountInv
    <2>2. n <= e + (IF Kept(v)' THEN 2 ELSE 1)
      BY <2>1
    <2> QED BY <2>2 DEF SameReviews
  <1> QED BY <1>1, <1>2 DEF CountInv

LEMMA SilentCount ==
  ASSUME WorldInv, FilesInv, CountInv, packets' = packets, deaths' = deaths,
         \A c \in Cycles : Settled(c) => Settled(c)',
         \A v \in Nat : Kept(v) => Kept(v)'
  PROVE  CountInv'
  <1>1. SameReviews
    BY DEF SameReviews, CycleReviews, ReportReviews, Written
  <1>2. deaths \in Nat /\ packets \in Seq(PacketRec)
    BY Bounds DEF WorldInv, FilesInv
  <1> QED BY <1>1, <1>2, CountStays

LEMMA FilesStay ==
  ASSUME FilesInv, Grows, UNCHANGED files
  PROVE  FilesInv'
  <1>1. /\ saved' = saved /\ latest' = latest /\ packets' = packets /\ archived' = archived
    BY DEF files
  <1>2. Answered(saved)'
    BY <1>1 DEF FilesInv, Answered, Written
  <1>3. Fits(saved)' /\ latest'.offset <= mailbox'
    BY <1>1 DEF FilesInv, Fits, Grows, StateRec
  <1>4. ASSUME NEW i \in DOMAIN packets PROVE PacketOK(packets[i])'
    <2>1. packets[i] \in PacketRec /\ PacketOK(packets[i])
      BY DEF FilesInv
    <2> QED BY <1>1, <2>1 DEF PacketOK, PacketRec, Grows
  <1> QED BY <1>1, <1>2, <1>3, <1>4 DEF FilesInv

LEMMA WriteHolds ==
  ASSUME IInv, Write, NEW p \in holders, NEW w \in Process, w = watcher[p],
         NEW v, v = watcher'[p]
  PROVE  Holds(v)'
  <1>1. /\ Grows /\ UNCHANGED <<files, holders, deaths>>
        /\ StoryStays \/ watcher' = Disturbed
        /\ Holds(w) /\ p \in Watchers
    BY WriteWorld DEF IInv, PassInv, LockInv
  <1>2. /\ v.pc = w.pc /\ v.job = w.job /\ v.state = w.state /\ v.story = w.story
        /\ v.claims = w.claims /\ v.signature = w.signature
        /\ v.report = w.report /\ v.todo = w.todo
        /\ (StoryStays /\ v = w) \/ v.quiet = FALSE
    BY <1>1, DisturbedFields DEF StoryStays, IInv, LockInv
  <1>3. saved' = saved /\ packets' = packets
    <2>1. files' = files
      BY <1>1
    <2> QED BY <2>1 DEF files
  <1>4. Reads(v)'
    <2>1. CASE v.quiet = FALSE
      BY <2>1 DEF Reads
    <2>2. CASE StoryStays /\ v = w
      <3>1. Reads(v)
        BY <1>1, <2>2 DEF Holds
      <3>2. prd' = prd /\ receipt' = receipt
        BY <2>2 DEF StoryStays
      <3> QED BY <3>1, <3>2 DEF Reads, StoryFilesWhole
    <2> QED BY <1>2, <2>1, <2>2
  <1>5. Signs(v)' /\ Routes(v)' /\ Lists(v)'
    BY <1>1, <1>2 DEF Holds, Signs, Routes, Lists
  <1>6. Hashes(v)'
    <2>1. v.report <= report'
      BY <1>1, <1>2 DEF Holds, Hashes, Grows, Process
    <2>2. Written("strategy_report_changed")' = Written("strategy_report_changed")
      BY <1>3 DEF Written
    <2> QED BY <1>1, <1>2, <1>3, <2>1, <2>2 DEF Holds, Hashes
  <1>7. Carries(v)'
    BY <1>1, <1>2, <1>3 DEF Holds, Carries, Writes, Answered, Written
  <1> QED BY <1>4, <1>5, <1>6, <1>7 DEF Holds

LEMMA WriteInv ==
  ASSUME IInv, Write
  PROVE  IInv'
  <1>1. /\ WorldInv' /\ Grows /\ UNCHANGED <<files, holders, deaths>>
        /\ StoryStays \/ watcher' = Disturbed
    BY WriteWorld DEF IInv
  <1>2. FilesInv'
    BY <1>1, FilesStay DEF IInv
  <1>3. /\ watcher' \in [Watchers -> Process]
        /\ \A p \in Watchers : /\ watcher'[p].pc = watcher[p].pc
                               /\ watcher'[p].state = watcher[p].state
                               /\ watcher'[p].job = watcher[p].job
    BY <1>1, DisturbedFields DEF IInv, LockInv, StoryStays
  <1>4. LockInv'
    BY <1>1, <1>3 DEF IInv, LockInv
  <1>5. ASSUME NEW p \in Watchers
        PROVE  Fits(watcher[p].state)' /\ (p \in holders' => Holds(watcher[p])')
    <2>1. watcher[p] \in Process /\ Fits(watcher[p].state)
      BY DEF IInv, LockInv, PassInv
    <2>2. Fits(watcher[p].state)'
      BY <1>1, <1>3, <2>1 DEF Fits, Grows, Process, StateRec
    <2>3. ASSUME p \in holders PROVE Holds(watcher[p])'
      <3> PICK w \in Process : w = watcher[p]
        BY <2>1
      <3> PICK v : v = watcher'[p]
        OBVIOUS
      <3>1. Holds(v)'
        BY <2>3, WriteHolds
      <3> QED BY <3>1 DEF Holds, Reads, Signs, Routes, Hashes, Lists, Carries, Writes
    <2> QED BY <1>1, <2>2, <2>3
  <1>6. CountInv'
    <2>1. files' = files /\ holders' = holders /\ deaths' = deaths /\ holders \subseteq Watchers
      BY <1>1 DEF IInv, LockInv
    <2>2. saved' = saved /\ packets' = packets
      BY <2>1 DEF files
    <2>3. ASSUME NEW c, Settled(c) PROVE Settled(c)'
      BY <1>3, <2>1, <2>2, <2>3 DEF Settled, Writes
    <2>4. ASSUME NEW v, Kept(v) PROVE Kept(v)'
      BY <1>3, <2>1, <2>2, <2>4 DEF Kept, Writes
    <2> QED BY <2>1, <2>2, <2>3, <2>4, SilentCount DEF IInv
  <1> QED BY <1>1, <1>2, <1>4, <1>5, <1>6 DEF IInv, PassInv

-----------------------------------------------------------------------------
(* Steps of a pass.                                                        *)

WorldSame ==
    /\ prd' = prd /\ receipt' = receipt /\ report' = report /\ opened' = opened
    /\ mailbox' = mailbox /\ writes' = writes

LEMMA WorldIsSame ==
  ASSUME world' = world
  PROVE  WorldSame
  BY DEF world, WorldSame

(* Process p goes from w to v, with the lock, and saves nothing.           *)
Passes(p, w, v) ==
    /\ p \in holders /\ p \in Watchers /\ w \in Process /\ w = watcher[p]
    /\ v \in Process /\ v.pc # "down" /\ v.job = w.job
    /\ watcher' = [watcher EXCEPT ![p] = v]
    /\ WorldSame /\ holders' = holders /\ deaths' = deaths
    /\ saved' = saved /\ latest' = latest /\ archived' \subseteq Files

(* What the invariant says of a process in its pass.                       *)
LEMMA InPass ==
  ASSUME IInv, NEW p \in Watchers, p \in holders, NEW w, w = watcher[p]
  PROVE  /\ w \in Process /\ Fits(w.state) /\ Holds(w) /\ w.state \in StateRec
         /\ saved \in StateRec /\ Fits(saved) /\ Answered(saved)
         /\ packets \in Seq(PacketRec) /\ archived \subseteq Files
         /\ report \in Nat /\ mailbox \in Nat
         /\ \A q \in holders : q = p
  BY DEF IInv, WorldInv, FilesInv, LockInv, PassInv, Process

LEMMA PassStep ==
  ASSUME IInv, NEW p, NEW w, NEW v, Passes(p, w, v),
         packets' \in Seq(PacketRec), MorePackets,
         \A i \in DOMAIN packets' \ DOMAIN packets : PacketOK(packets'[i]),
         Fits(v.state), Holds(v)', CountInv'
  PROVE  IInv'
  <1> USE DEF Passes
  <1>1. WorldInv'
    BY DEF IInv, WorldInv, WorldSame
  <1>2. FilesInv'
    <2>1. Answered(saved)'
      <3> PICK s : s = saved
        OBVIOUS
      <3>1. Answered(s)'
        BY AnsweredStays DEF IInv, FilesInv
      <3> QED BY <3>1 DEF Answered
    <2>2. Fits(saved)' /\ latest'.offset <= mailbox' /\ latest'.events <= saved'.events
      BY DEF IInv, FilesInv, Fits, WorldSame
    <2>3. ASSUME NEW i \in DOMAIN packets' PROVE PacketOK(packets[i])'
      <3>1. PacketOK(packets'[i])
        BY DEF IInv, FilesInv, MorePackets
      <3> QED BY <3>1 DEF PacketOK, WorldSame
    <2> QED BY <2>1, <2>2, <2>3 DEF IInv, FilesInv
  <1>3. /\ watcher' \in [Watchers -> Process] /\ watcher'[p] = v
        /\ \A q \in Watchers \ {p} : watcher'[q] = watcher[q]
    BY DEF IInv, LockInv
  <1>4. LockInv'
    BY <1>3 DEF IInv, LockInv
  <1>5. ASSUME NEW q \in Watchers
        PROVE  Fits(watcher[q].state)' /\ (q \in holders' => Holds(watcher[q])')
    <2>1. CASE q = p
      <3>1. Fits(v.state)'
        BY DEF Fits, WorldSame
      <3>2. Fits(watcher[q].state)'
        BY <1>3, <2>1, <3>1 DEF Fits
      <3>3. Holds(watcher[q])'
        BY <1>3, <2>1
        DEF Holds, Reads, Signs, Routes, Hashes, Lists, Carries, Writes
      <3> QED BY <3>2, <3>3
    <2>2. CASE q # p
      <3>1. q \notin holders
        BY <2>2 DEF IInv, LockInv
      <3> QED BY <1>3, <2>2, <3>1 DEF IInv, PassInv, Fits, WorldSame
    <2> QED BY <2>1, <2>2
  <1> QED BY <1>1, <1>2, <1>4, <1>5 DEF IInv, PassInv

(* What it takes for a process to hold on after a step.                    *)
LEMMA StillHolds ==
  ASSUME NEW p, NEW w, NEW v, Passes(p, w, v), MorePackets,
         Reads(v), Signs(v), Routes(v), Lists(v), v.report <= report, v.pc # "latest",
         v.pc = "report_body" => packets' = packets /\ Hashes(v),
         Writes(v) => Answered(v.state)' /\ Extends(saved, v.state)
  PROVE  Holds(v)'
  <1> USE DEF Passes
  <1>1. Reads(v)'
    BY DEF Reads, WorldSame, StoryFilesWhole
  <1>2. Signs(v)' /\ Routes(v)' /\ Lists(v)'
    BY DEF Signs, Routes, Lists
  <1>3. Hashes(v)'
    BY DEF Hashes, WorldSame, Written
  <1>4. Carries(v)'
    BY DEF Carries, Writes
  <1> QED BY <1>1, <1>2, <1>3, <1>4 DEF Holds

SameReading(w, v) == v.quiet = w.quiet /\ v.story = w.story /\ v.claims = w.claims

LEMMA ReadsOn ==
  ASSUME NEW w, NEW v, Reads(w), w.pc \notin {"load", "story", "claims"}, SameReading(w, v)
  PROVE  Reads(v)
  <1> PICK claims : claims = w.claims
    OBVIOUS
  <1>1. v.quiet => /\ StoryFilesWhole /\ w.story = prd.active
                   /\ \A f \in Receipts :
                        claims[f] = IF receipt[f].story = w.story THEN "" ELSE receipt[f].story
    BY DEF Reads, SameReading
  <1>2. v.claims = claims /\ v.story = w.story
    BY DEF SameReading
  <1> QED BY <1>1, <1>2 DEF Reads

LEMMA SettledStays ==
  ASSUME IInv, NEW p, NEW w, NEW v, Passes(p, w, v),
         Writes(w) => /\ Writes(v) /\ w.state.seen \subseteq v.state.seen
                      /\ w.state.report <= v.state.report
  PROVE  /\ \A c \in Cycles : Settled(c) => Settled(c)'
         /\ \A u \in Nat : Kept(u) => Kept(u)'
  <1> USE DEF Passes
  <1>1. watcher'[p] = v /\ p \in holders' /\ \A q \in holders : q = p
    BY DEF IInv, LockInv
  <1>2. ASSUME NEW c \in Cycles, Settled(c) PROVE Settled(c)'
    <2>1. c \in saved.seen \/ (Writes(w) /\ c \in w.state.seen)
      BY <1>1, <1>2 DEF Settled
    <2>2. c \in saved'.seen \/ (Writes(v) /\ c \in v.state.seen)
      BY <2>1
    <2> QED BY <1>1, <2>2 DEF Settled, Writes
  <1>3. ASSUME NEW u \in Nat, Kept(u) PROVE Kept(u)'
    <2>1. u <= saved.report \/ (Writes(w) /\ u <= w.state.report)
      BY <1>1, <1>3 DEF Kept
    <2>2. w.state.report \in Nat /\ v.state.report \in Nat
      BY DEF Process, StateRec
    <2>3. u <= saved'.report \/ (Writes(v) /\ u <= v.state.report)
      BY <2>1, <2>2
    <2> QED BY <1>1, <2>3 DEF Kept, Writes
  <1> QED BY <1>2, <1>3

(* A step that writes no packet and answers nothing.                       *)
LEMMA SilentStep ==
  ASSUME IInv, NEW p, NEW w, NEW v, Passes(p, w, v), packets' = packets,
         Reads(v), Signs(v), Routes(v), Lists(v), Hashes(v), Fits(v.state), v.pc # "latest",
         Writes(v) => Answered(v.state) /\ Extends(saved, v.state),
         Writes(w) => /\ Writes(v) /\ w.state.seen \subseteq v.state.seen
                      /\ w.state.report <= v.state.report
  PROVE  IInv'
  <1>1. MorePackets /\ packets' \in Seq(PacketRec)
    BY DEF MorePackets, IInv, FilesInv
  <1>2. Writes(v) => Answered(v.state)'
    BY <1>1, AnsweredStays
  <1>3. Holds(v)'
    BY <1>1, <1>2, StillHolds DEF Hashes
  <1>4. CountInv'
    BY SettledStays, SilentCount DEF IInv, Passes
  <1> QED BY <1>1, <1>3, <1>4, PassStep

LEMMA LoadInv ==
  ASSUME IInv, NEW p \in Watchers, Load(p)
  PROVE  IInv'
  <1> PICK w : w = watcher[p]
    OBVIOUS
  <1>1. /\ w \in Process /\ Fits(w.state) /\ Holds(w) /\ saved \in StateRec /\ Fits(saved)
        /\ Answered(saved) /\ archived \subseteq Files /\ report \in Nat /\ mailbox \in Nat
        /\ p \in holders /\ w.pc = "load"
    BY InPass DEF Load, At
  <1> PICK s \in StateRec : s = saved
    BY <1>1
  <1> PICK o \in Nat : o = LinesFrom(s.offset)
    BY <1>1, LinesBound DEF Fits, StateRec
  <1> PICK e \in Nat : e = s.events + o
    BY DEF StateRec
  <1> PICK m \in Nat : m = mailbox
    BY <1>1
  <1> PICK t : t = [s EXCEPT !.offset = m, !.events = e]
    OBVIOUS
  <1>2. /\ t \in StateRec /\ t.offset = m /\ t.events = e
        /\ t.bundle = s.bundle /\ t.report = s.report /\ t.seen = s.seen
        /\ t.drift = s.drift /\ t.audit = s.audit
    BY DEF StateRec
  <1>3. t = Delta(saved)
    BY DEF Delta
  <1> PICK v : v = [w EXCEPT !.pc = "story", !.state = t]
    OBVIOUS
  <1>4. v \in Process
    BY <1>1, <1>2 DEF Process, Pc
  <1>5. /\ v.pc = "story" /\ v.state = t /\ v.job = w.job /\ v.quiet = w.quiet
        /\ v.report = w.report
    BY <1>1 DEF Process
  <1>6. Passes(p, w, v) /\ packets' = packets
    <2>1. watcher' = [watcher EXCEPT ![p] = v]
      BY <1>3 DEF Load
    <2>2. world' = world /\ files' = files /\ holders' = holders /\ deaths' = deaths
      BY DEF Load
    <2> QED BY <1>1, <1>4, <1>5, <2>1, <2>2, WorldIsSame DEF Passes, files
  <1>7. Fits(t) /\ Extends(s, t)
    <2>1. 2 * o <= mailbox - s.offset /\ s.offset <= mailbox /\ 2 * s.events <= s.offset
      BY <1>1, LinesBound DEF Fits, StateRec
    <2>2. 2 * e <= m /\ s.events <= e
      BY <1>1, <2>1 DEF StateRec
    <2> QED BY <1>1, <1>2, <2>1, <2>2 DEF Fits, Extends, StateRec
  <1>8. Answered(t)
    BY <1>1, <1>2 DEF Answered
  <1>9. Reads(v) /\ Signs(v) /\ Routes(v) /\ Lists(v) /\ Hashes(v)
    BY <1>1, <1>5 DEF Holds, Reads, Signs, Routes, Lists, Hashes
  <1> QED BY <1>1, <1>5, <1>6, <1>7, <1>8, <1>9, SilentStep DEF Writes

LEMMA ReadStoryInv ==
  ASSUME IInv, NEW p \in Watchers, ReadStory(p)
  PROVE  IInv'
  <1> PICK w : w = watcher[p]
    OBVIOUS
  <1>1. /\ w \in Process /\ Fits(w.state) /\ Holds(w) /\ w.state \in StateRec
        /\ archived \subseteq Files /\ p \in holders /\ w.pc = "story"
    BY InPass DEF ReadStory, At
  <1> PICK story, quiet : story = StoryRead /\ quiet = StoryFilesWhole
    OBVIOUS
  <1>2. story \in Story /\ quiet \in BOOLEAN /\ (quiet => story = prd.active)
    BY DEF IInv, WorldInv, StoryRead, Story, StoryFilesWhole
  <1> PICK v : v = [w EXCEPT !.pc = "claims", !.story = story, !.quiet = quiet]
    OBVIOUS
  <1>3. v \in Process
    BY <1>1, <1>2 DEF Process, Pc
  <1>4. /\ v.pc = "claims" /\ v.state = w.state /\ v.job = w.job /\ v.report = w.report
        /\ v.story = story /\ v.quiet = quiet
    BY <1>1 DEF Process
  <1>5. Passes(p, w, v) /\ packets' = packets
    <2>1. watcher' = [watcher EXCEPT ![p] = v]
      BY DEF ReadStory
    <2>2. world' = world /\ files' = files /\ holders' = holders /\ deaths' = deaths
      BY DEF ReadStory
    <2> QED BY <1>1, <1>3, <1>4, <2>1, <2>2, WorldIsSame DEF Passes, files
  <1>6. Reads(v) /\ Signs(v) /\ Routes(v) /\ Lists(v) /\ Hashes(v)
    BY <1>1, <1>2, <1>4 DEF Holds, Reads, Signs, Routes, Lists, Hashes
  <1>7. w.state.report <= w.state.report
    BY <1>1 DEF StateRec
  <1> QED BY <1>1, <1>4, <1>5, <1>6, <1>7, SilentStep DEF Holds, Carries, Writes

LEMMA ReadClaimsInv ==
  ASSUME IInv, NEW p \in Watchers, ReadClaims(p)
  PROVE  IInv'
  <1> PICK w : w = watcher[p]
    OBVIOUS
  <1>1. /\ w \in Process /\ Fits(w.state) /\ Holds(w) /\ w.state \in StateRec
        /\ archived \subseteq Files /\ p \in holders /\ w.pc = "claims"
    BY InPass DEF ReadClaims, At
  <1> PICK claims : claims = Mismatches(w.story, [f \in Receipts |-> ClaimRead(f)])
    OBVIOUS
  <1>2. claims = [f \in Receipts |-> IF ClaimRead(f) = w.story THEN "" ELSE ClaimRead(f)]
    BY DEF Mismatches
  <1>3. \A f \in Receipts : ClaimRead(f) \in Story
    BY DEF IInv, WorldInv, ClaimRead, Story
  <1>4. claims \in Claims
    BY <1>2, <1>3 DEF Claims, Story
  <1>5. StoryFilesWhole => \A f \in Receipts :
          claims[f] = IF receipt[f].story = w.story THEN "" ELSE receipt[f].story
    BY <1>2 DEF StoryFilesWhole, ClaimRead
  <1> PICK v : v = [w EXCEPT !.pc = "hashes", !.claims = claims]
    OBVIOUS
  <1>6. v \in Process
    BY <1>1, <1>4 DEF Process, Pc
  <1>7. /\ v.pc = "hashes" /\ v.state = w.state /\ v.job = w.job /\ v.report = w.report
        /\ v.story = w.story /\ v.quiet = w.quiet /\ v.claims = claims
    BY <1>1 DEF Process
  <1>8. Passes(p, w, v) /\ packets' = packets
    <2>1. watcher' = [watcher EXCEPT ![p] = v]
      BY DEF ReadClaims
    <2>2. world' = world /\ files' = files /\ holders' = holders /\ deaths' = deaths
      BY DEF ReadClaims
    <2> QED BY <1>1, <1>6, <1>7, <2>1, <2>2, WorldIsSame DEF Passes, files
  <1>9. Reads(v)
    <2>1. v.quiet => StoryFilesWhole /\ w.story = prd.active
      BY <1>1, <1>7 DEF Holds, Reads
    <2>2. v.quiet => \A f \in Receipts :
            claims[f] = IF receipt[f].story = w.story THEN "" ELSE receipt[f].story
      BY <1>5, <2>1
    <2>3. v.claims = claims /\ v.story = w.story
      BY <1>7
    <2> QED BY <2>1, <2>2, <2>3 DEF Reads
  <1>10. Signs(v) /\ Routes(v) /\ Lists(v) /\ Hashes(v)
    BY <1>1, <1>7 DEF Holds, Signs, Routes, Lists, Hashes
  <1>11. w.state.report <= w.state.report
    BY <1>1 DEF StateRec
  <1> QED BY <1>1, <1>7, <1>8, <1>9, <1>10, <1>11, SilentStep DEF Holds, Carries, Writes

LEMMA ReadHashesInv ==
  ASSUME IInv, NEW p \in Watchers, ReadHashes(p)
  PROVE  IInv'
  <1> PICK w : w = watcher[p]
    OBVIOUS
  <1>1. /\ w \in Process /\ Fits(w.state) /\ Holds(w) /\ w.state \in StateRec
        /\ archived \subseteq Files /\ p \in holders /\ w.pc = "hashes"
    BY InPass DEF ReadHashes, At
  <1> PICK next \in {"audit", "drift"} : next = IF w.job.audit THEN "audit" ELSE "drift"
    OBVIOUS
  <1> PICK signature : signature = SignatureOf(w)
    OBVIOUS
  <1>2. /\ signature \in Signature
        /\ signature.story = w.story /\ signature.claims = w.claims
    BY <1>1 DEF SignatureOf, Signature, Process, IInv, WorldInv
  <1> PICK v : v = [w EXCEPT !.pc = next, !.signature = signature]
    OBVIOUS
  <1>3. v \in Process
    BY <1>1, <1>2 DEF Process, Pc
  <1>4. /\ v.pc = next /\ v.state = w.state /\ v.job = w.job /\ v.report = w.report
        /\ v.story = w.story /\ v.quiet = w.quiet /\ v.claims = w.claims
        /\ v.signature = signature
    BY <1>1 DEF Process
  <1>5. Passes(p, w, v) /\ packets' = packets
    <2>1. watcher' = [watcher EXCEPT ![p] = v]
      BY DEF ReadHashes
    <2>2. world' = world /\ files' = files /\ holders' = holders /\ deaths' = deaths
      BY DEF ReadHashes
    <2> QED BY <1>1, <1>3, <1>4, <2>1, <2>2, WorldIsSame DEF Passes, files
  <1>6. Reads(v)
    <2>1. Reads(w) /\ w.pc \notin {"load", "story", "claims"}
      BY <1>1 DEF Holds
    <2>2. SameReading(w, v)
      BY <1>4 DEF SameReading
    <2> QED BY <2>1, <2>2, ReadsOn
  <1>7. Signs(v) /\ Routes(v) /\ Lists(v) /\ Hashes(v)
    BY <1>1, <1>2, <1>4 DEF Holds, Signs, Routes, Lists, Hashes
  <1>8. w.state.report <= w.state.report
    BY <1>1 DEF StateRec
  <1> QED BY <1>1, <1>4, <1>5, <1>6, <1>7, <1>8, SilentStep DEF Holds, Carries, Writes

-----------------------------------------------------------------------------
(* Steps that write a packet.                                              *)

LEMMA PacketType ==
  ASSUME NEW kind \in Kinds, NEW w \in Process, NEW k, k = Packet(kind, w)
  PROVE  /\ k \in PacketRec /\ k.kind = kind /\ k.story = w.story /\ k.claims = NoClaims
         /\ k.bundle = NoBundle /\ k.report = 0 /\ k.cycles = {}
         /\ k.astray = (w.quiet /\ (Drifted \/ w.story # prd.active))
  <1> PICK astray \in BOOLEAN : astray = (w.quiet /\ (Drifted \/ w.story # prd.active))
    OBVIOUS
  <1>1. k = [kind |-> kind, story |-> w.story, claims |-> NoClaims, bundle |-> NoBundle,
             report |-> 0, cycles |-> {}, astray |-> astray]
    BY DEF Packet
  <1>2. NoClaims \in Claims /\ NoBundle \in BundleRec /\ w.story \in Story
    BY EmptyTypes DEF Process
  <1>3. k \in PacketRec
    BY <1>1, <1>2 DEF PacketRec
  <1>4. /\ k.kind = kind /\ k.story = w.story /\ k.claims = NoClaims /\ k.bundle = NoBundle
        /\ k.report = 0 /\ k.cycles = {} /\ k.astray = astray
    BY <1>1
  <1> QED BY <1>3, <1>4

(* While nobody disturbs it, a pass that routes has read what stands.      *)
LEMMA NotAstray ==
  ASSUME NEW w, Reads(w), Routes(w), w.pc \in {"promotion", "report_body", "review"}
  PROVE  ~(w.quiet /\ (Drifted \/ w.story # prd.active))
  <1> SUFFICES ASSUME w.quiet PROVE w.story = prd.active /\ ~Drifted
    OBVIOUS
  <1> PICK claims : claims = w.claims
    OBVIOUS
  <1>1. /\ StoryFilesWhole /\ w.story = prd.active
        /\ \A f \in Receipts :
             claims[f] = IF receipt[f].story = w.story THEN "" ELSE receipt[f].story
    BY DEF Reads
  <1>2. claims = NoClaims
    BY DEF Routes
  <1>3. \A f \in Receipts : claims[f] = ""
    BY <1>2 DEF NoClaims
  <1>4. \A f \in Receipts : receipt[f].story \in {"", prd.active}
    BY <1>1, <1>3
  <1> QED BY <1>1, <1>4 DEF Drifted, Clean

(* The five things a state may call answered.                              *)
DriftOn(d) ==
    d # NoSignature =>
      \E i \in Written("truth_drift") : packets[i].story = d.story /\ packets[i].claims = d.claims
BundleOn(b) ==
    b # NoBundle => \E i \in Written("story_promotion_changed") : packets[i].bundle = b
ReportOn(r) ==
    r > 0 => \E i \in Written("strategy_report_changed") : packets[i].report >= r
SeenOn(C) == \A c \in C : \E i \in Written("paper_cycle_closed") : c \in packets[i].cycles
AuditOn(a) == a > 0 => a \in Written("ai_hygiene")

LEMMA AnsweredParts ==
  ASSUME NEW s
  PROVE  /\ Answered(s) <=> /\ DriftOn(s.drift) /\ BundleOn(s.bundle) /\ ReportOn(s.report)
                           /\ SeenOn(s.seen) /\ AuditOn(s.audit)
         /\ Answered(s)' <=> /\ DriftOn(s.drift)' /\ BundleOn(s.bundle)' /\ ReportOn(s.report)'
                            /\ SeenOn(s.seen)' /\ AuditOn(s.audit)'
  BY DEF Answered, DriftOn, BundleOn, ReportOn, SeenOn, AuditOn

(* What p has to show of the state it goes on with, if it is no dry run.   *)
Ahead(v) == Fits(v.state) /\ (Writes(v) => Answered(v.state)' /\ Extends(saved, v.state))

LEMMA PacketStep ==
  ASSUME IInv, NEW p, NEW w, NEW v, Passes(p, w, v), NEW k, NEW n, Adds(w, k, n), PacketOK(k),
         Reads(v), Signs(v), Routes(v), Lists(v), v.report <= report,
         v.pc \notin {"latest", "report_body"}, Ahead(v), CountInv'
  PROVE  IInv'
  <1>1. MorePackets /\ packets' \in Seq(PacketRec)
    BY DEF Adds
  <1>2. ASSUME NEW i \in DOMAIN packets' \ DOMAIN packets PROVE PacketOK(packets'[i])
    BY <1>2 DEF Adds
  <1>3. Writes(v) => Answered(v.state)' /\ Extends(saved, v.state)
    BY DEF Ahead
  <1>4. Holds(v)'
    BY <1>1, <1>3, StillHolds
  <1>5. Fits(v.state)
    BY DEF Ahead
  <1> QED BY <1>1, <1>2, <1>4, <1>5, PassStep

LEMMA OtherCount ==
  ASSUME IInv, NEW p, NEW w, NEW v, Passes(p, w, v), NEW k, NEW n, Adds(w, k, n),
         k.kind \notin {"strategy_report_changed", "paper_cycle_closed"},
         Writes(w) => /\ Writes(v) /\ w.state.seen \subseteq v.state.seen
                      /\ w.state.report <= v.state.report
  PROVE  CountInv'
  <1>1. ASSUME NEW kind \in {"strategy_report_changed", "paper_cycle_closed"}
        PROVE  /\ Written(kind)' = Written(kind)
               /\ \A i \in Written(kind) : packets'[i] = packets[i]
    BY DEF Written, Adds, MorePackets
  <1>2. SameReviews
    BY <1>1 DEF SameReviews, CycleReviews, ReportReviews
  <1>3. /\ CountInv /\ packets \in Seq(PacketRec) /\ deaths \in Nat /\ deaths' = deaths
    BY Bounds DEF IInv, WorldInv, FilesInv, Passes
  <1> QED BY <1>2, <1>3, SettledStays, CountStays

LEMMA AuditInv ==
  ASSUME IInv, NEW p \in Watchers, Audit(p)
  PROVE  IInv'
  <1> PICK w : w = watcher[p]
    OBVIOUS
  <1>1. /\ w \in Process /\ Fits(w.state) /\ Holds(w) /\ w.state \in StateRec
        /\ packets \in Seq(PacketRec) /\ saved \in StateRec /\ Answered(saved)
        /\ archived \subseteq Files /\ report \in Nat /\ p \in holders /\ w.pc = "audit"
    BY InPass DEF Audit, At
  <1> PICK n : n = Len(packets) + 1
    OBVIOUS
  <1> PICK story : story = StoryRead
    OBVIOUS
  <1> PICK b : b = Packet("ai_hygiene", w)
    OBVIOUS
  <1> PICK k : k = [b EXCEPT !.story = story, !.astray = FALSE]
    OBVIOUS
  <1>2. story \in Story
    BY DEF IInv, WorldInv, StoryRead, Story
  <1>3. b \in PacketRec /\ b.kind = "ai_hygiene" /\ b.report = 0
    BY <1>1, PacketType DEF Kinds
  <1>4. k \in PacketRec /\ k.kind = "ai_hygiene" /\ k.report = 0
    BY <1>2, <1>3 DEF PacketRec
  <1>5. Adds(w, k, n)
    BY <1>1, <1>4, PacketAdded DEF Audit
  <1>6. n \in Nat /\ Len(packets) \in Nat /\ DOMAIN packets = 1..Len(packets)
    BY <1>5 DEF Adds
  <1> PICK t : t = [w.state EXCEPT !.audit = n]
    OBVIOUS
  <1>7. /\ t \in StateRec /\ t.offset = w.state.offset /\ t.events = w.state.events
        /\ t.bundle = w.state.bundle /\ t.report = w.state.report /\ t.seen = w.state.seen
        /\ t.drift = w.state.drift /\ t.audit = n
    BY <1>1, <1>6 DEF StateRec
  <1> PICK v : v = [w EXCEPT !.pc = "drift", !.state = t]
    OBVIOUS
  <1>8. v \in Process
    BY <1>1, <1>7 DEF Process, Pc
  <1>9. /\ v.pc = "drift" /\ v.state = t /\ v.job = w.job /\ v.report = w.report
        /\ v.story = w.story /\ v.quiet = w.quiet /\ v.claims = w.claims
        /\ v.signature = w.signature
    BY <1>1 DEF Process
  <1>10. Passes(p, w, v)
    <2>1. watcher' = [watcher EXCEPT ![p] = v] /\ archived' = archived \union CopiedToArchive(w)
      BY DEF Audit
    <2>2. /\ world' = world /\ saved' = saved /\ latest' = latest /\ holders' = holders
          /\ deaths' = deaths
      BY DEF Audit
    <2>3. CopiedToArchive(w) \subseteq Files
      BY DEF CopiedToArchive, ArchiveCandidates
    <2> QED BY <1>1, <1>8, <1>9, <2>1, <2>2, <2>3, WorldIsSame DEF Passes
  <1>11. Reads(v)
    <2>1. Reads(w) /\ w.pc \notin {"load", "story", "claims"}
      BY <1>1 DEF Holds
    <2>2. SameReading(w, v)
      BY <1>9 DEF SameReading
    <2> QED BY <2>1, <2>2, ReadsOn
  <1>12. Signs(v) /\ Routes(v) /\ Lists(v) /\ v.report <= report
    BY <1>1, <1>9 DEF Holds, Signs, Routes, Lists, Hashes
  <1>13. Fits(t)
    BY <1>1, <1>7 DEF Fits
  <1>14. ASSUME Writes(v) PROVE Answered(t)' /\ Extends(saved, t)
    <2>1. Writes(w) /\ ~w.job.dry
      BY <1>1, <1>9, <1>14 DEF Writes
    <2>2. Answered(w.state) /\ Extends(saved, w.state)
      BY <1>1, <2>1 DEF Holds, Carries
    <2> PICK s : s = w.state
      OBVIOUS
    <2>3. Answered(s)'
      BY <1>5, <2>2, AnsweredStays DEF Adds
    <2>4. n \in Written("ai_hygiene")'
      BY <1>4, <1>5, <2>1 DEF Written, Adds
    <2>5. Answered(t)'
      <3>1. DriftOn(s.drift)' /\ BundleOn(s.bundle)' /\ ReportOn(s.report)' /\ SeenOn(s.seen)'
        BY <2>3, AnsweredParts
      <3>2. AuditOn(n)'
        BY <2>4 DEF AuditOn
      <3> QED BY <1>7, <3>1, <3>2, AnsweredParts
    <2>6. saved.audit <= n
      BY <1>1, <1>6 DEF Answered, Written, StateRec
    <2> QED BY <1>7, <2>2, <2>5, <2>6 DEF Extends
  <1>15. Writes(w) => /\ Writes(v) /\ w.state.seen \subseteq v.state.seen
                      /\ w.state.report <= v.state.report
    <2>1. Writes(w) => Writes(v)
      BY <1>1, <1>9 DEF Writes
    <2>2. w.state.report <= w.state.report
      BY <1>1 DEF StateRec
    <2>3. v.state.seen = w.state.seen /\ v.state.report = w.state.report
      BY <1>7, <1>9
    <2> QED BY <2>1, <2>2, <2>3
  <1>16. CountInv'
    BY <1>4, <1>5, <1>10, <1>15, OtherCount
  <1>17. PacketOK(k)
    BY <1>1, <1>4 DEF PacketOK
  <1>18. Ahead(v)
    BY <1>9, <1>13, <1>14 DEF Ahead
  <1>19. v.pc \notin {"latest", "report_body"}
    BY <1>9
  <1> QED BY <1>5, <1>10, <1>11, <1>12, <1>16, <1>17, <1>18, <1>19, PacketStep

LEMMA TruthDriftInv ==
  ASSUME IInv, NEW p \in Watchers, TruthDrift(p)
  PROVE  IInv'
  <1> PICK w : w = watcher[p]
    OBVIOUS
  <1>1. /\ w \in Process /\ Fits(w.state) /\ Holds(w) /\ w.state \in StateRec
        /\ packets \in Seq(PacketRec) /\ archived \subseteq Files /\ report \in Nat
        /\ p \in holders /\ w.pc = "drift"
    BY InPass DEF TruthDrift, At
  <1>2. /\ WorldSame /\ saved' = saved /\ latest' = latest /\ archived' = archived
        /\ holders' = holders /\ deaths' = deaths
    <2>1. world' = world
      BY DEF TruthDrift
    <2>2. WorldSame
      BY <2>1, WorldIsSame
    <2> QED BY <2>2 DEF TruthDrift
  <1>3. Reads(w) /\ w.pc \notin {"load", "story", "claims"}
    BY <1>1 DEF Holds
  <1>4. w.state.report <= w.state.report /\ w.signature \in Signature
    BY <1>1 DEF StateRec, Process
  <1>5. CASE /\ w.claims = NoClaims /\ packets' = packets
             /\ watcher' = [watcher EXCEPT ![p] =
                  [@ EXCEPT !.pc = "promotion", !.state = [w.state EXCEPT !.drift = NoSignature]]]
    <2> PICK t : t = [w.state EXCEPT !.drift = NoSignature]
      OBVIOUS
    <2>1. /\ t \in StateRec /\ t.offset = w.state.offset /\ t.events = w.state.events
          /\ t.bundle = w.state.bundle /\ t.report = w.state.report /\ t.seen = w.state.seen
          /\ t.drift = NoSignature /\ t.audit = w.state.audit
      BY <1>1, EmptyTypes DEF StateRec
    <2> PICK v : v = [w EXCEPT !.pc = "promotion", !.state = t]
      OBVIOUS
    <2>2. v \in Process
      BY <1>1, <2>1 DEF Process, Pc
    <2>3. /\ v.pc = "promotion" /\ v.state = t /\ v.job = w.job /\ v.report = w.report
          /\ v.story = w.story /\ v.quiet = w.quiet /\ v.claims = w.claims
      BY <1>1 DEF Process
    <2>4. Passes(p, w, v)
      BY <1>1, <1>2, <1>5, <2>2, <2>3 DEF Passes
    <2>5. Reads(v)
      <3>1. SameReading(w, v)
        BY <2>3 DEF SameReading
      <3> QED BY <1>3, <3>1, ReadsOn
    <2>6. Signs(v) /\ Routes(v) /\ Lists(v) /\ Hashes(v)
      BY <1>1, <1>5, <2>3 DEF Holds, Signs, Routes, Lists, Hashes
    <2>7. Fits(v.state)
      BY <1>1, <2>1, <2>3 DEF Fits
    <2>8. Writes(w) = Writes(v)
      BY <1>1, <2>3 DEF Writes
    <2>9. Writes(v) => Answered(v.state) /\ Extends(saved, v.state)
      <3> SUFFICES ASSUME Writes(w) PROVE Answered(t) /\ Extends(saved, t)
        BY <2>3, <2>8
      <3> PICK s : s = w.state
        OBVIOUS
      <3>1. Answered(s) /\ Extends(saved, s)
        BY <1>1 DEF Holds, Carries
      <3>2. BundleOn(s.bundle) /\ ReportOn(s.report) /\ SeenOn(s.seen) /\ AuditOn(s.audit)
        BY <3>1, AnsweredParts
      <3>3. DriftOn(NoSignature)
        BY DEF DriftOn
      <3>4. Answered(t)
        BY <2>1, <3>2, <3>3, AnsweredParts
      <3> QED BY <2>1, <3>1, <3>4 DEF Extends
    <2> QED BY <1>4, <1>5, <2>1, <2>3, <2>4, <2>5, <2>6, <2>7, <2>8, <2>9, SilentStep
  <1>6. CASE packets' = packets /\ watcher' = [watcher EXCEPT ![p] = [@ EXCEPT !.pc = "save"]]
    <2> PICK v : v = [w EXCEPT !.pc = "save"]
      OBVIOUS
    <2>1. v \in Process
      BY <1>1 DEF Process, Pc
    <2>2. /\ v.pc = "save" /\ v.state = w.state /\ v.job = w.job /\ v.report = w.report
          /\ v.story = w.story /\ v.quiet = w.quiet /\ v.claims = w.claims
      BY <1>1 DEF Process
    <2>3. Passes(p, w, v)
      BY <1>1, <1>2, <1>6, <2>1, <2>2 DEF Passes
    <2>4. Reads(v)
      <3>1. SameReading(w, v)
        BY <2>2 DEF SameReading
      <3> QED BY <1>3, <3>1, ReadsOn
    <2>5. Signs(v) /\ Routes(v) /\ Lists(v) /\ Hashes(v) /\ Fits(v.state)
      BY <1>1, <2>2 DEF Holds, Signs, Routes, Lists, Hashes
    <2>6. Writes(w) = Writes(v)
      BY <1>1, <2>2 DEF Writes
    <2>7. Writes(v) => Answered(v.state) /\ Extends(saved, v.state)
      BY <1>1, <2>2, <2>6 DEF Holds, Carries
    <2> QED BY <1>4, <1>6, <2>2, <2>3, <2>4, <2>5, <2>6, <2>7, SilentStep
  <1>7. CASE /\ w.claims # NoClaims
             /\ WritePacket(p, [Packet("truth_drift", w) EXCEPT !.claims = w.claims, !.astray = FALSE])
             /\ watcher' = [watcher EXCEPT ![p] =
                  [@ EXCEPT !.pc = "save", !.state = [w.state EXCEPT !.drift = w.signature]]]
    <2> PICK n : n = Len(packets) + 1
      OBVIOUS
    <2> PICK b : b = Packet("truth_drift", w)
      OBVIOUS
    <2> PICK k : k = [b EXCEPT !.claims = w.claims, !.astray = FALSE]
      OBVIOUS
    <2>1. b \in PacketRec /\ b.kind = "truth_drift" /\ b.report = 0 /\ b.story = w.story
      BY <1>1, PacketType DEF Kinds
    <2>2. w.claims \in Claims
      BY <1>1 DEF Process
    <2>3. /\ k \in PacketRec /\ k.kind = "truth_drift" /\ k.report = 0 /\ k.story = w.story
          /\ k.claims = w.claims
      BY <2>1, <2>2 DEF PacketRec
    <2>4. Adds(w, k, n)
      BY <1>1, <1>7, <2>3, PacketAdded
    <2> PICK t : t = [w.state EXCEPT !.drift = w.signature]
      OBVIOUS
    <2>5. /\ t \in StateRec /\ t.offset = w.state.offset /\ t.events = w.state.events
          /\ t.bundle = w.state.bundle /\ t.report = w.state.report /\ t.seen = w.state.seen
          /\ t.drift = w.signature /\ t.audit = w.state.audit
      BY <1>1, <1>4 DEF StateRec
    <2> PICK v : v = [w EXCEPT !.pc = "save", !.state = t]
      OBVIOUS
    <2>6. v \in Process
      BY <1>1, <2>5 DEF Process, Pc
    <2>7. /\ v.pc = "save" /\ v.state = t /\ v.job = w.job /\ v.report = w.report
          /\ v.story = w.story /\ v.quiet = w.quiet /\ v.claims = w.claims
      BY <1>1 DEF Process
    <2>8. Passes(p, w, v)
      BY <1>1, <1>2, <1>7, <2>6, <2>7 DEF Passes
    <2>9. Reads(v)
      <3>1. SameReading(w, v)
        BY <2>7 DEF SameReading
      <3> QED BY <1>3, <3>1, ReadsOn
    <2>10. Signs(v) /\ Routes(v) /\ Lists(v) /\ v.report <= report
      BY <1>1, <2>7 DEF Holds, Signs, Routes, Lists, Hashes
    <2>11. Fits(t)
      BY <1>1, <2>5 DEF Fits
    <2>12. Writes(w) = Writes(v)
      BY <1>1, <2>7 DEF Writes
    <2>13. ASSUME Writes(v) PROVE Answered(t)' /\ Extends(saved, t)
      <3>1. ~w.job.dry /\ Answered(w.state) /\ Extends(saved, w.state)
        BY <1>1, <2>12, <2>13 DEF Holds, Carries, Writes
      <3> PICK s : s = w.state
        OBVIOUS
      <3>2. Answered(s)'
        BY <2>4, <3>1, AnsweredStays DEF Adds
      <3>3. n \in Written("truth_drift")' /\ packets'[n] = k
        BY <2>3, <2>4, <3>1 DEF Written, Adds
      <3>4. w.signature.story = w.story /\ w.signature.claims = w.claims
        BY <1>1 DEF Holds, Signs
      <3>5. k.story = t.drift.story /\ k.claims = t.drift.claims
        BY <2>3, <2>5, <3>4
      <3>6. DriftOn(t.drift)'
        BY <3>3, <3>5 DEF DriftOn
      <3>7. BundleOn(s.bundle)' /\ ReportOn(s.report)' /\ SeenOn(s.seen)' /\ AuditOn(s.audit)'
        BY <3>2, AnsweredParts
      <3>8. Answered(t)'
        BY <2>5, <3>6, <3>7, AnsweredParts
      <3> QED BY <2>5, <3>1, <3>8 DEF Extends
    <2>14. CountInv'
      <3>1. Writes(w) => /\ Writes(v) /\ w.state.seen \subseteq v.state.seen
                         /\ w.state.report <= v.state.report
        BY <1>4, <2>5, <2>7, <2>12
      <3> QED BY <2>3, <2>4, <2>8, <3>1, OtherCount
    <2>15. PacketOK(k)
      BY <1>1, <2>3 DEF PacketOK
    <2>16. Ahead(v)
      BY <2>7, <2>11, <2>13 DEF Ahead
    <2>17. v.pc \notin {"latest", "report_body"}
      BY <2>7
    <2> QED BY <2>4, <2>8, <2>9, <2>10, <2>14, <2>15, <2>16, <2>17, PacketStep
  <1> QED BY <1>5, <1>6, <1>7 DEF TruthDrift

LEMMA StoryPromotionInv ==
  ASSUME IInv, NEW p \in Watchers, StoryPromotion(p)
  PROVE  IInv'
  <1> PICK w : w = watcher[p]
    OBVIOUS
  <1>1. /\ w \in Process /\ Fits(w.state) /\ Holds(w) /\ w.state \in StateRec
        /\ packets \in Seq(PacketRec) /\ archived \subseteq Files /\ report \in Nat
        /\ p \in holders /\ w.pc = "promotion"
    BY InPass DEF StoryPromotion, At
  <1>2. /\ WorldSame /\ saved' = saved /\ latest' = latest /\ archived' = archived
        /\ holders' = holders /\ deaths' = deaths
    <2>1. world' = world
      BY DEF StoryPromotion
    <2>2. WorldSame
      BY <2>1, WorldIsSame
    <2> QED BY <2>2 DEF StoryPromotion
  <1>3. Reads(w) /\ w.pc \notin {"load", "story", "claims"}
    BY <1>1 DEF Holds
  <1>4. w.state.report <= w.state.report
    BY <1>1 DEF StateRec
  <1>5. CASE packets' = packets /\ watcher' = [watcher EXCEPT ![p] = [@ EXCEPT !.pc = "report"]]
    <2> PICK v : v = [w EXCEPT !.pc = "report"]
      OBVIOUS
    <2>1. v \in Process
      BY <1>1 DEF Process, Pc
    <2>2. /\ v.pc = "report" /\ v.state = w.state /\ v.job = w.job /\ v.report = w.report
          /\ v.story = w.story /\ v.quiet = w.quiet /\ v.claims = w.claims
      BY <1>1 DEF Process
    <2>3. Passes(p, w, v)
      BY <1>1, <1>2, <1>5, <2>1, <2>2 DEF Passes
    <2>4. Reads(v)
      <3>1. SameReading(w, v)
        BY <2>2 DEF SameReading
      <3> QED BY <1>3, <3>1, ReadsOn
    <2>5. Signs(v) /\ Routes(v) /\ Lists(v) /\ Hashes(v) /\ Fits(v.state)
      BY <1>1, <2>2 DEF Holds, Signs, Routes, Lists, Hashes
    <2>6. Writes(w) = Writes(v)
      BY <1>1, <2>2 DEF Writes
    <2>7. Writes(v) => Answered(v.state) /\ Extends(saved, v.state)
      BY <1>1, <2>2, <2>6 DEF Holds, Carries
    <2> QED BY <1>4, <1>5, <2>2, <2>3, <2>4, <2>5, <2>6, <2>7, SilentStep
  <1>6. CASE /\ WritePacket(p, [Packet("story_promotion_changed", w) EXCEPT !.bundle = Bundle(w)])
             /\ watcher' = [watcher EXCEPT ![p] =
                  [@ EXCEPT !.pc = "report", !.state = [w.state EXCEPT !.bundle = Bundle(w)]]]
    <2> PICK n : n = Len(packets) + 1
      OBVIOUS
    <2> PICK bundle : bundle = Bundle(w)
      OBVIOUS
    <2> PICK b : b = Packet("story_promotion_changed", w)
      OBVIOUS
    <2> PICK k : k = [b EXCEPT !.bundle = bundle]
      OBVIOUS
    <2>1. bundle \in BundleRec
      BY <1>1 DEF Bundle, BundleRec, Process, IInv, WorldInv, Receipts
    <2>2. b \in PacketRec /\ b.kind = "story_promotion_changed" /\ b.report = 0 /\ ~b.astray
      <3>1. /\ b \in PacketRec /\ b.kind = "story_promotion_changed" /\ b.report = 0
            /\ b.astray = (w.quiet /\ (Drifted \/ w.story # prd.active))
        BY <1>1, PacketType DEF Kinds
      <3>2. Routes(w) /\ w.pc \in {"promotion", "report_body", "review"}
        BY <1>1 DEF Holds
      <3>3. ~(w.quiet /\ (Drifted \/ w.story # prd.active))
        BY <1>3, <3>2, NotAstray, Zenon
      <3> QED BY <3>1, <3>3
    <2>3. /\ k \in PacketRec /\ k.kind = "story_promotion_changed" /\ k.report = 0
          /\ k.bundle = bundle /\ ~k.astray
      BY <2>1, <2>2 DEF PacketRec
    <2>4. Adds(w, k, n)
      BY <1>1, <1>6, <2>3, PacketAdded
    <2> PICK t : t = [w.state EXCEPT !.bundle = bundle]
      OBVIOUS
    <2>5. /\ t \in StateRec /\ t.offset = w.state.offset /\ t.events = w.state.events
          /\ t.bundle = bundle /\ t.report = w.state.report /\ t.seen = w.state.seen
          /\ t.drift = w.state.drift /\ t.audit = w.state.audit
      BY <1>1, <2>1 DEF StateRec
    <2> PICK v : v = [w EXCEPT !.pc = "report", !.state = t]
      OBVIOUS
    <2>6. v \in Process
      BY <1>1, <2>5 DEF Process, Pc
    <2>7. /\ v.pc = "report" /\ v.state = t /\ v.job = w.job /\ v.report = w.report
          /\ v.story = w.story /\ v.quiet = w.quiet /\ v.claims = w.claims
      BY <1>1 DEF Process
    <2>8. Passes(p, w, v)
      BY <1>1, <1>2, <1>6, <2>6, <2>7 DEF Passes
    <2>9. Reads(v)
      <3>1. SameReading(w, v)
        BY <2>7 DEF SameReading
      <3> QED BY <1>3, <3>1, ReadsOn
    <2>10. Signs(v) /\ Routes(v) /\ Lists(v) /\ v.report <= report
      BY <1>1, <2>7 DEF Holds, Signs, Routes, Lists, Hashes
    <2>11. Fits(t)
      BY <1>1, <2>5 DEF Fits
    <2>12. Writes(w) = Writes(v)
      BY <1>1, <2>7 DEF Writes
    <2>13. ASSUME Writes(v) PROVE Answered(t)' /\ Extends(saved, t)
      <3>1. ~w.job.dry /\ Answered(w.state) /\ Extends(saved, w.state)
        BY <1>1, <2>12, <2>13 DEF Holds, Carries, Writes
      <3> PICK s : s = w.state
        OBVIOUS
      <3>2. Answered(s)'
        BY <2>4, <3>1, AnsweredStays DEF Adds
      <3>3. n \in Written("story_promotion_changed")' /\ packets'[n].bundle = bundle
        BY <2>3, <2>4, <3>1 DEF Written, Adds
      <3>4. BundleOn(bundle)'
        BY <3>3 DEF BundleOn
      <3>5. DriftOn(s.drift)' /\ ReportOn(s.report)' /\ SeenOn(s.seen)' /\ AuditOn(s.audit)'
        BY <3>2, AnsweredParts
      <3>6. Answered(t)'
        BY <2>5, <3>4, <3>5, AnsweredParts
      <3> QED BY <2>5, <3>1, <3>6 DEF Extends
    <2>14. CountInv'
      <3>1. Writes(w) => /\ Writes(v) /\ w.state.seen \subseteq v.state.seen
                         /\ w.state.report <= v.state.report
        BY <1>4, <2>5, <2>7, <2>12
      <3> QED BY <2>3, <2>4, <2>8, <3>1, OtherCount
    <2>15. PacketOK(k)
      BY <1>1, <2>3 DEF PacketOK
    <2>16. Ahead(v)
      BY <2>7, <2>11, <2>13 DEF Ahead
    <2>17. v.pc \notin {"latest", "report_body"}
      BY <2>7
    <2> QED BY <2>4, <2>8, <2>9, <2>10, <2>14, <2>15, <2>16, <2>17, PacketStep
  <1> QED BY <1>5, <1>6 DEF StoryPromotion

LEMMA HashReportInv ==
  ASSUME IInv, NEW p \in Watchers, HashReport(p)
  PROVE  IInv'
  <1> PICK w : w = watcher[p]
    OBVIOUS
  <1>1. /\ w \in Process /\ Fits(w.state) /\ Holds(w) /\ w.state \in StateRec
        /\ archived \subseteq Files /\ report \in Nat /\ p \in holders /\ w.pc = "report"
    BY InPass DEF HashReport, At
  <1> PICK r \in Nat : r = report
    BY <1>1
  <1> PICK next \in {"cycles", "report_body"} :
        next = IF report = 0 \/ w.state.report = report THEN "cycles" ELSE "report_body"
    OBVIOUS
  <1> PICK v : v = [w EXCEPT !.pc = next, !.report = r]
    OBVIOUS
  <1>2. v \in Process
    BY <1>1 DEF Process, Pc
  <1>3. /\ v.pc = next /\ v.state = w.state /\ v.job = w.job /\ v.report = r
        /\ v.story = w.story /\ v.quiet = w.quiet /\ v.claims = w.claims
    BY <1>1 DEF Process
  <1>4. Passes(p, w, v) /\ packets' = packets
    <2>1. watcher' = [watcher EXCEPT ![p] = v]
      BY DEF HashReport
    <2>2. world' = world /\ files' = files /\ holders' = holders /\ deaths' = deaths
      BY DEF HashReport
    <2> QED BY <1>1, <1>2, <1>3, <2>1, <2>2, WorldIsSame DEF Passes, files
  <1>5. Reads(v)
    <2>1. Reads(w) /\ w.pc \notin {"load", "story", "claims"}
      BY <1>1 DEF Holds
    <2>2. SameReading(w, v)
      BY <1>3 DEF SameReading
    <2> QED BY <2>1, <2>2, ReadsOn
  <1>6. Signs(v) /\ Routes(v) /\ Lists(v)
    BY <1>1, <1>3 DEF Holds, Signs, Routes, Lists
  <1>7. Hashes(v)
    <2>1. v.report <= report
      BY <1>3
    <2>2. next = "report_body" => v.state.report < v.report
      BY <1>1, <1>3 DEF Fits, StateRec
    <2>3. \A i \in DOMAIN packets : packets[i].report <= v.report
      BY <1>3 DEF IInv, FilesInv, PacketOK
    <2> QED BY <1>3, <2>1, <2>2, <2>3 DEF Hashes, Written
  <1>8. w.state.report <= w.state.report
    BY <1>1 DEF StateRec
  <1>9. Writes(v) => Answered(v.state) /\ Extends(saved, v.state)
    BY <1>1, <1>3 DEF Holds, Carries, Writes
  <1>10. Writes(w) => Writes(v)
    BY <1>3 DEF Writes
  <1> QED BY <1>1, <1>3, <1>4, <1>5, <1>6, <1>7, <1>8, <1>9, <1>10, SilentStep

(* A pass that is no dry run writes before and after.                      *)
Onward(w, v) ==
    /\ w.job.dry => ~Writes(w) /\ ~Writes(v)
    /\ ~w.job.dry => Writes(w) /\ Writes(v) /\ Extends(saved, w.state)

(* A review of the report: the version that was hashed, or a later one     *)
(* that no packet shows yet.                                               *)
LEMMA ReportCount ==
  ASSUME IInv, NEW p, NEW w, NEW v, Passes(p, w, v), NEW k, NEW n, Adds(w, k, n),
         k.kind = "strategy_report_changed", k.report \in Nat, w.report <= k.report,
         Hashes(w), w.pc = "report_body", Onward(w, v),
         v.state.seen = w.state.seen, v.state.report = w.report
  PROVE  CountInv'
  <1>1. /\ w.report \in Nat /\ w.state.report \in Nat /\ w.state.report < w.report
        /\ saved.report \in Nat
        /\ \A i \in Written("strategy_report_changed") : packets[i].report <= w.report
    BY DEF Hashes, Passes, Process, StateRec, IInv, FilesInv
  <1>2. \A q \in holders : q = p
    BY DEF IInv, LockInv, Passes
  <1>3. /\ \A c \in Cycles : Settled(c) => Settled(c)'
        /\ \A u \in Nat : Kept(u) => Kept(u)'
    <2>1. Writes(w) => /\ Writes(v) /\ w.state.seen \subseteq v.state.seen
                       /\ w.state.report <= v.state.report
      BY <1>1 DEF Onward
    <2> QED BY <2>1, SettledStays
  <1>4. /\ CountInv /\ packets \in Seq(PacketRec) /\ deaths \in Nat /\ deaths' = deaths
    BY Bounds DEF IInv, WorldInv, FilesInv, Passes
  <1>5. \A c \in Cycles : CycleReviews(c)' = CycleReviews(c)
    BY DEF CycleReviews, Written, Adds, MorePackets
  <1>6. CASE w.job.dry
    <2>1. packets' = packets
      BY <1>6 DEF Adds
    <2>2. SameReviews
      BY <2>1 DEF SameReviews, CycleReviews, ReportReviews, Written
    <2> QED BY <1>3, <1>4, <2>2, CountStays
  <1>7. CASE ~w.job.dry
    <2> PICK d \in Nat : d = deaths
      BY <1>4
    <2>1. /\ DOMAIN packets' = DOMAIN packets \union {n} /\ packets'[n] = k
          /\ \A i \in DOMAIN packets : packets'[i] = packets[i]
          /\ n \notin DOMAIN packets
      BY <1>7 DEF Adds, MorePackets
    <2>2. ASSUME NEW c \in Cycles
          PROVE  Cardinality(CycleReviews(c))' <= d + (IF Settled(c)' THEN 1 ELSE 0)
      <3> PICK m \in Nat : m = Cardinality(CycleReviews(c))
        BY <1>4, ReviewsType
      <3>1. m <= d + (IF Settled(c) THEN 1 ELSE 0)
        BY <1>4 DEF CountInv
      <3>2. m <= d + (IF Settled(c)' THEN 1 ELSE 0)
        BY <1>3, <3>1
      <3> QED BY <1>5, <3>2
    <2>3. ASSUME NEW u \in Nat
          PROVE  Cardinality(ReportReviews(u))' <= d + (IF Kept(u)' THEN 2 ELSE 1)
      <3> PICK m \in Nat : m = Cardinality(ReportReviews(u))
        BY <1>4, ReviewsType
      <3>1. m <= d + (IF Kept(u) THEN 2 ELSE 1)
        BY <1>4 DEF CountInv
      <3>2. CASE u # k.report
        <4>1. ReportReviews(u)' = ReportReviews(u)
          BY <2>1, <3>2 DEF ReportReviews, Written
        <4>2. m <= d + (IF Kept(u)' THEN 2 ELSE 1)
          BY <1>3, <3>1
        <4> QED BY <4>1, <4>2
      <3>3. CASE u = k.report
        <4> PICK S : S = ReportReviews(u)
          OBVIOUS
        <4>1. IsFiniteSet(S)
          BY <1>4, WrittenFinite DEF ReportReviews, Written
        <4> PICK T : T = ReportReviews(u)'
          OBVIOUS
        <4>2. T \subseteq S \union {n}
          BY <2>1 DEF ReportReviews, Written
        <4>3. Cardinality(T) <= m + 1 /\ Cardinality(T) \in Nat
          BY <4>1, <4>2, OneMore
        <4>4. CASE u = w.report
          <5>1. ~Kept(u)
            <6>1. saved.report <= w.state.report
              BY <1>7 DEF Extends, Onward
            <6> QED BY <1>1, <1>2, <4>4, <6>1 DEF Kept, Passes
          <5>2. Kept(u)'
            <6>1. p \in holders' /\ watcher'[p] = v /\ Writes(v) /\ u <= v.state.report
              BY <1>1, <1>7, <4>4 DEF Passes, IInv, LockInv, Onward
            <6> QED BY <6>1 DEF Kept, Writes
          <5>3. Cardinality(T) <= d + 2
            BY <3>1, <4>3, <5>1
          <5> QED BY <5>2, <5>3
        <4>5. CASE u # w.report
          <5>1. w.report < u
            BY <1>1, <3>3, <4>5
          <5>2. S = {}
            <6>1. \A i \in Written("strategy_report_changed") : packets[i].report # u
              BY <1>1, <1>4, <5>1 DEF Written, PacketRec
            <6> QED BY <6>1 DEF ReportReviews
          <5>3. m = 0
            BY <5>2, FS_EmptySet
          <5>4. Cardinality(T) <= d + 1
            BY <4>3, <5>3
          <5>5. Cardinality(T) <= d + (IF Kept(u)' THEN 2 ELSE 1)
            BY <4>3, <5>4
          <5> QED BY <5>5
        <4> QED BY <4>4, <4>5
      <3> QED BY <3>2, <3>3
    <2> QED BY <1>4, <2>2, <2>3 DEF CountInv
  <1> QED BY <1>6, <1>7

LEMMA ReviewReportInv ==
  ASSUME IInv, NEW p \in Watchers, ReviewReport(p)
  PROVE  IInv'
  <1> PICK w : w = watcher[p]
    OBVIOUS
  <1>1. /\ w \in Process /\ Fits(w.state) /\ Holds(w) /\ w.state \in StateRec
        /\ packets \in Seq(PacketRec) /\ archived \subseteq Files /\ report \in Nat
        /\ saved \in StateRec /\ p \in holders /\ w.pc = "report_body"
    BY InPass DEF ReviewReport, At
  <1>2. /\ WorldSame /\ saved' = saved /\ latest' = latest /\ archived' = archived
        /\ holders' = holders /\ deaths' = deaths
    <2>1. world' = world
      BY DEF ReviewReport
    <2>2. WorldSame
      BY <2>1, WorldIsSame
    <2> QED BY <2>2 DEF ReviewReport
  <1>3. Reads(w) /\ w.pc \notin {"load", "story", "claims"} /\ Hashes(w)
    BY <1>1 DEF Holds
  <1>4. w.report \in Nat /\ w.state.report < w.report /\ w.report <= report
    BY <1>1, <1>3 DEF Hashes, Process
  <1> PICK n : n = Len(packets) + 1
    OBVIOUS
  <1> PICK r \in Nat : r = report
    BY <1>1
  <1> PICK h \in Nat : h = w.report
    BY <1>4
  <1> PICK b : b = Packet("strategy_report_changed", w)
    OBVIOUS
  <1> PICK k : k = [b EXCEPT !.report = r]
    OBVIOUS
  <1>5. b \in PacketRec /\ b.kind = "strategy_report_changed" /\ ~b.astray
    <2>1. /\ b \in PacketRec /\ b.kind = "strategy_report_changed"
          /\ b.astray = (w.quiet /\ (Drifted \/ w.story # prd.active))
      BY <1>1, PacketType DEF Kinds
    <2>2. Routes(w) /\ w.pc \in {"promotion", "report_body", "review"}
      BY <1>1 DEF Holds
    <2>3. ~(w.quiet /\ (Drifted \/ w.story # prd.active))
      BY <1>3, <2>2, NotAstray, Zenon
    <2> QED BY <2>1, <2>3
  <1>6. k \in PacketRec /\ k.kind = "strategy_report_changed" /\ k.report = r /\ ~k.astray
    BY <1>5 DEF PacketRec
  <1>7. Adds(w, k, n)
    BY <1>1, <1>6, PacketAdded DEF ReviewReport
  <1> PICK t : t = [w.state EXCEPT !.report = h]
    OBVIOUS
  <1>8. /\ t \in StateRec /\ t.offset = w.state.offset /\ t.events = w.state.events
        /\ t.bundle = w.state.bundle /\ t.report = h /\ t.seen = w.state.seen
        /\ t.drift = w.state.drift /\ t.audit = w.state.audit
    BY <1>1 DEF StateRec
  <1> PICK v : v = [w EXCEPT !.pc = "cycles", !.state = t]
    OBVIOUS
  <1>9. v \in Process
    BY <1>1, <1>8 DEF Process, Pc
  <1>10. /\ v.pc = "cycles" /\ v.state = t /\ v.job = w.job /\ v.report = w.report
         /\ v.story = w.story /\ v.quiet = w.quiet /\ v.claims = w.claims
    BY <1>1 DEF Process
  <1>11. Passes(p, w, v)
    <2>1. watcher' = [watcher EXCEPT ![p] = v]
      BY DEF ReviewReport
    <2> QED BY <1>1, <1>2, <1>9, <1>10, <2>1 DEF Passes
  <1>12. Reads(v)
    <2>1. SameReading(w, v)
      BY <1>10 DEF SameReading
    <2> QED BY <1>3, <2>1, ReadsOn
  <1>13. Signs(v) /\ Routes(v) /\ Lists(v) /\ v.report <= report
    BY <1>1, <1>10 DEF Holds, Signs, Routes, Lists, Hashes
  <1>14. Fits(t)
    BY <1>1, <1>4, <1>8 DEF Fits
  <1>15. Writes(w) = Writes(v) /\ (w.job.dry <=> ~Writes(w))
    BY <1>1, <1>10 DEF Writes
  <1>16. Writes(w) => Answered(w.state) /\ Extends(saved, w.state)
    BY <1>1 DEF Holds, Carries
  <1>17. ASSUME Writes(v) PROVE Answered(t)' /\ Extends(saved, t)
    <2>1. ~w.job.dry /\ Answered(w.state) /\ Extends(saved, w.state)
      BY <1>15, <1>16, <1>17
    <2> PICK s : s = w.state
      OBVIOUS
    <2>2. Answered(s)'
      BY <1>7, <2>1, AnsweredStays DEF Adds
    <2>3. n \in Written("strategy_report_changed")' /\ packets'[n].report = r
      BY <1>6, <1>7, <2>1 DEF Written, Adds
    <2>4. ReportOn(h)'
      BY <1>4, <2>3 DEF ReportOn
    <2>5. DriftOn(s.drift)' /\ BundleOn(s.bundle)' /\ SeenOn(s.seen)' /\ AuditOn(s.audit)'
      BY <2>2, AnsweredParts
    <2>6. Answered(t)'
      BY <1>8, <2>4, <2>5, AnsweredParts
    <2>7. saved.report <= w.state.report /\ saved.report \in Nat /\ w.state.report \in Nat
      BY <1>1, <2>1 DEF Extends, StateRec
    <2>8. saved.report <= h
      BY <1>4, <2>7
    <2> QED BY <1>8, <2>1, <2>6, <2>8 DEF Extends
  <1>18. CountInv'
    <2>1. k.kind = "strategy_report_changed" /\ k.report \in Nat /\ w.report <= k.report
      BY <1>4, <1>6
    <2>2. Onward(w, v)
      BY <1>15, <1>16 DEF Onward
    <2>3. v.state.seen = w.state.seen /\ v.state.report = w.report
      BY <1>8, <1>10
    <2> QED BY <1>1, <1>3, <1>7, <1>11, <2>1, <2>2, <2>3, ReportCount
  <1>19. PacketOK(k)
    BY <1>1, <1>6 DEF PacketOK
  <1>20. Ahead(v)
    BY <1>10, <1>14, <1>17 DEF Ahead
  <1>21. v.pc \notin {"latest", "report_body"}
    BY <1>10
  <1> QED BY <1>7, <1>11, <1>12, <1>13, <1>18, <1>19, <1>20, <1>21, PacketStep

LEMMA ListCyclesInv ==
  ASSUME IInv, NEW p \in Watchers, ListCycles(p)
  PROVE  IInv'
  <1> PICK w : w = watcher[p]
    OBVIOUS
  <1>1. /\ w \in Process /\ Fits(w.state) /\ Holds(w) /\ w.state \in StateRec
        /\ archived \subseteq Files /\ p \in holders /\ w.pc = "cycles"
    BY InPass DEF ListCycles, At
  <1> PICK todo : todo = Unreviewed(w.state)
    OBVIOUS
  <1>2. todo \subseteq Cycles /\ todo \intersect w.state.seen = {}
    BY DEF Unreviewed, IInv, WorldInv
  <1> PICK next \in {"save", "review"} : next = IF todo = {} THEN "save" ELSE "review"
    OBVIOUS
  <1> PICK v : v = [w EXCEPT !.pc = next, !.todo = todo]
    OBVIOUS
  <1>3. v \in Process
    BY <1>1, <1>2 DEF Process, Pc
  <1>4. /\ v.pc = next /\ v.state = w.state /\ v.job = w.job /\ v.report = w.report
        /\ v.story = w.story /\ v.quiet = w.quiet /\ v.claims = w.claims /\ v.todo = todo
    BY <1>1 DEF Process
  <1>5. Passes(p, w, v) /\ packets' = packets
    <2>1. watcher' = [watcher EXCEPT ![p] = v]
      BY DEF ListCycles
    <2>2. world' = world /\ files' = files /\ holders' = holders /\ deaths' = deaths
      BY DEF ListCycles
    <2> QED BY <1>1, <1>3, <1>4, <2>1, <2>2, WorldIsSame DEF Passes, files
  <1>6. Reads(v)
    <2>1. Reads(w) /\ w.pc \notin {"load", "story", "claims"}
      BY <1>1 DEF Holds
    <2>2. SameReading(w, v)
      BY <1>4 DEF SameReading
    <2> QED BY <2>1, <2>2, ReadsOn
  <1>7. Signs(v) /\ Routes(v) /\ Lists(v) /\ Hashes(v)
    BY <1>1, <1>2, <1>4 DEF Holds, Signs, Routes, Lists, Hashes
  <1>8. w.state.report <= w.state.report
    BY <1>1 DEF StateRec
  <1>9. Writes(v) => Answered(v.state) /\ Extends(saved, v.state)
    BY <1>1, <1>4 DEF Holds, Carries, Writes
  <1>10. Writes(w) => Writes(v)
    BY <1>4 DEF Writes
  <1> QED BY <1>1, <1>4, <1>5, <1>6, <1>7, <1>8, <1>9, <1>10, SilentStep

(* A cycle that is on the list of a pass has no review that counts.        *)
LEMMA CycleCount ==
  ASSUME IInv, NEW p, NEW w, NEW v, Passes(p, w, v), NEW k, NEW n, Adds(w, k, n),
         NEW c \in Cycles, k.kind = "paper_cycle_closed", k.cycles = {c},
         c \notin w.state.seen, Onward(w, v),
         v.state.seen = w.state.seen \union {c}, v.state.report = w.state.report
  PROVE  CountInv'
  <1>1. \A q \in holders : q = p
    BY DEF IInv, LockInv, Passes
  <1>2. /\ \A x \in Cycles : Settled(x) => Settled(x)'
        /\ \A u \in Nat : Kept(u) => Kept(u)'
    <2>1. w.state.report <= w.state.report
      BY DEF Passes, Process, StateRec
    <2>2. Writes(w) => /\ Writes(v) /\ w.state.seen \subseteq v.state.seen
                       /\ w.state.report <= v.state.report
      BY <2>1 DEF Onward
    <2> QED BY <2>2, SettledStays
  <1>3. /\ CountInv /\ packets \in Seq(PacketRec) /\ deaths \in Nat /\ deaths' = deaths
    BY Bounds DEF IInv, WorldInv, FilesInv, Passes
  <1>4. \A u \in Nat : ReportReviews(u)' = ReportReviews(u)
    BY DEF ReportReviews, Written, Adds, MorePackets
  <1>5. CASE w.job.dry
    <2>1. packets' = packets
      BY <1>5 DEF Adds
    <2>2. SameReviews
      BY <2>1 DEF SameReviews, CycleReviews, ReportReviews, Written
    <2> QED BY <1>2, <1>3, <2>2, CountStays
  <1>6. CASE ~w.job.dry
    <2> PICK d \in Nat : d = deaths
      BY <1>3
    <2>1. /\ DOMAIN packets' = DOMAIN packets \union {n} /\ packets'[n] = k
          /\ \A i \in DOMAIN packets : packets'[i] = packets[i]
          /\ n \notin DOMAIN packets
      BY <1>6 DEF Adds, MorePackets
    <2>2. ASSUME NEW u \in Nat
          PROVE  Cardinality(ReportReviews(u))' <= d + (IF Kept(u)' THEN 2 ELSE 1)
      <3> PICK m \in Nat : m = Cardinality(ReportReviews(u))
        BY <1>3, ReviewsType
      <3>1. m <= d + (IF Kept(u) THEN 2 ELSE 1)
        BY <1>3 DEF CountInv
      <3>2. m <= d + (IF Kept(u)' THEN 2 ELSE 1)
        BY <1>2, <3>1
      <3> QED BY <1>4, <3>2
    <2>3. ASSUME NEW x \in Cycles
          PROVE  Cardinality(CycleReviews(x))' <= d + (IF Settled(x)' THEN 1 ELSE 0)
      <3> PICK m \in Nat : m = Cardinality(CycleReviews(x))
        BY <1>3, ReviewsType
      <3>1. m <= d + (IF Settled(x) THEN 1 ELSE 0)
        BY <1>3 DEF CountInv
      <3>2. CASE x # c
        <4>1. CycleReviews(x)' = CycleReviews(x)
          BY <2>1, <3>2 DEF CycleReviews, Written
        <4>2. m <= d + (IF Settled(x)' THEN 1 ELSE 0)
          BY <1>2, <3>1
        <4> QED BY <4>1, <4>2
      <3>3. CASE x = c
        <4> PICK S : S = CycleReviews(x)
          OBVIOUS
        <4>1. IsFiniteSet(S)
          BY <1>3, WrittenFinite DEF CycleReviews, Written
        <4> PICK T : T = CycleReviews(x)'
          OBVIOUS
        <4>2. T \subseteq S \union {n}
          BY <2>1 DEF CycleReviews, Written
        <4>3. Cardinality(T) <= m + 1 /\ Cardinality(T) \in Nat
          BY <4>1, <4>2, OneMore
        <4>4. ~Settled(x)
          <5>1. saved.seen \subseteq w.state.seen
            BY <1>6 DEF Extends, Onward
          <5> QED BY <1>1, <3>3, <5>1 DEF Settled, Passes
        <4>5. Settled(x)'
          <5>1. p \in holders' /\ watcher'[p] = v /\ Writes(v) /\ x \in v.state.seen
            BY <1>6, <3>3 DEF Passes, IInv, LockInv, Onward
          <5> QED BY <5>1 DEF Settled, Writes
        <4>6. Cardinality(T) <= d + 1
          BY <3>1, <4>3, <4>4
        <4> QED BY <4>5, <4>6
      <3> QED BY <3>2, <3>3
    <2> QED BY <1>3, <2>2, <2>3 DEF CountInv
  <1> QED BY <1>5, <1>6

LEMMA ReviewCycleInv ==
  ASSUME IInv, NEW p \in Watchers, ReviewCycle(p)
  PROVE  IInv'
  <1> PICK w : w = watcher[p]
    OBVIOUS
  <1>1. /\ w \in Process /\ Fits(w.state) /\ Holds(w) /\ w.state \in StateRec
        /\ packets \in Seq(PacketRec) /\ archived \subseteq Files /\ report \in Nat
        /\ saved \in StateRec /\ p \in holders /\ w.pc = "review"
    BY InPass DEF ReviewCycle, At
  <1>2. /\ WorldSame /\ saved' = saved /\ latest' = latest /\ archived' = archived
        /\ holders' = holders /\ deaths' = deaths
    <2>1. world' = world
      BY DEF ReviewCycle
    <2>2. WorldSame
      BY <2>1, WorldIsSame
    <2> QED BY <2>2 DEF ReviewCycle
  <1>3. Reads(w) /\ w.pc \notin {"load", "story", "claims"}
    BY <1>1 DEF Holds
  <1>4. PICK c \in w.todo :
          /\ WritePacket(p, [Packet("paper_cycle_closed", w) EXCEPT !.cycles = {c}])
          /\ watcher' = [watcher EXCEPT ![p] =
               [@ EXCEPT !.pc = IF w.todo = {c} THEN "save" ELSE "review", !.todo = w.todo \ {c},
                         !.state = [w.state EXCEPT !.seen = w.state.seen \union {c}]]]
    BY DEF ReviewCycle
  <1> PICK todo : todo = w.todo \ {c}
    OBVIOUS
  <1> PICK seen : seen = w.state.seen \union {c}
    OBVIOUS
  <1>5. /\ w.todo \subseteq Cycles /\ todo \subseteq Cycles /\ c \in Cycles /\ seen \subseteq Cycles
        /\ w.todo \intersect w.state.seen = {} /\ todo \intersect seen = {}
    BY <1>1 DEF Holds, Lists, Process, StateRec
  <1> PICK next \in {"save", "review"} : next = IF w.todo = {c} THEN "save" ELSE "review"
    OBVIOUS
  <1> PICK n : n = Len(packets) + 1
    OBVIOUS
  <1> PICK b : b = Packet("paper_cycle_closed", w)
    OBVIOUS
  <1> PICK k : k = [b EXCEPT !.cycles = {c}]
    OBVIOUS
  <1>6. b \in PacketRec /\ b.kind = "paper_cycle_closed" /\ b.report = 0 /\ ~b.astray
    <2>1. /\ b \in PacketRec /\ b.kind = "paper_cycle_closed" /\ b.report = 0
          /\ b.astray = (w.quiet /\ (Drifted \/ w.story # prd.active))
      BY <1>1, PacketType DEF Kinds
    <2>2. Routes(w) /\ w.pc \in {"promotion", "report_body", "review"}
      BY <1>1 DEF Holds
    <2>3. ~(w.quiet /\ (Drifted \/ w.story # prd.active))
      BY <1>3, <2>2, NotAstray, Zenon
    <2> QED BY <2>1, <2>3
  <1>7. /\ k \in PacketRec /\ k.kind = "paper_cycle_closed" /\ k.report = 0 /\ ~k.astray
        /\ k.cycles = {c}
    BY <1>5, <1>6 DEF PacketRec
  <1>8. Adds(w, k, n)
    BY <1>1, <1>4, <1>7, PacketAdded
  <1> PICK t : t = [w.state EXCEPT !.seen = seen]
    OBVIOUS
  <1>9. /\ t \in StateRec /\ t.offset = w.state.offset /\ t.events = w.state.events
        /\ t.bundle = w.state.bundle /\ t.report = w.state.report /\ t.seen = seen
        /\ t.drift = w.state.drift /\ t.audit = w.state.audit
    BY <1>1, <1>5 DEF StateRec
  <1> PICK v : v = [w EXCEPT !.pc = next, !.todo = todo, !.state = t]
    OBVIOUS
  <1>10. v \in Process
    <2>1. next \in Pc /\ todo \in SUBSET Cycles /\ t \in StateRec
      BY <1>5, <1>9 DEF Pc
    <2> QED BY <1>1, <2>1 DEF Process
  <1>11. /\ v.pc = next /\ v.state = t /\ v.job = w.job /\ v.report = w.report
         /\ v.story = w.story /\ v.quiet = w.quiet /\ v.claims = w.claims /\ v.todo = todo
    BY <1>1 DEF Process
  <1>12. Passes(p, w, v)
    <2>1. watcher' = [watcher EXCEPT ![p] = v]
      BY <1>4
    <2> QED BY <1>1, <1>2, <1>10, <1>11, <2>1 DEF Passes
  <1>13. Reads(v)
    <2>1. SameReading(w, v)
      BY <1>11 DEF SameReading
    <2> QED BY <1>3, <2>1, ReadsOn
  <1>14. Signs(v) /\ Routes(v) /\ Lists(v) /\ v.report <= report
    BY <1>1, <1>5, <1>9, <1>11 DEF Holds, Signs, Routes, Lists, Hashes
  <1>15. Fits(t)
    BY <1>1, <1>9 DEF Fits
  <1>16. Writes(w) = Writes(v) /\ (w.job.dry <=> ~Writes(w))
    BY <1>1, <1>11 DEF Writes
  <1>17. Writes(w) => Answered(w.state) /\ Extends(saved, w.state)
    BY <1>1 DEF Holds, Carries
  <1>18. ASSUME Writes(v) PROVE Answered(t)' /\ Extends(saved, t)
    <2>1. ~w.job.dry /\ Answered(w.state) /\ Extends(saved, w.state)
      BY <1>16, <1>17, <1>18
    <2> PICK s : s = w.state
      OBVIOUS
    <2>2. Answered(s)'
      BY <1>8, <2>1, AnsweredStays DEF Adds
    <2>3. n \in Written("paper_cycle_closed")' /\ packets'[n].cycles = {c}
      BY <1>7, <1>8, <2>1 DEF Written, Adds
    <2>4. /\ DriftOn(s.drift)' /\ BundleOn(s.bundle)' /\ ReportOn(s.report)'
          /\ SeenOn(s.seen)' /\ AuditOn(s.audit)'
      BY <2>2, AnsweredParts
    <2>5. SeenOn(seen)'
      BY <2>3, <2>4 DEF SeenOn
    <2>6. Answered(t)'
      BY <1>9, <2>4, <2>5, AnsweredParts
    <2> QED BY <1>9, <2>1, <2>6 DEF Extends
  <1>19. CountInv'
    <2>1. c \notin w.state.seen
      BY <1>5
    <2>2. Onward(w, v)
      BY <1>16, <1>17 DEF Onward
    <2>3. v.state.seen = w.state.seen \union {c} /\ v.state.report = w.state.report
      BY <1>9, <1>11
    <2> QED BY <1>5, <1>7, <1>8, <1>12, <2>1, <2>2, <2>3, CycleCount
  <1>20. PacketOK(k)
    BY <1>1, <1>7 DEF PacketOK
  <1>21. Ahead(v)
    BY <1>11, <1>15, <1>18 DEF Ahead
  <1>22. v.pc \notin {"latest", "report_body"}
    BY <1>11
  <1> QED BY <1>8, <1>9, <1>12, <1>13, <1>14, <1>19, <1>20, <1>21, <1>22, PacketStep

-----------------------------------------------------------------------------
(* Steps that save, or take or release the lock.                           *)

LEMMA LockStep ==
  ASSUME IInv, NEW p \in Watchers, NEW v \in Process, Fits(v.state),
         watcher' = [watcher EXCEPT ![p] = v], WorldSame, deaths' \in 0..MaxDeaths,
         holders \subseteq {p}, holders' \subseteq {p}, v.pc = "down" <=> p \notin holders',
         FilesInv', CountInv', p \in holders' => Holds(v)'
  PROVE  IInv'
  <1>1. WorldInv'
    BY DEF IInv, WorldInv, WorldSame
  <1>2. /\ watcher' \in [Watchers -> Process] /\ watcher'[p] = v
        /\ \A q \in Watchers \ {p} : watcher'[q] = watcher[q]
    BY DEF IInv, LockInv
  <1>3. LockInv'
    BY <1>2 DEF IInv, LockInv
  <1>4. ASSUME NEW q \in Watchers
        PROVE  Fits(watcher[q].state)' /\ (q \in holders' => Holds(watcher[q])')
    <2>1. CASE q = p
      <3>1. Fits(v.state)'
        BY DEF Fits, WorldSame
      <3>2. Fits(watcher[q].state)'
        BY <1>2, <2>1, <3>1 DEF Fits
      <3>3. q \in holders' => Holds(watcher[q])'
        BY <1>2, <2>1
        DEF Holds, Reads, Signs, Routes, Hashes, Lists, Carries, Writes
      <3> QED BY <3>2, <3>3
    <2>2. CASE q # p
      BY <1>2, <2>2 DEF IInv, PassInv, Fits, WorldSame
    <2> QED BY <2>1, <2>2
  <1> QED BY <1>1, <1>3, <1>4 DEF IInv, PassInv

(* The files, when at most the state and the counters shown change.        *)
LEMMA SavedFiles ==
  ASSUME IInv, WorldSame, packets' = packets, archived' = archived,
         saved' \in StateRec, Fits(saved'), Answered(saved'),
         latest' \in [offset : Nat, events : Nat],
         latest'.offset <= mailbox, latest'.events <= saved'.events
  PROVE  FilesInv'
  <1>1. Answered(saved)'
    BY DEF Answered, Written
  <1>2. Fits(saved)' /\ latest'.offset <= mailbox'
    BY DEF Fits, WorldSame
  <1>3. \A i \in DOMAIN packets' : PacketOK(packets[i])'
    BY DEF IInv, FilesInv, PacketOK, WorldSame
  <1> QED BY <1>1, <1>2, <1>3 DEF IInv, FilesInv

LEMMA SavedCount ==
  ASSUME IInv, packets' = packets,
         \/ deaths' = deaths /\ (\A c \in Cycles : Settled(c) => Settled(c)')
                             /\ (\A v \in Nat : Kept(v) => Kept(v)')
         \/ deaths' = deaths + 1
  PROVE  CountInv'
  <1>1. SameReviews
    BY DEF SameReviews, CycleReviews, ReportReviews, Written
  <1>2. deaths \in Nat /\ packets \in Seq(PacketRec) /\ CountInv
    BY Bounds DEF IInv, WorldInv, FilesInv
  <1>3. deaths' \in Nat
    BY <1>2
  <1> QED BY <1>1, <1>2, <1>3, CountStays

LEMMA WriteStateInv ==
  ASSUME IInv, NEW p \in Watchers, WriteState(p)
  PROVE  IInv'
  <1> PICK w : w = watcher[p]
    OBVIOUS
  <1>1. /\ w \in Process /\ Fits(w.state) /\ Holds(w) /\ w.state \in StateRec
        /\ saved \in StateRec /\ Fits(saved) /\ Answered(saved)
        /\ report \in Nat /\ mailbox \in Nat /\ p \in holders /\ holders \subseteq {p} /\ w.pc = "save"
    BY InPass DEF WriteState, At
  <1>2. /\ WorldSame /\ latest' = latest /\ packets' = packets /\ archived' = archived
        /\ holders' = holders /\ deaths' = deaths
    <2>1. world' = world
      BY DEF WriteState
    <2>2. WorldSame
      BY <2>1, WorldIsSame
    <2> QED BY <2>2 DEF WriteState
  <1> PICK v : v = [w EXCEPT !.pc = "latest"]
    OBVIOUS
  <1>3. v \in Process
    BY <1>1 DEF Process, Pc
  <1>4. /\ v.pc = "latest" /\ v.state = w.state /\ v.job = w.job /\ v.report = w.report
        /\ v.story = w.story /\ v.quiet = w.quiet /\ v.claims = w.claims
    BY <1>1 DEF Process
  <1>5. watcher' = [watcher EXCEPT ![p] = v]
    BY DEF WriteState
  <1>6. Writes(w) = Writes(v) /\ (w.job.dry <=> ~Writes(w))
    BY <1>1, <1>4 DEF Writes
  <1>7. /\ w.job.dry => saved' = saved
        /\ ~w.job.dry => saved' = w.state /\ Answered(w.state) /\ Extends(saved, w.state)
    BY <1>1, <1>6 DEF WriteState, StateToSave, Holds, Carries
  <1>8. /\ saved' \in StateRec /\ Fits(saved') /\ Answered(saved')
        /\ saved.events <= saved'.events /\ saved.report <= saved'.report
        /\ saved.seen \subseteq saved'.seen
    <2>1. CASE w.job.dry
      <3>1. saved.events <= saved.events /\ saved.report <= saved.report
        BY <1>1 DEF StateRec
      <3> QED BY <1>1, <1>7, <2>1, <3>1
    <2>2. CASE ~w.job.dry
      BY <1>1, <1>7, <2>2 DEF Extends
    <2> QED BY <2>1, <2>2
  <1>9. FilesInv'
    <2>1. /\ latest \in [offset : Nat, events : Nat] /\ latest.offset <= mailbox
          /\ latest.events <= saved.events
      BY DEF IInv, FilesInv
    <2>2. latest.events \in Nat /\ saved.events \in Nat /\ saved'.events \in Nat
      BY <1>1, <1>8, <2>1 DEF StateRec
    <2>3. latest.events <= saved'.events
      BY <1>8, <2>1, <2>2
    <2> QED BY <1>2, <1>8, <2>1, <2>3, SavedFiles
  <1>10. watcher'[p] = v /\ p \in holders'
    BY <1>1, <1>2, <1>5 DEF IInv, LockInv
  <1>11. CountInv'
    <2>1. ASSUME NEW c \in Cycles, Settled(c) PROVE Settled(c)'
      <3>1. c \in saved.seen \/ (Writes(w) /\ c \in w.state.seen)
        BY <1>1, <2>1 DEF Settled
      <3>2. c \in saved'.seen
        BY <1>6, <1>7, <1>8, <3>1
      <3> QED BY <3>2 DEF Settled
    <2>2. ASSUME NEW u \in Nat, Kept(u) PROVE Kept(u)'
      <3>1. u <= saved.report \/ (Writes(w) /\ u <= w.state.report)
        BY <1>1, <2>2 DEF Kept
      <3>2. saved.report \in Nat /\ saved'.report \in Nat
        BY <1>1, <1>8 DEF StateRec
      <3>3. u <= saved'.report
        <4>1. CASE u <= saved.report
          BY <1>8, <3>2, <4>1
        <4>2. CASE Writes(w) /\ u <= w.state.report
          BY <1>6, <1>7, <4>2
        <4> QED BY <3>1, <4>1, <4>2
      <3> QED BY <3>3 DEF Kept
    <2> QED BY <1>2, <2>1, <2>2, SavedCount
  <1>12. Holds(v)'
    <2>1. Reads(v)
      <3>1. Reads(w) /\ w.pc \notin {"load", "story", "claims"}
        BY <1>1 DEF Holds
      <3>2. SameReading(w, v)
        BY <1>4 DEF SameReading
      <3> QED BY <3>1, <3>2, ReadsOn
    <2>2. Reads(v)'
      BY <1>2, <2>1 DEF Reads, WorldSame, StoryFilesWhole
    <2>3. Signs(v)' /\ Routes(v)' /\ Lists(v)' /\ Hashes(v)'
      BY <1>1, <1>2, <1>4 DEF Holds, Signs, Routes, Lists, Hashes, WorldSame
    <2>4. Writes(v)' = Writes(v)
      BY DEF Writes
    <2>5. Writes(v) => saved' = v.state /\ Answered(v.state)
      BY <1>4, <1>6, <1>7
    <2>6. Extends(v.state, v.state)
      BY <1>1, <1>4 DEF Extends, StateRec
    <2>7. Carries(v)'
      <3> SUFFICES ASSUME Writes(v)
                   PROVE Answered(v.state)' /\ Extends(saved', v.state) /\ saved' = v.state
        BY <2>4 DEF Carries, Extends
      <3>1. Answered(v.state)'
        BY <1>2, <2>5 DEF Answered, Written
      <3> QED BY <2>5, <2>6, <3>1
    <2> QED BY <2>2, <2>3, <2>7 DEF Holds
  <1>13. deaths' \in 0..MaxDeaths /\ holders' \subseteq {p} /\ (v.pc = "down" <=> p \notin holders')
    BY <1>1, <1>2, <1>4 DEF IInv, WorldInv
  <1> QED BY <1>1, <1>2, <1>3, <1>4, <1>5, <1>9, <1>11, <1>12, <1>13, LockStep

(* A process that is down, or at the start of a pass.                      *)
LEMMA Fresh ==
  ASSUME report \in Nat, mailbox \in Nat, report' \in Nat, NEW job \in Job, NEW v,
         v = Down \/ v = [Down EXCEPT !.pc = "load", !.job = job]
  PROVE  /\ v \in Process /\ Fits(v.state)
         /\ v # Down => Holds(v)'
         /\ v = Down => v.pc = "down"
         /\ v # Down => v.pc = "load"
  <1>1. /\ v \in Process /\ v.pc \in {"down", "load"} /\ v.state = EmptyState
        /\ v.quiet = FALSE /\ v.report = 0
        /\ v = Down => v.pc = "down"
        /\ v # Down => v.pc = "load"
    <2>1. CASE v = Down
      BY <2>1, EmptyTypes
    <2>2. CASE v = [Down EXCEPT !.pc = "load", !.job = job]
      <3>1. v \in Process /\ v.pc = "load"
        BY <2>2, EmptyTypes DEF Process, Pc
      <3>2. v.state = Down.state /\ v.quiet = Down.quiet /\ v.report = Down.report
        BY <2>2, EmptyTypes DEF Process
      <3> QED BY <3>1, <3>2, EmptyTypes
    <2> QED BY <2>1, <2>2
  <1>2. Fits(v.state)
    BY <1>1, EmptyFits
  <1>3. Reads(v)' /\ Signs(v)' /\ Routes(v)' /\ Lists(v)'
    BY <1>1 DEF Reads, Signs, Routes, Lists
  <1>4. Hashes(v)'
    BY <1>1 DEF Hashes
  <1>5. CASE v.pc = "load"
    <2>1. Carries(v)'
      BY <1>5 DEF Carries, Writes
    <2> QED BY <1>1, <1>2, <1>3, <1>4, <2>1 DEF Holds
  <1> QED BY <1>1, <1>2, <1>5

LEMMA WriteLatestInv ==
  ASSUME IInv, NEW p \in Watchers, WriteLatest(p)
  PROVE  IInv'
  <1> PICK w : w = watcher[p]
    OBVIOUS
  <1>1. /\ w \in Process /\ Holds(w) /\ w.state \in StateRec /\ Fits(w.state) /\ w.job \in Job
        /\ saved \in StateRec /\ Fits(saved) /\ Answered(saved)
        /\ report \in Nat /\ mailbox \in Nat /\ p \in holders /\ holders \subseteq {p} /\ w.pc = "latest"
    BY InPass DEF WriteLatest, At, Process
  <1>2. /\ WorldSame /\ saved' = saved /\ packets' = packets /\ archived' = archived
        /\ deaths' = deaths
    <2>1. world' = world
      BY DEF WriteLatest
    <2>2. WorldSame
      BY <2>1, WorldIsSame
    <2> QED BY <2>2 DEF WriteLatest
  <1> PICK v : v = IF w.job.loop THEN [Down EXCEPT !.pc = "load", !.job = w.job] ELSE Down
    OBVIOUS
  <1>3. /\ v \in Process /\ Fits(v.state)
        /\ v # Down => Holds(v)'
        /\ v = Down => v.pc = "down"
        /\ v # Down => v.pc = "load"
    BY <1>1, <1>2, Fresh DEF WorldSame
  <1>4. w.job.loop => v # Down
    BY EmptyTypes DEF Process
  <1>5. watcher' = [watcher EXCEPT ![p] = v]
    BY DEF WriteLatest
  <1>6. holders' = IF w.job.loop THEN holders ELSE holders \ {p}
    BY DEF WriteLatest
  <1>7. Writes(w) => saved = w.state
    BY <1>1 DEF Holds, Carries
  <1>8. FilesInv'
    <2>1. CASE w.job.dry
      <3>1. latest' = latest
        BY <2>1 DEF WriteLatest
      <3> QED BY <1>1, <1>2, <3>1, SavedFiles DEF IInv, FilesInv
    <2>2. CASE ~w.job.dry
      <3>1. saved = w.state
        BY <1>1, <1>7, <2>2 DEF Writes
      <3>2. latest' = [offset |-> saved.offset, events |-> saved.events]
        BY <2>2, <3>1 DEF WriteLatest
      <3>3. /\ latest' \in [offset : Nat, events : Nat] /\ latest'.offset <= mailbox
            /\ latest'.events <= saved.events
        BY <1>1, <3>2 DEF StateRec, Fits
      <3> QED BY <1>1, <1>2, <3>3, SavedFiles
    <2> QED BY <2>1, <2>2
  <1>9. CountInv'
    <2>1. ASSUME NEW c \in Cycles, Settled(c) PROVE Settled(c)'
      BY <1>1, <1>2, <1>7, <2>1 DEF Settled
    <2>2. ASSUME NEW u \in Nat, Kept(u) PROVE Kept(u)'
      BY <1>1, <1>2, <1>7, <2>2 DEF Kept
    <2> QED BY <1>2, <2>1, <2>2, SavedCount
  <1>10. v.pc = "down" <=> p \notin holders'
    BY <1>1, <1>3, <1>4, <1>6
  <1>11. p \in holders' => Holds(v)'
    <2>1. v = Down => p \notin holders'
      BY <1>3, <1>10
    <2>2. v # Down => Holds(v)'
      BY <1>3
    <2> QED BY <2>1, <2>2
  <1>12. deaths' \in 0..MaxDeaths /\ holders' \subseteq {p}
    BY <1>1, <1>2, <1>6 DEF IInv, WorldInv
  <1>13. v \in Process /\ Fits(v.state) /\ holders \subseteq {p} /\ WorldSame
    BY <1>1, <1>2, <1>3
  <1> QED BY <1>5, <1>8, <1>9, <1>10, <1>11, <1>12, <1>13, LockStep

LEMMA StartInv ==
  ASSUME IInv, NEW p \in Watchers, Start(p)
  PROVE  IInv'
  <1>1. PICK job \in Jobs[p] :
          watcher' = [watcher EXCEPT ![p] = [Down EXCEPT !.pc = "load", !.job = job]]
    BY DEF Start
  <1>2. job \in Job
    BY WatchAssumption DEF Job
  <1>3. /\ WorldSame /\ files' = files /\ deaths' = deaths
        /\ holders = {} /\ holders' = {p}
    BY WorldIsSame DEF Start, LockFree
  <1>4. saved' = saved /\ latest' = latest /\ packets' = packets /\ archived' = archived
    BY <1>3 DEF files
  <1> PICK v : v = [Down EXCEPT !.pc = "load", !.job = job]
    OBVIOUS
  <1>5. report \in Nat /\ mailbox \in Nat /\ report' \in Nat /\ deaths' \in 0..MaxDeaths
    BY <1>3 DEF IInv, WorldInv, WorldSame
  <1>6. v.pc = "load" /\ v # Down
    BY EmptyTypes DEF Process
  <1>7. v \in Process /\ Fits(v.state) /\ Holds(v)'
    BY <1>2, <1>5, <1>6, Fresh
  <1>8. FilesInv'
    BY <1>3, <1>4, SavedFiles DEF IInv, FilesInv
  <1>9. CountInv'
    <2>1. ASSUME NEW c \in Cycles, Settled(c) PROVE Settled(c)'
      BY <1>3, <1>4, <2>1 DEF Settled
    <2>2. ASSUME NEW u \in Nat, Kept(u) PROVE Kept(u)'
      BY <1>3, <1>4, <2>2 DEF Kept
    <2> QED BY <1>3, <1>4, <2>1, <2>2, SavedCount
  <1> QED BY <1>1, <1>3, <1>5, <1>6, <1>7, <1>8, <1>9, LockStep

LEMMA DieInv ==
  ASSUME IInv, NEW p \in Watchers, Die(p)
  PROVE  IInv'
  <1>1. /\ WorldSame /\ files' = files /\ deaths' = deaths + 1 /\ deaths < MaxDeaths
        /\ p \in holders /\ holders' = holders \ {p} /\ watcher' = [watcher EXCEPT ![p] = Down]
    BY WorldIsSame DEF Die
  <1>2. saved' = saved /\ latest' = latest /\ packets' = packets /\ archived' = archived
    BY <1>1 DEF files
  <1>3. report \in Nat /\ mailbox \in Nat /\ deaths' \in 0..MaxDeaths
    BY <1>1, Bounds DEF IInv, WorldInv
  <1>4. holders \subseteq {p} /\ holders' = {}
    BY <1>1 DEF IInv, LockInv
  <1>5. Down \in Process /\ Fits(Down.state) /\ Down.pc = "down"
    BY <1>3, EmptyTypes, EmptyFits
  <1>6. FilesInv'
    BY <1>1, <1>2, SavedFiles DEF IInv, FilesInv
  <1>7. CountInv'
    BY <1>1, <1>2, SavedCount
  <1> QED BY <1>1, <1>3, <1>4, <1>5, <1>6, <1>7, LockStep

LEMMA IdleInv ==
  ASSUME IInv, UNCHANGED vars
  PROVE  IInv'
  <1>1. /\ WorldSame /\ saved' = saved /\ latest' = latest /\ packets' = packets
        /\ archived' = archived /\ holders' = holders /\ watcher' = watcher /\ deaths' = deaths
    BY DEF vars, world, files, WorldSame
  <1>2. WorldInv' /\ LockInv'
    BY <1>1 DEF IInv, WorldInv, LockInv, WorldSame
  <1>3. FilesInv'
    BY <1>1, SavedFiles DEF IInv, FilesInv
  <1>4. CountInv'
    <2>1. ASSUME NEW c \in Cycles, Settled(c) PROVE Settled(c)'
      BY <1>1, <2>1 DEF Settled, Writes
    <2>2. ASSUME NEW u \in Nat, Kept(u) PROVE Kept(u)'
      BY <1>1, <2>2 DEF Kept, Writes
    <2> QED BY <1>1, <2>1, <2>2, SavedCount
  <1>5. PassInv'
    <2> SUFFICES ASSUME NEW p \in Watchers
                 PROVE  Fits(watcher[p].state)' /\ (p \in holders' => Holds(watcher[p])')
      BY DEF PassInv
    <2>1. Fits(watcher[p].state)'
      BY <1>1 DEF IInv, PassInv, Fits, WorldSame
    <2>2. ASSUME p \in holders PROVE Holds(watcher[p])'
      <3>1. /\ Reads(watcher[p]) /\ Signs(watcher[p]) /\ Routes(watcher[p])
            /\ Hashes(watcher[p]) /\ Lists(watcher[p]) /\ Carries(watcher[p])
        BY <2>2 DEF IInv, PassInv, Holds
      <3>2. Reads(watcher[p])'
        BY <1>1, <3>1 DEF Reads, StoryFilesWhole, WorldSame
      <3>3. Signs(watcher[p])' /\ Routes(watcher[p])' /\ Lists(watcher[p])'
        BY <1>1, <3>1 DEF Signs, Routes, Lists
      <3>4. Hashes(watcher[p])'
        BY <1>1, <3>1 DEF Hashes, Written, WorldSame
      <3>5. Carries(watcher[p])'
        BY <1>1, <3>1 DEF Carries, Writes, Answered, Written, Extends
      <3> QED BY <3>2, <3>3, <3>4, <3>5 DEF Holds
    <2> QED BY <1>1, <2>1, <2>2
  <1> QED BY <1>2, <1>3, <1>4, <1>5 DEF IInv

LEMMA StepInv == IInv /\ [Next]_vars => IInv'
  <1> SUFFICES ASSUME IInv, [Next]_vars PROVE IInv'
    OBVIOUS
  <1>1. CASE Write
    BY <1>1, WriteInv
  <1>2. ASSUME NEW p \in Watchers, Start(p) \/ Die(p) PROVE IInv'
    BY <1>2, StartInv, DieInv
  <1>3. ASSUME NEW p \in Watchers, RunOnce(p) PROVE IInv'
    BY <1>3, LoadInv, ReadStoryInv, ReadClaimsInv, ReadHashesInv, AuditInv, TruthDriftInv,
       StoryPromotionInv, HashReportInv, ReviewReportInv, ListCyclesInv, ReviewCycleInv,
       WriteStateInv, WriteLatestInv DEF RunOnce
  <1>4. CASE UNCHANGED vars
    BY <1>4, IdleInv
  <1> QED BY <1>1, <1>2, <1>3, <1>4 DEF Next

(* No writer, pass, death or start breaks the invariant.                   *)
THEOREM Invariance == Spec => []IInv
  BY InitInv, StepInv, PTL DEF Spec

-----------------------------------------------------------------------------
(* What follows.                                                           *)

LEMMA StateShape ==
  ASSUME WorldInv, NEW s \in StateRec, Fits(s)
  PROVE  StateType(s)
  <1>1. s.drift.claims \in Claims
    BY DEF StateRec, Signature
  <1>2. DOMAIN s.drift.claims = Receipts
    BY <1>1 DEF Claims
  <1>3. s.bundle.story \in Stories \union {""}
    BY DEF StateRec, BundleRec, Story
  <1>4. /\ s.offset \in 0..mailbox /\ s.events \in Nat /\ 2 * s.events <= s.offset
        /\ s.report \in 0..report /\ s.seen \subseteq Cycles /\ s.audit \in Nat
    BY DEF WorldInv, Fits, StateRec
  <1> QED BY <1>2, <1>3, <1>4 DEF StateType

(* No file and no process leaves its shape: versions and the mailbox stay  *)
(* within what the writes pay for, only holders of the lock are in a pass, *)
(* and no state counts more lines than there are before its offset.        *)
THEOREM TypeCorrect == Spec => []TypeOK
  <1>1. IInv => TypeOK
    <2> SUFFICES ASSUME IInv PROVE TypeOK
      OBVIOUS
    <2>1. /\ report \in 0..MaxWrites /\ opened \subseteq Cycles
          /\ writes \in 0..MaxWrites /\ deaths \in 0..MaxDeaths
      BY Bounds DEF IInv, WorldInv
    <2>2. \A n \in Nat : Paid(n, writes) => n \in 0..(2 * MaxWrites)
      BY <2>1, Bounds DEF Paid
    <2>3. mailbox \in 0..(2 * MaxWrites)
      BY <2>2 DEF IInv, WorldInv
    <2>4. \A f \in Receipts : receipt[f].version \in 0..(2 * MaxWrites)
      BY <2>2 DEF IInv, WorldInv
    <2>5. receipt \in [Receipts -> [story : Story, version : Nat]]
      BY DEF IInv, WorldInv
    <2>6. \A f \in Receipts : receipt[f] \in [story : Stories \union {""}, version : 0..(2 * MaxWrites)]
      BY <2>4, <2>5 DEF Story
    <2>7. receipt \in [Receipts -> [story : Stories \union {""}, version : 0..(2 * MaxWrites)]]
      BY <2>5, <2>6
    <2>8. StateType(saved) /\ saved.audit <= Len(packets)
      <3>1. saved \in StateRec /\ Fits(saved) /\ AuditOn(saved.audit) /\ packets \in Seq(PacketRec)
        BY AnsweredParts DEF IInv, FilesInv
      <3>2. saved.audit \in Nat /\ Len(packets) \in Nat /\ DOMAIN packets = 1..Len(packets)
        BY <3>1 DEF StateRec
      <3>3. saved.audit <= Len(packets)
        BY <3>1, <3>2 DEF AuditOn, Written
      <3> QED BY <3>1, <3>3, StateShape DEF IInv
    <2>9. /\ latest.offset \in 0..mailbox /\ latest.events \in 0..saved.events
          /\ archived \subseteq Files /\ holders \subseteq Watchers
      BY DEF IInv, WorldInv, FilesInv, LockInv, StateRec
    <2>10. ASSUME NEW p \in Watchers
           PROVE  /\ watcher[p].pc = "down" <=> p \notin holders
                  /\ watcher[p].story \in Stories \union {""} /\ watcher[p].todo \subseteq Cycles
                  /\ StateType(watcher[p].state)
      <3>1. watcher[p] \in Process /\ Fits(watcher[p].state)
        BY DEF IInv, LockInv, PassInv
      <3>2. watcher[p].state \in StateRec
        BY <3>1 DEF Process
      <3>3. StateType(watcher[p].state)
        BY <3>1, <3>2, StateShape DEF IInv
      <3> QED BY <3>1, <3>3 DEF IInv, LockInv, Process, Story
    <2>11. prd \in [active : Stories \union {""}, torn : BOOLEAN]
      BY DEF IInv, WorldInv, Story
    <2> QED BY <2>1, <2>3, <2>7, <2>8, <2>9, <2>10, <2>11 DEF TypeOK
  <1> QED BY <1>1, Invariance, PTL

(* However passes die, are repeated and are run dry in between, whatever   *)
(* the saved state calls answered has its packet on disk.                  *)
THEOREM NoReviewIsLost == Spec => []AnsweredHasPacket
  <1>1. IInv => AnsweredHasPacket
    BY DEF IInv, FilesInv, AnsweredHasPacket
  <1> QED BY <1>1, Invariance, PTL

(* A pass that read a truth nobody disturbed routes no work astray, though *)
(* it reads one file after the other.                                      *)
THEOREM WorkIsRoutedOnTruth == Spec => []RoutedOnTruth
  <1>1. IInv => RoutedOnTruth
    BY DEF IInv, FilesInv, PacketOK, RoutedOnTruth
  <1> QED BY <1>1, Invariance, PTL

(* The lock and the saved state bound the reviews of a cycle and of a      *)
(* version of the report by the watchers that died.                        *)
THEOREM DeathsPayForReviews == Spec => []ReviewedOncePerDeath
  <1>1. IInv => ReviewedOncePerDeath
    <2> SUFFICES ASSUME IInv PROVE ReviewedOncePerDeath
      OBVIOUS
    <2> PICK d \in Nat : d = deaths
      BY Bounds DEF IInv, WorldInv
    <2>1. packets \in Seq(PacketRec) /\ CountInv
      BY DEF IInv, FilesInv
    <2>2. ASSUME NEW c \in Cycles PROVE Cardinality(CycleReviews(c)) <= 1 + d
      <3> PICK m \in Nat : m = Cardinality(CycleReviews(c))
        BY <2>1, ReviewsType
      <3>1. m <= d + (IF Settled(c) THEN 1 ELSE 0)
        BY <2>1 DEF CountInv
      <3>2. m <= 1 + d
        BY <3>1
      <3> QED BY <3>2
    <2>3. ASSUME NEW v \in 1..report PROVE Cardinality(ReportReviews(v)) <= 2 + d
      <3>1. v \in Nat
        BY DEF IInv, WorldInv
      <3> PICK m \in Nat : m = Cardinality(ReportReviews(v))
        BY <2>1, <3>1, ReviewsType
      <3>2. m <= d + (IF Kept(v) THEN 2 ELSE 1)
        BY <2>1, <3>1 DEF CountInv
      <3>3. m <= 2 + d
        BY <3>2
      <3> QED BY <3>3
    <2> QED BY <2>2, <2>3 DEF ReviewedOncePerDeath
  <1> QED BY <1>1, Invariance, PTL

(* No save takes back what an earlier one answered, an audit's or that of  *)
(* a run at the command line in between included.                          *)
THEOREM SavesKeepWhatWasAnswered == Spec => NothingForgotten
  <1> DEFINE NothingLost == /\ saved.seen \subseteq saved'.seen
                            /\ saved.report <= saved'.report /\ saved.offset <= saved'.offset
                            /\ saved.audit <= saved'.audit
  <1>1. ASSUME IInv, [Next]_vars PROVE [NothingLost]_saved
    <2> SUFFICES ASSUME saved' # saved PROVE NothingLost
      OBVIOUS
    <2>1. Next
      BY <1>1 DEF vars, files
    <2>2. PICK p \in Watchers : WriteState(p)
      <3>1. ~Write
        BY DEF Write, UpdateStory, StoryWritten, UpdateReceipt, ReceiptWritten, UpdateReport,
               OpenCycle, AppendMail, files
      <3>2. PICK p \in Watchers : Start(p) \/ RunOnce(p) \/ Die(p)
        BY <2>1, <3>1 DEF Next
      <3>3. ~Start(p) /\ ~Die(p)
        BY DEF Start, Die, files
      <3>4. /\ ~Load(p) /\ ~ReadStory(p) /\ ~ReadClaims(p) /\ ~ReadHashes(p) /\ ~HashReport(p)
            /\ ~ListCycles(p)
        BY DEF Load, ReadStory, ReadClaims, ReadHashes, HashReport, ListCycles, files
      <3>5. /\ ~Audit(p) /\ ~TruthDrift(p) /\ ~StoryPromotion(p) /\ ~ReviewReport(p)
            /\ ~ReviewCycle(p) /\ ~WriteLatest(p)
        BY DEF Audit, TruthDrift, StoryPromotion, ReviewReport, ReviewCycle, WriteLatest
      <3> QED BY <3>2, <3>3, <3>4, <3>5 DEF RunOnce
    <2> PICK w : w = watcher[p]
      OBVIOUS
    <2>3. Holds(w) /\ w.pc = "save" /\ saved' = w.state /\ ~w.job.dry
      BY <1>1, <2>2, InPass DEF WriteState, StateToSave, At
    <2>4. Extends(saved, w.state)
      BY <2>3 DEF Holds, Carries, Writes
    <2> QED BY <2>3, <2>4 DEF Extends
  <1> QED BY <1>1, Invariance, PTL DEF Spec, NothingForgotten
====
