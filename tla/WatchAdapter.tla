---- MODULE WatchAdapter ----
(***************************************************************************)
(* The advisory watcher, scripts/agents/codex_watch_adapter.py: passes     *)
(* over files that the agents' scripts and the paper runtime write, each   *)
(* change answered by a review packet, what was answered remembered in     *)
(* watcher_state.json.                                                     *)
(*                                                                         *)
(* A pass reads one file after another while writers go on; files that are *)
(* not replaced atomically may be met half written.  The packets of a pass *)
(* are on disk before the state that remembers them, so a pass that dies   *)
(* is repeated by the next process.                                        *)
(***************************************************************************)
EXTENDS Integers, Sequences, FiniteSets

CONSTANTS
    Watchers,   \* processes: the loop, an audit, a dry run
    Stories,    \* story ids of prd.json,
    KeptStories, \* and those it calls active, ready, in recovery or deferred
    Cycles,     \* session keys of paper cycles
    Files,      \* what .ai/ holds besides the receipts read here
    Jobs,       \* per process: the command lines it may be started with
    Touched,    \* receipts the others write,
    MaxWrites,  \* how many files they write,
    MaxAudits,  \* audits they order
    MaxDeaths   \* and watchers that die: bounds of the exploration

Receipts == {"docs_truth", "story_promotion", "lane_health"}
Areas == {"control", "accepted", "runtime", "exchange", "policy"}

ASSUME WatchAssumption ==
    /\ Stories \subseteq STRING \ {""} /\ Stories # {} /\ KeptStories \subseteq Stories /\ Touched \subseteq Receipts
    /\ Jobs \in [Watchers -> SUBSET [loop : BOOLEAN, dry : BOOLEAN, audit : BOOLEAN]]
    /\ Files \subseteq [area : Areas, story : Stories \union {""}, mtime : Nat]
    /\ MaxWrites \in Nat /\ MaxAudits \in Nat /\ MaxDeaths \in Nat

VARIABLES
    prd,      \* prd.json: the active story, half written or not
    receipt,  \* per receipt: the story it claims and its version, odd while half written
    report,   \* version of the strategy challenger report, a half-written one counted too
    opened,   \* sessions with a cycle_summary.json, half written or not
    mailbox,  \* mailbox.jsonl in half lines
    holders,  \* processes that hold watcher.lock
    watcher,  \* per process: where its pass is and what it read
    saved,    \* watcher_state.json
    latest,   \* watcher_latest.json: the mailbox counters it shows
    packets,  \* history: review packets, in the order they were written
    archived, \* files copied to data/archive
    writes,   \* counters of the bounds
    deaths

world == <<prd, receipt, report, opened, mailbox, writes>>
files == <<saved, latest, packets, archived>>
vars == <<world, files, holders, watcher, deaths>>

NoClaims == [f \in Receipts |-> ""]
NoSignature == [story |-> "", claims |-> NoClaims, hashes |-> [f \in Receipts |-> 0]]
NoBundle == [story |-> "", docs |-> 0, promotion |-> 0]

(* normalize_state of a missing file.                                      *)
EmptyState == [offset |-> 0, events |-> 0, bundle |-> NoBundle, report |-> 0, seen |-> {},
               drift |-> NoSignature, audit |-> 0]

NoJob == [loop |-> FALSE, dry |-> FALSE, audit |-> FALSE]
Down == [pc |-> "down", job |-> NoJob, state |-> EmptyState, story |-> "", claims |-> NoClaims,
         signature |-> NoSignature, quiet |-> FALSE, report |-> 0, todo |-> {}]

Init ==
    /\ prd = [active |-> CHOOSE s \in Stories : TRUE, torn |-> FALSE]  \* interchangeable
    /\ receipt = [f \in Receipts |-> [story |-> "", version |-> 0]]
    /\ report = 0
    /\ opened = {}
    /\ mailbox = 0
    /\ holders = {}
    /\ watcher = [p \in Watchers |-> Down]
    /\ saved = EmptyState
    /\ latest = [offset |-> 0, events |-> 0]
    /\ packets = <<>>
    /\ archived = {}
    /\ writes = 0
    /\ deaths = 0

-----------------------------------------------------------------------------
(* What the files say.                                                     *)

Torn(version) == version % 2 = 1

(* read_json of a half-written file is the default: no story, no claim.    *)
StoryRead == IF prd.torn THEN "" ELSE prd.active
ClaimRead(f) == IF Torn(receipt[f].version) THEN "" ELSE receipt[f].story

(* Mutants: the lanes' health is not asked; a receipt without a story is   *)
(* held against the active one.                                            *)
ReceiptMismatches(story, claims) ==
    [f \in Receipts |-> IF f = "lane_health" \/ claims[f] = story THEN "" ELSE claims[f]]
AbsentMismatches(story, claims) ==
    [f \in Receipts |-> IF claims[f] = story THEN "" ELSE IF claims[f] = "" THEN "none" ELSE claims[f]]

Mismatches(story, claims) == [f \in Receipts |-> IF claims[f] = story THEN "" ELSE claims[f]]

StoryFilesWhole == ~prd.torn /\ \A f \in Receipts : ~Torn(receipt[f].version)
Clean == StoryFilesWhole /\ \A f \in Receipts : receipt[f].story \in {"", prd.active}
Drifted == StoryFilesWhole /\ ~Clean

-----------------------------------------------------------------------------
(* The writers: scripts of the swarm, the operator, the paper runtime.     *)

MayWrite == writes < MaxWrites
Wrote == writes' = writes + 1

(* A pass that has read the story no longer reads a truth that stands still. *)
Disturbed == [p \in Watchers |-> [watcher[p] EXCEPT !.quiet = FALSE]]

(* Once everything is complete no story is active.                         *)
UpdateStory ==
    /\ MayWrite /\ Wrote
    /\ ~prd.torn
    /\ \E s \in Stories \union {""} : prd' = [active |-> s, torn |-> TRUE]
    /\ watcher' = Disturbed
    /\ UNCHANGED <<receipt, report, opened, mailbox, files, holders, deaths>>

StoryWritten ==
    /\ prd.torn
    /\ prd' = [prd EXCEPT !.torn = FALSE]
    /\ watcher' = Disturbed
    /\ UNCHANGED <<receipt, report, opened, mailbox, writes, files, holders, deaths>>

UpdateReceipt ==
    /\ MayWrite /\ Wrote
    /\ \E f \in Touched, s \in Stories :
         /\ ~Torn(receipt[f].version)
         /\ receipt' = [receipt EXCEPT ![f] = [story |-> s, version |-> @.version + 1]]
    /\ watcher' = Disturbed
    /\ UNCHANGED <<prd, report, opened, mailbox, files, holders, deaths>>

ReceiptWritten ==
    /\ \E f \in Receipts :
         /\ Torn(receipt[f].version)
         /\ receipt' = [receipt EXCEPT ![f].version = @ + 1]
    /\ watcher' = Disturbed
    /\ UNCHANGED <<prd, report, opened, mailbox, writes, files, holders, deaths>>

UpdateReport ==
    /\ MayWrite /\ Wrote
    /\ report' = report + 1
    /\ UNCHANGED <<prd, receipt, opened, mailbox, files, holders, watcher, deaths>>

(* The operator writes a session's summary once, when it opens it; closing *)
(* writes another file.                                                    *)
OpenCycle ==
    /\ MayWrite /\ Wrote
    /\ \E c \in Cycles \ opened : opened' = opened \union {c}
    /\ UNCHANGED <<prd, receipt, report, mailbox, files, holders, watcher, deaths>>

AppendMail ==
    /\ Torn(mailbox) \/ MayWrite
    /\ mailbox' = mailbox + 1
    /\ writes' = IF Torn(mailbox) THEN writes ELSE writes + 1
    /\ UNCHANGED <<prd, receipt, report, opened, files, holders, watcher, deaths>>

-----------------------------------------------------------------------------
(* A process, and the start of a pass.                                     *)

LockShared == TRUE  \* mutant: the lock does not exclude

LockFree == holders = {}
Written(kind) == {i \in DOMAIN packets : packets[i].kind = kind}

(* process_lock is non-blocking: while another holds it a process only     *)
(* exits with 75.                                                          *)
Start(p) ==
    /\ watcher[p].pc = "down" /\ LockFree
    /\ \E job \in Jobs[p] :
         /\ job.audit => Cardinality(Written("ai_hygiene")) < MaxAudits
         /\ watcher' = [watcher EXCEPT ![p] = [Down EXCEPT !.pc = "load", !.job = job]]
    /\ holders' = holders \union {p}
    /\ UNCHANGED <<world, files, deaths>>

At(p, pc) == p \in holders /\ watcher[p].pc = pc

(* Lines from the offset on that parse: a line met half written is skipped *)
(* and its other half is no line.                                          *)
LinesFrom(offset) == Cardinality({line \in 0..mailbox : offset <= 2 * line /\ 2 * line + 2 <= mailbox})

(* Mutant: every line is counted again. *)
DeltaFromStart(state) == [state EXCEPT !.offset = mailbox, !.events = @ + LinesFrom(0)]

Delta(state) == [state EXCEPT !.offset = mailbox, !.events = @ + LinesFrom(state.offset)]

Load(p) ==
    /\ At(p, "load")
    /\ watcher' = [watcher EXCEPT ![p] = [@ EXCEPT !.pc = "story", !.state = Delta(saved)]]
    /\ UNCHANGED <<world, files, holders, deaths>>

ReadStory(p) ==
    /\ At(p, "story")
    /\ watcher' = [watcher EXCEPT ![p] =
         [@ EXCEPT !.pc = "claims", !.story = StoryRead, !.quiet = StoryFilesWhole]]
    /\ UNCHANGED <<world, files, holders, deaths>>

ReadClaims(p) ==
    /\ At(p, "claims")
    /\ LET claims == [f \in Receipts |-> ClaimRead(f)] IN
       watcher' = [watcher EXCEPT ![p] =
         [@ EXCEPT !.pc = "hashes", !.claims = Mismatches(watcher[p].story, claims)]]
    /\ UNCHANGED <<world, files, holders, deaths>>

(* Mutant: a drift is known by the story it contradicts.                   *)
StorySignature(w) == [NoSignature EXCEPT !.story = w.story]

SignatureOf(w) == [story |-> w.story, claims |-> w.claims, hashes |-> [f \in Receipts |-> receipt[f].version]]

ReadHashes(p) ==
    /\ At(p, "hashes")
    /\ watcher' = [watcher EXCEPT ![p] =
         [@ EXCEPT !.pc = IF watcher[p].job.audit THEN "audit" ELSE "drift",
                   !.signature = SignatureOf(watcher[p])]]
    /\ UNCHANGED <<world, files, holders, deaths>>

-----------------------------------------------------------------------------
(* Packets.  A dry run prints them instead.                                *)

(* astray is history: the story files stood still since the pass read the  *)
(* story, and still they disagree or name another one.                     *)
Packet(kind, w) ==
    [kind |-> kind, story |-> w.story, claims |-> NoClaims, bundle |-> NoBundle, report |-> 0,
     cycles |-> {}, astray |-> w.quiet /\ (Drifted \/ w.story # prd.active)]

WritePacket(p, packet) == packets' = IF watcher[p].job.dry THEN packets ELSE Append(packets, packet)

(* classify_ai_file over .ai/: the newest accepted receipt of a story, what *)
(* belongs to a story in work and everything outside the dropbox stays.  *)
Newest(f) == \A g \in Files : g.area = "accepted" /\ g.story = f.story => g.mtime <= f.mtime
InWork == ({prd.active} \ {""}) \union KeptStories
ArchiveCandidates ==
    {f \in Files : \/ f.area = "accepted" /\ (f.story = "" \/ ~Newest(f))
                   \/ f.area = "exchange" /\ (prd.torn \/ f.story \notin InWork)}

CopiedToArchive(w) == IF w.job.dry THEN {} ELSE ArchiveCandidates

Audit(p) ==
    /\ At(p, "audit")
    /\ WritePacket(p, [Packet("ai_hygiene", watcher[p]) EXCEPT !.story = StoryRead, !.astray = FALSE])
    /\ archived' = archived \union CopiedToArchive(watcher[p])
    /\ watcher' = [watcher EXCEPT ![p] =
         [@ EXCEPT !.pc = "drift", !.state = [watcher[p].state EXCEPT !.audit = Len(packets) + 1]]]
    /\ UNCHANGED <<world, saved, latest, holders, deaths>>

(* A drift is reported once per signature and blocks the routing as long   *)
(* as it lasts.                                                            *)
TruthDrift(p) ==
    LET w == watcher[p] IN
    /\ At(p, "drift")
    /\ \/ /\ w.claims = NoClaims
          /\ watcher' = [watcher EXCEPT ![p] =
               [@ EXCEPT !.pc = "promotion", !.state = [w.state EXCEPT !.drift = NoSignature]]]
          /\ UNCHANGED packets
       \/ /\ w.claims # NoClaims /\ w.state.drift = w.signature
          /\ watcher' = [watcher EXCEPT ![p] = [@ EXCEPT !.pc = "save"]]
          /\ UNCHANGED packets
       \/ /\ w.claims # NoClaims /\ w.state.drift # w.signature
          /\ WritePacket(p, [Packet("truth_drift", w) EXCEPT !.claims = w.claims, !.astray = FALSE])
          /\ watcher' = [watcher EXCEPT ![p] =
               [@ EXCEPT !.pc = "save", !.state = [w.state EXCEPT !.drift = w.signature]]]
    /\ UNCHANGED <<world, saved, latest, archived, holders, deaths>>

-----------------------------------------------------------------------------
(* The routed kinds.                                                       *)

Bundle(w) == [story |-> w.story, docs |-> receipt["docs_truth"].version,
              promotion |-> receipt["story_promotion"].version]

StoryPromotion(p) ==
    LET w == watcher[p]  absent == Bundle(w).docs = 0 /\ Bundle(w).promotion = 0 IN
    /\ At(p, "promotion")
    /\ \/ /\ absent \/ w.state.bundle = Bundle(w)
          /\ watcher' = [watcher EXCEPT ![p] = [@ EXCEPT !.pc = "report"]]
          /\ UNCHANGED packets
       \/ /\ ~absent /\ w.state.bundle # Bundle(w)
          /\ WritePacket(p, [Packet("story_promotion_changed", w) EXCEPT !.bundle = Bundle(w)])
          /\ watcher' = [watcher EXCEPT ![p] =
               [@ EXCEPT !.pc = "report", !.state = [w.state EXCEPT !.bundle = Bundle(w)]]]
    /\ UNCHANGED <<world, saved, latest, archived, holders, deaths>>

(* The report is hashed first and read afterwards.                         *)
HashReport(p) ==
    LET known == report = 0 \/ watcher[p].state.report = report IN
    /\ At(p, "report")
    /\ watcher' = [watcher EXCEPT ![p] =
         [@ EXCEPT !.pc = IF known THEN "cycles" ELSE "report_body", !.report = report]]
    /\ UNCHANGED <<world, files, holders, deaths>>

ReviewReport(p) ==
    /\ At(p, "report_body")
    /\ WritePacket(p, [Packet("strategy_report_changed", watcher[p]) EXCEPT !.report = report])
    /\ watcher' = [watcher EXCEPT ![p] =
         [@ EXCEPT !.pc = "cycles", !.state = [watcher[p].state EXCEPT !.report = watcher[p].report]]]
    /\ UNCHANGED <<world, saved, latest, archived, holders, deaths>>

UnfilteredCycles(state) == opened  \* mutant: the seen ones are not left out
Unreviewed(state) == opened \ state.seen

ListCycles(p) ==
    LET todo == Unreviewed(watcher[p].state) IN
    /\ At(p, "cycles")
    /\ watcher' = [watcher EXCEPT ![p] =
         [@ EXCEPT !.pc = IF todo = {} THEN "save" ELSE "review", !.todo = todo]]
    /\ UNCHANGED <<world, files, holders, deaths>>

(* A summary met half written is reviewed as an empty one under the name   *)
(* of its directory, which is the session's key.                           *)
ReviewCycle(p) ==
    LET w == watcher[p] IN
    /\ At(p, "review")
    /\ \E c \in w.todo :
         /\ WritePacket(p, [Packet("paper_cycle_closed", w) EXCEPT !.cycles = {c}])
         /\ watcher' = [watcher EXCEPT ![p] =
              [@ EXCEPT !.pc = IF w.todo = {c} THEN "save" ELSE "review", !.todo = w.todo \ {c},
                        !.state = [w.state EXCEPT !.seen = w.state.seen \union {c}]]]
    /\ UNCHANGED <<world, saved, latest, archived, holders, deaths>>

-----------------------------------------------------------------------------
(* The end of a pass.                                                      *)

(* Mutant: the report is hashed again when the state is saved.             *)
RehashedState(w) == [w.state EXCEPT !.report = report]

StateToSave(w) == w.state

WriteState(p) ==
    /\ At(p, "save")
    /\ saved' = IF watcher[p].job.dry THEN saved ELSE StateToSave(watcher[p])
    /\ watcher' = [watcher EXCEPT ![p] = [@ EXCEPT !.pc = "latest"]]
    /\ UNCHANGED <<world, latest, packets, archived, holders, deaths>>

(* The loop keeps the lock while it sleeps.                                *)
WriteLatest(p) ==
    LET w == watcher[p] IN
    /\ At(p, "latest")
    /\ latest' = IF w.job.dry THEN latest ELSE [offset |-> w.state.offset, events |-> w.state.events]
    /\ watcher' = [watcher EXCEPT ![p] = IF w.job.loop THEN [Down EXCEPT !.pc = "load", !.job = w.job] ELSE Down]
    /\ holders' = IF w.job.loop THEN holders ELSE holders \ {p}
    /\ UNCHANGED <<world, saved, packets, archived, deaths>>

(* An exception ends the process, loop or not; a kill does too.  The       *)
(* kernel releases the lock.                                               *)
Die(p) ==
    /\ p \in holders /\ deaths < MaxDeaths
    /\ deaths' = deaths + 1
    /\ watcher' = [watcher EXCEPT ![p] = Down]
    /\ holders' = holders \ {p}
    /\ UNCHANGED <<world, files>>

RunOnce(p) ==
    \/ Load(p) \/ ReadStory(p) \/ ReadClaims(p) \/ ReadHashes(p) \/ Audit(p) \/ TruthDrift(p)
    \/ StoryPromotion(p) \/ HashReport(p) \/ ReviewReport(p) \/ ListCycles(p) \/ ReviewCycle(p)
    \/ WriteState(p) \/ WriteLatest(p)

Write == \/ UpdateStory \/ StoryWritten \/ UpdateReceipt \/ ReceiptWritten
         \/ UpdateReport \/ OpenCycle \/ AppendMail

Next == Write \/ \E p \in Watchers : Start(p) \/ RunOnce(p) \/ Die(p)

Spec == Init /\ [][Next]_vars

(* A pass that runs goes on: nothing in it waits for another process.      *)
(* Nobody restarts a watcher that died, and no writer has to write.        *)
FairSpec == Spec /\ \A p \in Watchers : WF_vars(RunOnce(p))

-----------------------------------------------------------------------------
(* Properties.                                                             *)

StateType(s) ==
    /\ s.offset \in 0..mailbox /\ s.events \in Nat /\ 2 * s.events <= s.offset
    /\ DOMAIN s.drift.claims = Receipts /\ s.bundle.story \in Stories \union {""}
    /\ s.report \in 0..report /\ s.seen \subseteq Cycles /\ s.audit \in Nat

(* Files have their shapes, only a process that holds the lock is in a     *)
(* pass, and no count of the mailbox has a line twice.                     *)
TypeOK ==
    /\ prd \in [active : Stories \union {""}, torn : BOOLEAN]
    /\ receipt \in [Receipts -> [story : Stories \union {""}, version : 0..(2 * MaxWrites)]]
    /\ report \in 0..MaxWrites /\ opened \subseteq Cycles /\ mailbox \in 0..(2 * MaxWrites)
    /\ writes \in 0..MaxWrites /\ deaths \in 0..MaxDeaths
    /\ StateType(saved) /\ saved.audit <= Len(packets)
    /\ latest.offset \in 0..mailbox /\ latest.events \in 0..saved.events
    /\ archived \subseteq Files /\ holders \subseteq Watchers
    /\ \A p \in Watchers :
         /\ watcher[p].pc = "down" <=> p \notin holders
         /\ watcher[p].story \in Stories \union {""} /\ watcher[p].todo \subseteq Cycles
         /\ StateType(watcher[p].state)

(* What a state calls answered has its packet: a drift, a bundle of        *)
(* receipts, a report no older than the hash that was kept, a cycle, an    *)
(* audit.                                                                  *)
Answered(s) ==
    /\ s.drift # NoSignature =>
         \E i \in Written("truth_drift") : packets[i].story = s.drift.story /\ packets[i].claims = s.drift.claims
    /\ s.bundle # NoBundle => \E i \in Written("story_promotion_changed") : packets[i].bundle = s.bundle
    /\ s.report > 0 => \E i \in Written("strategy_report_changed") : packets[i].report >= s.report
    /\ \A c \in s.seen : \E i \in Written("paper_cycle_closed") : c \in packets[i].cycles
    /\ s.audit > 0 => s.audit \in Written("ai_hygiene")

(* The packets of whatever the saved state calls answered are on disk, so  *)
(* a death at any point of a pass loses no review.                         *)
AnsweredHasPacket == Answered(saved)

(* A packet that routes work, written by a pass during which no file with  *)
(* a story id changed, names the active story and finds no receipt that    *)
(* contradicts it.                                                         *)
RoutedOnTruth ==
    \A i \in DOMAIN packets :
        packets[i].kind \notin {"truth_drift", "ai_hygiene"} => ~packets[i].astray

CycleReviews(c) == {i \in Written("paper_cycle_closed") : c \in packets[i].cycles}
ReportReviews(v) == {i \in Written("strategy_report_changed") : packets[i].report = v}

(* A paper cycle is reviewed once, and once more for each watcher that     *)
(* died; a version of the report is put before a reviewer twice at most    *)
(* beyond that, when it arrived between the hash and the read.             *)
ReviewedOncePerDeath ==
    /\ \A c \in Cycles : Cardinality(CycleReviews(c)) <= 1 + deaths
    /\ \A v \in 1..report : Cardinality(ReportReviews(v)) <= 2 + deaths

(* No save forgets what an earlier one had answered: the loop, an audit    *)
(* and a run at the command line keep one state between them.              *)
NothingForgotten ==
    [][/\ saved.seen \subseteq saved'.seen
       /\ saved.report <= saved'.report /\ saved.offset <= saved'.offset
       /\ saved.audit <= saved'.audit]_saved

Up == \E p \in holders : watcher[p].job.loop /\ ~watcher[p].job.dry

(* The loop does not stay up beside story files that agree while a cycle   *)
(* that was opened waits for its review for good.                          *)
EveryCycleIsReviewed == []<>(Up /\ Clean => \A c \in opened : CycleReviews(c) # {})

ReportedAsItStands ==
    \E i \in Written("truth_drift") :
        /\ packets[i].story = prd.active
        /\ packets[i].claims = Mismatches(prd.active, [f \in Receipts |-> receipt[f].story])

(* Nor beside story files that disagree without reporting the disagreement *)
(* they end with.                                                          *)
DriftIsReported == []<>(Up /\ Drifted => ReportedAsItStands)
====
