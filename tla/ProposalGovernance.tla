------------------------- MODULE ProposalGovernance -------------------------
(***************************************************************************)
(* The governance of improvement proposals: create_improvement_proposal,    *)
(* ProposalReviewer.review_proposal, ProposalComparator.compare_proposals   *)
(* and the ProfileGovernor the comparator asks.  Reviews and comparisons    *)
(* are calls of separate processes (the command line, the practice loop)    *)
(* that read the tables, decide, and write in one transaction at the end.   *)
(*                                                                          *)
(* What a proposal says is reduced to what decides on it: whether its text, *)
(* scope and owner are inside the advisory surface, whether its evidence is *)
(* complete, and the signal score the governor computes from its metrics.   *)
(***************************************************************************)
EXTENDS Integers, Sequences

CONSTANTS
  Reviewers,      \* processes that run review_proposal
  Comparators,    \* processes that run compare_proposals
  Drafts,         \* the proposals that may be created
  Regimes,        \* semantic regimes of the condition snapshots
  ProfileFit,     \* profile_fit_rank of a kind under the selected research profile
  Filters,        \* the filters a comparison may be called with
  MaxProposals,   \* bound on the proposals created
  MaxReviews,     \* bound on the reviews started
  MaxComparisons  \* bound on the comparisons committed

Kinds == {"paper_cycle", "profile_adjustment", "strategy_eval", "live_regime_cycle",
          "model_compare", "label_program"}
PaperKinds == {"paper_cycle", "profile_adjustment"}
Sources == {"experiment_run", "paper_session", "backtest_session"}
Scope(S) == S \cup {"none"}

(* signal is base_signal_score; regime is that of the latest fill when the  *)
(* source is a paper session, and otherwise not the proposal's own.         *)
Draft == [kind: Kinds, source: Sources, bounded: BOOLEAN, signal: 0 .. 100,
          aligned: BOOLEAN, regime: Scope(Regimes)]
Filter == [kind: Scope(Kinds), regime: Scope(Regimes)]
AnyCandidate == [kind |-> "none", regime |-> "none"]

ASSUME GovernanceAssumption ==
  /\ Drafts \subseteq Draft /\ Filters \subseteq Filter
  /\ ProfileFit \in [Kinds -> 0 .. 3]
  /\ "none" \notin Regimes
  /\ MaxProposals \in Nat /\ MaxReviews \in Nat /\ MaxComparisons \in Nat

VARIABLES
  proposals,    \* improvement_proposal_v1 without its status
  status,       \* the status column
  complete,     \* proposals whose artifacts, metrics and source run are all there
  regime,       \* of the latest condition snapshot
  reviews,      \* proposal_review_v1, in the order of the commits
  latest,       \* per proposal: its review with the last created_at, 0 without one
  comparisons,  \* proposal_comparison_v1 with its items and supersession edges
  clock,        \* the last created_at given to a review
  reviewing,    \* per reviewer: what its transaction has read and decided
  comparing     \* per comparator: the same

vars == <<proposals, status, complete, regime, reviews, latest, comparisons, clock,
          reviewing, comparing>>
tables == <<proposals, status, complete, regime, reviews, latest, comparisons>>

Decisions == {"reviewed_accept", "reviewed_hold", "reviewed_reject"}
Eligible == {"reviewed_accept", "reviewed_hold"}          \* _DEFAULT_ELIGIBLE_DECISIONS
Status == Decisions \cup {"proposed", "selected_next", "superseded"}

ProposalIds == 1 .. MaxProposals
Partial(S) == UNION {[P -> S] : P \in SUBSET ProposalIds}

Review == [proposal: ProposalIds, decision: Decisions, regime: Scope(Regimes), at: Nat]
Item == [decision: Scope(Decisions), fit: 0 .. 3]
OutcomeRow == [selected: 0 .. MaxProposals, review: Nat, superseded: SUBSET ProposalIds]
Comparison == [ids: SUBSET ProposalIds, filter: Filter, top: BOOLEAN, seen: Nat,
               items: Partial(Item), outcome: OutcomeRow]
ReviewJob == [proposal: 0 .. MaxProposals, decision: Scope(Decisions),
              regime: Scope(Regimes), at: Nat, loaded: Scope(Status)]
CompareJob == [stage: {"idle", "loaded", "ranked"}, ids: SUBSET ProposalIds,
               filter: Filter, top: BOOLEAN, loaded: Partial(Status), seen: Nat,
               items: Partial(Item), outcome: OutcomeRow]

NoReview == [proposal |-> 0, decision |-> "none", regime |-> "none", at |-> 0,
             loaded |-> "none"]
NoItems == [p \in {} |-> [decision |-> "none", fit |-> 0]]
Outcome(p, r, S) == [selected |-> p, review |-> r, superseded |-> S]
Nothing == Outcome(0, 0, {})
NoComparison == [stage |-> "idle", ids |-> {}, filter |-> AnyCandidate, top |-> FALSE,
                 loaded |-> [p \in {} |-> "none"], seen |-> 0, items |-> NoItems,
                 outcome |-> Nothing]

-----------------------------------------------------------------------------
(* The source side: a fill has a condition snapshot. *)
Propose(d) ==
  /\ Len(proposals) < MaxProposals
  /\ d.regime # "none" => regime # "none"
  /\ proposals' = Append(proposals, d)
  /\ status' = Append(status, "proposed")
  /\ latest' = Append(latest, 0)
  /\ UNCHANGED <<complete, regime, reviews, comparisons, clock, reviewing, comparing>>

(* Artifacts, metrics and run states of a source are only ever added. *)
CompleteEvidence(p) ==
  /\ p \notin complete
  /\ complete' = complete \cup {p}
  /\ UNCHANGED <<proposals, status, regime, reviews, latest, comparisons, clock,
                 reviewing, comparing>>

(* Another condition snapshot is committed. *)
ScoreRegime ==
  /\ regime' \in Regimes \ {regime}
  /\ UNCHANGED <<proposals, status, complete, reviews, latest, comparisons, clock,
                 reviewing, comparing>>

-----------------------------------------------------------------------------
(* Review. *)

(* _resolve_condition_snapshot: that of the fill, else the latest one. *)
SourceRegime(d) == IF d.regime # "none" THEN d.regime ELSE regime

NeedsRegime(d) == ~(d.kind = "profile_adjustment" /\ d.source = "backtest_session")

(* _build_decision: reject codes before hold codes. *)
Decision(p) ==
  LET d == proposals[p] IN
  IF ~d.bounded THEN "reviewed_reject"
  ELSE IF p \notin complete \/ (NeedsRegime(d) /\ SourceRegime(d) = "none")
       THEN "reviewed_hold"
       ELSE "reviewed_accept"

(* review_time is taken before anything is read. *)
StartReview(r, p) ==
  /\ reviewing[r].proposal = 0
  /\ clock < MaxReviews
  /\ clock' = clock + 1
  /\ reviewing' = [reviewing EXCEPT ![r] =
       [proposal |-> p, decision |-> Decision(p), regime |-> SourceRegime(proposals[p]),
        at |-> clock + 1, loaded |-> status[p]]]
  /\ UNCHANGED <<tables, comparing>>

(* Mutant: the review keeps a status that governance has given already. *)
StatusAfterFirst(p, loaded, new) == IF loaded = "proposed" THEN new ELSE status[p]

(* The session flushes a status that differs from the one it has loaded. *)
StatusAfter(p, loaded, new) == IF loaded = new THEN status[p] ELSE new

CommitReview(r) ==
  LET job == reviewing[r] IN
  /\ job.proposal # 0
  /\ reviews' = Append(reviews, [proposal |-> job.proposal, decision |-> job.decision,
                                 regime |-> job.regime, at |-> job.at])
  /\ latest' = [latest EXCEPT ![job.proposal] =
       IF @ = 0 THEN Len(reviews) + 1
       ELSE IF reviews[@].at <= job.at THEN Len(reviews) + 1 ELSE @]
  /\ status' = [status EXCEPT ![job.proposal] =
       StatusAfter(job.proposal, job.loaded, job.decision)]
  /\ reviewing' = [reviewing EXCEPT ![r] = NoReview]
  /\ UNCHANGED <<proposals, complete, regime, comparisons, clock, comparing>>

-----------------------------------------------------------------------------
(* The governor's score of a candidate, in units of a 100000th of a point;   *)
(* the weights and multipliers are those of profile_router_policy.v1.json.   *)

AtMost(m, x) == IF x <= m THEN x ELSE m
AtLeast(m, x) == IF x >= m THEN x ELSE m

Maturity(kind) == IF kind \in PaperKinds THEN 3 ELSE IF kind = "label_program" THEN 1 ELSE 2
DecisionRank(decision) ==
  IF decision = "reviewed_accept" THEN 2 ELSE IF decision = "reviewed_hold" THEN 1 ELSE 0

(* Twice the candidate surfaces beyond the first. *)
ComplexityPenalty(kind) ==
  IF kind = "strategy_eval" THEN 0
  ELSE IF kind = "paper_cycle" THEN 2
  ELSE IF kind = "live_regime_cycle" THEN 6 ELSE 4

(* evidence_multipliers, in hundredths. *)
Multiplier(kind) ==
  IF kind \in PaperKinds \cup {"label_program"} THEN 100
  ELSE IF kind = "strategy_eval" THEN 90 ELSE 65

PaperScore(d) == \* in tenths
  IF d.kind \in PaperKinds THEN 10 * d.signal ELSE AtLeast(200, 7 * d.signal)

ValidationBonus(decision) ==
  IF decision = "reviewed_accept" THEN 8 ELSE IF decision = "reviewed_hold" THEN 2 ELSE 0

Score(d, item) ==
  Multiplier(d.kind) *
    (  300 * d.signal
     + 25 * PaperScore(d)
     + 150 * AtMost(100, 35 + 15 * Maturity(d.kind) + 10 * DecisionRank(item.decision))
     + 100 * AtMost(100, 30 * item.fit + 10 * ProfileFit[d.kind])
     - 100 * 6
     - 70 * AtLeast(0, 12 - 3 * Maturity(d.kind) - 2 * DecisionRank(item.decision))
     - 30 * ComplexityPenalty(d.kind)
     + 1000 * ValidationBonus(item.decision))

(* Mutant: a selection takes what a blend takes. *)
BlendScore == 6400000

MinSelectScore == 7000000

-----------------------------------------------------------------------------
(* Comparison. *)

(* Mutant: the default scope takes every proposal that was not rejected. *)
DefaultScopeAll == {p \in DOMAIN proposals : status[p] # "reviewed_reject"}

(* _load_proposals without ids. *)
DefaultScope ==
  {p \in DOMAIN proposals :
     status[p] \notin {"reviewed_reject", "selected_next", "superseded"}}

StartCompare(c, ids, filter, top) ==
  /\ comparing[c].stage = "idle"
  /\ Len(comparisons) < MaxComparisons
  /\ comparing' = [comparing EXCEPT ![c] =
       [stage |-> "loaded", ids |-> ids, filter |-> filter, top |-> top,
        loaded |-> [p \in (IF ids = {} THEN DefaultScope ELSE ids) |-> status[p]],
        seen |-> Len(reviews), items |-> NoItems, outcome |-> Nothing]]
  /\ UNCHANGED <<tables, clock, reviewing>>

LatestDecision(p) == IF latest[p] = 0 THEN "none" ELSE reviews[latest[p]].decision

(* The regime of the latest review, else of the source. *)
CandidateRegime(p) ==
  IF latest[p] # 0 /\ reviews[latest[p]].regime # "none"
  THEN reviews[latest[p]].regime
  ELSE SourceRegime(proposals[p])

RegimeFit(p) ==
  LET scope == CandidateRegime(p) IN
  IF scope # "none" /\ scope = regime THEN 3
  ELSE IF proposals[p].kind = "paper_cycle" /\ proposals[p].aligned THEN 2
  ELSE IF scope # "none" THEN 1 ELSE 0

(* _candidate_in_scope: the kind stands for the story class, which is compared for
   explicit ids too; only the latest decision is waived for them. *)
InScope(p, job) ==
  /\ job.filter.kind \in {"none", proposals[p].kind}
  /\ job.filter.regime \in {"none", CandidateRegime(p)}
  /\ job.ids = {} => LatestDecision(p) \in Eligible

Outranks(p, q, items) ==  \* _sort_key, down to the regime fit
  LET pm == Maturity(proposals[p].kind)  qm == Maturity(proposals[q].kind)
      pd == DecisionRank(items[p].decision)  qd == DecisionRank(items[q].decision)
  IN  \/ pm > qm
      \/ pm = qm /\ pd > qd
      \/ pm = qm /\ pd = qd /\ items[p].fit > items[q].fit

ScoreOf(p, items) == Score(proposals[p], items[p])

(* The eligible candidate with the best score; the ranking decides a tie. *)
OnTop(p, items) ==
  /\ items[p].decision \in Eligible
  /\ \A q \in DOMAIN items : items[q].decision \in Eligible =>
       \/ ScoreOf(q, items) < ScoreOf(p, items)
       \/ ScoreOf(q, items) = ScoreOf(p, items) /\ ~Outranks(q, p, items)

(* _select_action: SELECT_PROFILE is the only action that selects, and it   *)
(* wants a confirmed candidate.  One profile name never disagrees or blends.*)
Selects(p, items) ==
  /\ OnTop(p, items)
  /\ ScoreOf(p, items) >= MinSelectScore
  /\ items[p].decision = "reviewed_accept"

Competitors(p, items) ==
  {q \in DOMAIN items \ {p} : /\ proposals[q].kind = proposals[p].kind
                              /\ items[q].decision \in Eligible}

(* Mutant: whoever was eligible is superseded, also when nobody is selected. *)
SupersedesAlways(p, items) ==
  {q \in DOMAIN items \ {p} : items[q].decision \in Eligible}

Superseded(p, items) == IF p = 0 THEN {} ELSE Competitors(p, items)

(* Reviews are read, candidates ranked, and the governor asked. *)
Rank(c) ==
  LET job == comparing[c]
      scope == {p \in DOMAIN job.loaded : InScope(p, job)}
      items == [p \in scope |-> [decision |-> LatestDecision(p), fit |-> RegimeFit(p)]]
      Ranked(outcome) ==
        comparing' = [comparing EXCEPT ![c] =
          [stage |-> "ranked", ids |-> job.ids, filter |-> job.filter, top |-> job.top,
           loaded |-> job.loaded, seen |-> job.seen, items |-> items,
           outcome |-> outcome]]
  IN  /\ job.stage = "loaded"
      /\ \/ \E p \in scope : job.top /\ Selects(p, items)
                             /\ Ranked(Outcome(p, latest[p], Superseded(p, items)))
         \/ ~(job.top /\ \E p \in scope : Selects(p, items))
            /\ Ranked(Outcome(0, 0, Superseded(0, items)))
      /\ UNCHANGED <<tables, clock, reviewing>>

(* The status a proposal is given by the outcome. *)
Given(p, outcome) ==
  IF p = outcome.selected THEN "selected_next"
  ELSE IF p \in outcome.superseded THEN "superseded" ELSE "none"

CommitCompare(c) ==
  LET job == comparing[c] IN
  /\ job.stage = "ranked"
  /\ comparisons' = Append(comparisons,
       [ids |-> job.ids, filter |-> job.filter, top |-> job.top, seen |-> job.seen,
        items |-> job.items, outcome |-> job.outcome])
  /\ status' = [p \in DOMAIN status |->
       IF Given(p, job.outcome) = "none" THEN status[p]
       ELSE StatusAfter(p, job.loaded[p], Given(p, job.outcome))]
  /\ comparing' = [comparing EXCEPT ![c] = NoComparison]
  /\ UNCHANGED <<proposals, complete, regime, reviews, latest, clock, reviewing>>

-----------------------------------------------------------------------------
(* A call that raises, or a process that dies, before its transaction. *)
AbortReview(r) ==
  /\ reviewing[r].proposal # 0
  /\ reviewing' = [reviewing EXCEPT ![r] = NoReview]
  /\ UNCHANGED <<tables, clock, comparing>>

AbortCompare(c) ==
  /\ comparing[c].stage # "idle"
  /\ comparing' = [comparing EXCEPT ![c] = NoComparison]
  /\ UNCHANGED <<tables, clock, reviewing>>

Init ==
  /\ proposals = <<>> /\ status = <<>> /\ latest = <<>>
  /\ complete = {} /\ regime = "none"
  /\ reviews = <<>> /\ comparisons = <<>> /\ clock = 0
  /\ reviewing = [r \in Reviewers |-> NoReview]
  /\ comparing = [c \in Comparators |-> NoComparison]

Next ==
  \/ \E d \in Drafts : Propose(d)
  \/ \E p \in DOMAIN proposals : CompleteEvidence(p)
  \/ ScoreRegime
  \/ \E r \in Reviewers : \/ \E p \in DOMAIN proposals : StartReview(r, p)
                          \/ CommitReview(r) \/ AbortReview(r)
  \/ \E c \in Comparators :
       \/ \E ids \in SUBSET DOMAIN proposals, filter \in Filters, top \in BOOLEAN :
            StartCompare(c, ids, filter, top)
       \/ Rank(c) \/ CommitCompare(c) \/ AbortCompare(c)

Spec == Init /\ [][Next]_vars

-----------------------------------------------------------------------------
(* Properties. *)

Typed ==
  /\ proposals \in Seq(Drafts) /\ Len(proposals) <= MaxProposals
  /\ status \in Seq(Status) /\ latest \in Seq(Nat)
  /\ complete \subseteq DOMAIN proposals /\ regime \in Scope(Regimes)
  /\ reviews \in Seq(Review) /\ comparisons \in Seq(Comparison)
  /\ clock \in 0 .. MaxReviews
  /\ reviewing \in [Reviewers -> ReviewJob] /\ comparing \in [Comparators -> CompareJob]

(* An outcome selects with a review of what it selects, and supersedes only  *)
(* when it selects.                                                         *)
IsOutcome(o, items, rows) ==
  /\ o.superseded \subseteq DOMAIN items \ {o.selected}
  /\ o.selected # 0 => /\ o.selected \in DOMAIN items /\ o.review \in DOMAIN rows
                       /\ rows[o.review].proposal = o.selected
  /\ o.selected = 0 => o.review = 0 /\ o.superseded = {}

ReviewJobKeyed(r) ==
  reviewing[r].proposal # 0 =>
    /\ reviewing[r].proposal \in DOMAIN proposals
    /\ reviewing[r].decision \in Decisions /\ reviewing[r].loaded \in Status
    /\ reviewing[r].at <= clock

CompareJobKeyed(c) ==
  /\ DOMAIN comparing[c].loaded \subseteq DOMAIN proposals
  /\ DOMAIN comparing[c].items \subseteq DOMAIN comparing[c].loaded
  /\ IsOutcome(comparing[c].outcome, comparing[c].items, reviews)

ComparisonKeyed(i) ==
  /\ DOMAIN comparisons[i].items \subseteq DOMAIN proposals
  /\ IsOutcome(comparisons[i].outcome, comparisons[i].items, reviews)

LatestKeyed(p) ==
  latest[p] # 0 => latest[p] \in DOMAIN reviews /\ reviews[latest[p]].proposal = p

Keyed ==
  /\ Len(status) = Len(proposals) /\ Len(latest) = Len(proposals)
  /\ \A i \in DOMAIN reviews : reviews[i].proposal \in DOMAIN proposals
  /\ \A p \in DOMAIN latest : LatestKeyed(p)
  /\ \A i \in DOMAIN comparisons : ComparisonKeyed(i)
  /\ \A r \in Reviewers : ReviewJobKeyed(r)
  /\ \A c \in Comparators : CompareJobKeyed(c)

(* Types, foreign keys, and what belongs together in a row: an outcome that *)
(* selects nothing supersedes nothing, and one that selects cites a review  *)
(* of what it selects.                                                      *)
TypeOK == Typed /\ Keyed

Names(i, p) ==
  p = comparisons[i].outcome.selected \/ p \in comparisons[i].outcome.superseded

Backed(p) ==
  /\ status[p] = "proposed" => latest[p] = 0
  /\ status[p] \in Decisions =>
       latest[p] # 0 /\ reviews[latest[p]].decision = status[p]
  /\ status[p] \in {"selected_next", "superseded"} =>
       \E i \in DOMAIN comparisons :
         /\ Given(p, comparisons[i].outcome) = status[p]
         /\ \A j \in DOMAIN comparisons : j > i => ~Names(j, p)

(* The status column is the only thing the default scope reads, while the   *)
(* reasons are in reviews and comparisons: a proposal stands as reviewed    *)
(* only with the decision of its latest review, and as selected or          *)
(* superseded only by the last comparison that names it, although reviewer  *)
(* and comparator write what they read before the other committed.  It      *)
(* takes one process of each kind: see the README.                          *)
StatusIsBacked == \A p \in DOMAIN proposals : Backed(p)

ClearsTheBar(o, items, rows) ==
  LET p == o.selected IN
  p # 0 => /\ items[p].decision = "reviewed_accept"
           /\ \/ rows[p].kind \in PaperKinds /\ rows[p].signal >= 69
              \/ rows[p].kind = "label_program" /\ rows[p].signal >= 90

(* What the weights of the policy amount to: a strategy evaluation, a live  *)
(* regime cycle or a model comparison is never the next test, however good  *)
(* its numbers, a label program needs a signal of 90, and a paper proposal, *)
(* so also every patch of the practice profile, one of 69: for a patch as   *)
(* many basis points, or cents, gained by the session it comes from.        *)
SelectionClearsTheBar ==
  \A i \in DOMAIN comparisons :
    ClearsTheBar(comparisons[i].outcome, comparisons[i].items, proposals)

(* After a comparison over everything has selected, a later one in default  *)
(* scope selects the same kind only on a review committed since the first   *)
(* one started: nothing is chosen twice on the same evidence.               *)
ChosenOnNewReview ==
  \A i, j \in DOMAIN comparisons : LET a == comparisons[i]  b == comparisons[j] IN
    (/\ i < j /\ a.ids = {} /\ b.ids = {} /\ a.filter = AnyCandidate
     /\ a.outcome.selected # 0 /\ b.outcome.selected # 0
     /\ proposals[a.outcome.selected].kind = proposals[b.outcome.selected].kind)
      => b.outcome.review > a.seen
=============================================================================
