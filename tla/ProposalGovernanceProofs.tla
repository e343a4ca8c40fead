---------------------- MODULE ProposalGovernanceProofs ----------------------
(***************************************************************************)
(* Theorems of ProposalGovernance, for every set of drafts, regimes and     *)
(* filters and every bound.  The types and the bar hold for any number of   *)
(* processes, the backing of the status for one reviewer and one comparator.*)
(***************************************************************************)
EXTENDS ProposalGovernance, TLAPS

LEMMA AppendRow ==
  ASSUME NEW S, NEW rows \in Seq(S), NEW row \in S
  PROVE  /\ Append(rows, row) \in Seq(S)
         /\ Len(Append(rows, row)) = Len(rows) + 1
         /\ Len(rows) \in Nat
         /\ DOMAIN Append(rows, row) = DOMAIN rows \cup {Len(rows) + 1}
         /\ DOMAIN rows = 1 .. Len(rows)
         /\ \A i \in DOMAIN rows : Append(rows, row)[i] = rows[i]
         /\ Append(rows, row)[Len(rows) + 1] = row
  OBVIOUS

(* An outcome keeps its review when rows are only appended. *)
LEMMA OutcomeGrows ==
  ASSUME NEW o, NEW items, NEW rows, NEW more,
         DOMAIN rows \subseteq DOMAIN more,
         \A i \in DOMAIN rows : more[i] = rows[i],
         IsOutcome(o, items, rows)
  PROVE  IsOutcome(o, items, more)
  BY DEF IsOutcome

LEMMA EmptyPartial ==
  ASSUME NEW S, NEW e
  PROVE  [p \in {} |-> e] \in Partial(S)
  <1>1. {} \in SUBSET ProposalIds /\ [p \in {} |-> e] \in [{} -> S]
    OBVIOUS
  <1> QED BY <1>1 DEF Partial

LEMMA PartialType ==
  ASSUME NEW S, NEW f \in Partial(S)
  PROVE  /\ DOMAIN f \subseteq ProposalIds
         /\ \A p \in DOMAIN f : f[p] \in S
  BY DEF Partial

LEMMA IdleTypes ==
  ASSUME MaxProposals \in Nat
  PROVE  /\ NoReview \in ReviewJob /\ NoComparison \in CompareJob
         /\ NoComparison.outcome = Nothing /\ NoComparison.items = NoItems
         /\ DOMAIN NoComparison.loaded = {} /\ DOMAIN NoItems = {}
         /\ NoReview.proposal = 0
         /\ \A rows : IsOutcome(Nothing, NoItems, rows)
  <1>1. NoItems \in Partial(Item) /\ [p \in {} |-> "none"] \in Partial(Status)
    BY EmptyPartial DEF NoItems
  <1>2. Nothing \in OutcomeRow
    BY DEF Nothing, Outcome, OutcomeRow
  <1>3. AnyCandidate \in Filter
    BY DEF AnyCandidate, Filter, Scope
  <1>4. NoComparison \in CompareJob
    BY <1>1, <1>2, <1>3 DEF NoComparison, CompareJob
  <1>5. NoReview \in ReviewJob
    BY DEF NoReview, ReviewJob, Scope
  <1>6. \A rows : IsOutcome(Nothing, NoItems, rows)
    BY DEF IsOutcome, Nothing, Outcome, NoItems
  <1> QED BY <1>4, <1>5, <1>6 DEF NoComparison, NoItems, NoReview

-----------------------------------------------------------------------------
(* Type correctness. *)

(* The tables a job refers to only grow. *)
Grown ==
  /\ DOMAIN proposals \subseteq DOMAIN proposals' /\ DOMAIN reviews \subseteq DOMAIN reviews'
  /\ \A i \in DOMAIN reviews : reviews'[i] = reviews[i]
  /\ clock <= clock'

LEMMA JobsStayKeyed ==
  ASSUME Typed, Keyed, Grown, clock' \in Int
  PROVE  /\ \A r \in Reviewers : reviewing'[r] = reviewing[r] => ReviewJobKeyed(r)'
         /\ \A c \in Comparators : comparing'[c] = comparing[c] => CompareJobKeyed(c)'
         /\ comparisons' = comparisons => \A i \in DOMAIN comparisons' : ComparisonKeyed(i)'
  <1>1. ASSUME NEW r \in Reviewers, reviewing'[r] = reviewing[r]
        PROVE  ReviewJobKeyed(r)'
    <2>1. ReviewJobKeyed(r) /\ reviewing[r].at \in Nat /\ clock \in Nat
      BY DEF Keyed, Typed, ReviewJob
    <2> QED BY <1>1, <2>1 DEF ReviewJobKeyed, Grown
  <1>2. ASSUME NEW c \in Comparators, comparing'[c] = comparing[c]
        PROVE  CompareJobKeyed(c)'
    <2>1. CompareJobKeyed(c)
      BY DEF Keyed
    <2>2. IsOutcome(comparing[c].outcome, comparing[c].items, reviews')
      BY <2>1, OutcomeGrows DEF CompareJobKeyed, Grown
    <2> QED BY <1>2, <2>1, <2>2 DEF CompareJobKeyed, Grown
  <1>3. ASSUME comparisons' = comparisons, NEW i \in DOMAIN comparisons
        PROVE  ComparisonKeyed(i)'
    <2>1. ComparisonKeyed(i)
      BY DEF Keyed
    <2>2. IsOutcome(comparisons[i].outcome, comparisons[i].items, reviews')
      BY <2>1, OutcomeGrows DEF ComparisonKeyed, Grown
    <2> QED BY <1>3, <2>1, <2>2 DEF ComparisonKeyed, Grown
  <1> QED BY <1>1, <1>2, <1>3

LEMMA InitTyped == Init => TypeOK
  <1> SUFFICES ASSUME Init PROVE TypeOK
    OBVIOUS
  <1> USE GovernanceAssumption
  <1>1. Typed
    BY IdleTypes DEF Init, Typed, Scope
  <1>2. Keyed
    BY IdleTypes DEF Init, Keyed, ReviewJobKeyed, CompareJobKeyed, NoReview, NoComparison
  <1> QED BY <1>1, <1>2 DEF TypeOK

LEMMA ProposeTyped ==
  ASSUME TypeOK, NEW d \in Drafts, Propose(d)
  PROVE  TypeOK'
  <1>1. /\ proposals \in Seq(Drafts) /\ status \in Seq(Status) /\ latest \in Seq(Nat)
        /\ Len(status) = Len(proposals) /\ Len(latest) = Len(proposals)
        /\ "proposed" \in Status /\ MaxProposals \in Nat
    BY GovernanceAssumption DEF TypeOK, Typed, Keyed, Status
  <1>2. /\ proposals' \in Seq(Drafts) /\ Len(proposals') = Len(proposals) + 1
        /\ DOMAIN proposals' = DOMAIN proposals \cup {Len(proposals) + 1}
        /\ Len(proposals) \in Nat
    BY <1>1, AppendRow DEF Propose
  <1>3. /\ status' \in Seq(Status) /\ Len(status') = Len(status) + 1
    BY <1>1, AppendRow DEF Propose
  <1>4. /\ latest' \in Seq(Nat) /\ Len(latest') = Len(latest) + 1
        /\ DOMAIN latest' = DOMAIN latest \cup {Len(latest) + 1}
        /\ \A p \in DOMAIN latest : latest'[p] = latest[p]
        /\ latest'[Len(latest) + 1] = 0
    BY <1>1, AppendRow DEF Propose
  <1>5. Typed'
    BY <1>1, <1>2, <1>3, <1>4 DEF TypeOK, Typed, Propose
  <1>6. \A p \in DOMAIN latest' : LatestKeyed(p)'
    BY <1>4 DEF TypeOK, Keyed, LatestKeyed, Propose
  <1>7. Grown /\ clock' \in Int
    BY <1>2 DEF Grown, Propose, TypeOK, Typed
  <1>8. Keyed'
    BY <1>1, <1>2, <1>3, <1>4, <1>6, <1>7, JobsStayKeyed DEF TypeOK, Keyed, Propose
  <1> QED BY <1>5, <1>8 DEF TypeOK

LEMMA SourceTyped ==
  ASSUME TypeOK, (\E p \in DOMAIN proposals : CompleteEvidence(p)) \/ ScoreRegime
  PROVE  TypeOK'
  <1>1. /\ UNCHANGED <<proposals, status, latest, reviews, comparisons, clock,
                      reviewing, comparing>>
        /\ complete' \subseteq DOMAIN proposals /\ regime' \in Scope(Regimes)
    BY DEF CompleteEvidence, ScoreRegime, TypeOK, Typed, Scope
  <1>2. Typed'
    BY <1>1 DEF TypeOK, Typed
  <1>3. Grown /\ clock' \in Int
    BY <1>1 DEF Grown, TypeOK, Typed
  <1>4. \A p \in DOMAIN latest' : LatestKeyed(p)'
    BY <1>1 DEF TypeOK, Keyed, LatestKeyed
  <1>5. Keyed'
    BY <1>1, <1>3, <1>4, JobsStayKeyed DEF TypeOK, Keyed
  <1> QED BY <1>2, <1>5 DEF TypeOK

(* A step of one reviewer that leaves the tables alone. *)
ReviewerGoes(r, job) ==
  /\ reviewing' = [reviewing EXCEPT ![r] = job]
  /\ tables' = tables /\ comparing' = comparing
  /\ clock' \in 0 .. MaxReviews /\ clock <= clock'
  /\ job.proposal # 0 =>
       /\ job.proposal \in DOMAIN proposals /\ job.decision \in Decisions
       /\ job.loaded \in Status /\ job.at <= clock'

LEMMA ReviewerTyped ==
  ASSUME TypeOK, NEW r \in Reviewers, NEW job \in ReviewJob, ReviewerGoes(r, job)
  PROVE  TypeOK'
  <1> USE DEF ReviewerGoes
  <1>1. /\ reviewing' \in [Reviewers -> ReviewJob] /\ reviewing'[r] = job
        /\ \A q \in Reviewers \ {r} : reviewing'[q] = reviewing[q]
    BY DEF TypeOK, Typed
  <1>2. Typed'
    BY <1>1 DEF TypeOK, Typed, tables
  <1>3. Grown /\ clock' \in Int
    BY DEF Grown, tables, TypeOK, Typed
  <1>4. \A q \in Reviewers : ReviewJobKeyed(q)'
    <2>1. ReviewJobKeyed(r)'
      BY <1>1 DEF ReviewJobKeyed, tables
    <2>2. ASSUME NEW q \in Reviewers \ {r} PROVE ReviewJobKeyed(q)'
      BY <1>1, <1>3, JobsStayKeyed DEF TypeOK
    <2> QED BY <2>1, <2>2
  <1>5. \A p \in DOMAIN latest' : LatestKeyed(p)'
    BY DEF TypeOK, Keyed, LatestKeyed, tables
  <1>6. /\ \A c \in Comparators : CompareJobKeyed(c)'
        /\ \A i \in DOMAIN comparisons' : ComparisonKeyed(i)'
    BY <1>3, JobsStayKeyed DEF TypeOK, tables
  <1>7. Keyed'
    BY <1>4, <1>5, <1>6 DEF TypeOK, Keyed, tables
  <1> QED BY <1>2, <1>7 DEF TypeOK

LEMMA IdOfProposal ==
  ASSUME Typed, Keyed
  PROVE  /\ DOMAIN proposals = 1 .. Len(proposals) /\ Len(proposals) \in Nat
         /\ DOMAIN proposals \subseteq ProposalIds
         /\ DOMAIN status = DOMAIN proposals /\ DOMAIN latest = DOMAIN proposals
         /\ \A p \in DOMAIN proposals :
              status[p] \in Status /\ latest[p] \in Nat /\ proposals[p] \in Draft
  BY GovernanceAssumption DEF Typed, Keyed, ProposalIds

LEMMA StartReviewTyped ==
  ASSUME TypeOK, NEW r \in Reviewers, NEW p \in DOMAIN proposals, StartReview(r, p)
  PROVE  TypeOK'
  <1> DEFINE job == [proposal |-> p, decision |-> Decision(p),
                     regime |-> SourceRegime(proposals[p]), at |-> clock + 1,
                     loaded |-> status[p]]
  <1>1. /\ p \in 0 .. MaxProposals /\ p # 0 /\ status[p] \in Status /\ proposals[p] \in Draft
        /\ clock \in 0 .. MaxReviews /\ MaxReviews \in Nat /\ clock < MaxReviews
        /\ clock' = clock + 1 /\ regime \in Scope(Regimes)
    BY IdOfProposal, GovernanceAssumption DEF TypeOK, Typed, ProposalIds, StartReview
  <1>2. Decision(p) \in Decisions /\ SourceRegime(proposals[p]) \in Scope(Regimes)
    BY <1>1 DEF Decision, Decisions, SourceRegime, Draft
  <1>3. job \in ReviewJob
    BY <1>1, <1>2 DEF ReviewJob, Scope
  <1>4. /\ job.proposal = p /\ job.decision = Decision(p) /\ job.loaded = status[p]
        /\ job.at = clock + 1
    OBVIOUS
  <1>5. /\ tables' = tables /\ comparing' = comparing
        /\ reviewing' = [reviewing EXCEPT ![r] = job]
    BY DEF StartReview
  <1> HIDE DEF job
  <1>6. ReviewerGoes(r, job)
    BY <1>1, <1>2, <1>4, <1>5 DEF ReviewerGoes
  <1> QED BY <1>3, <1>6, ReviewerTyped

LEMMA AbortReviewTyped ==
  ASSUME TypeOK, NEW r \in Reviewers, AbortReview(r)
  PROVE  TypeOK'
  <1>1. NoReview \in ReviewJob /\ NoReview.proposal = 0
    BY IdleTypes, GovernanceAssumption
  <1>2. clock \in 0 .. MaxReviews /\ MaxReviews \in Nat
    BY GovernanceAssumption DEF TypeOK, Typed
  <1>3. /\ tables' = tables /\ comparing' = comparing /\ clock' = clock
        /\ reviewing' = [reviewing EXCEPT ![r] = NoReview]
    BY DEF AbortReview
  <1>4. ReviewerGoes(r, NoReview)
    BY <1>1, <1>2, <1>3 DEF ReviewerGoes
  <1> QED BY <1>1, <1>4, ReviewerTyped

(* What the commit of a review does, in one place. *)
ReviewCommits(r, job, n) ==
  /\ job \in ReviewJob /\ job.proposal \in DOMAIN proposals
  /\ job.decision \in Decisions /\ job.loaded \in Status /\ job.at <= clock
  /\ reviews' \in Seq(Review) /\ DOMAIN reviews' = DOMAIN reviews \cup {n}
  /\ DOMAIN reviews = 1 .. Len(reviews) /\ Len(reviews) \in Nat /\ n = Len(reviews) + 1
  /\ \A i \in DOMAIN reviews : reviews'[i] = reviews[i]
  /\ reviews'[n].proposal = job.proposal
  /\ reviews'[n].decision = job.decision /\ reviews'[n].at = job.at
  /\ latest' \in Seq(Nat) /\ Len(latest') = Len(latest) /\ DOMAIN latest' = DOMAIN latest
  /\ \A p \in DOMAIN latest : p # job.proposal => latest'[p] = latest[p]
  /\ latest'[job.proposal] \in {latest[job.proposal], n}
  /\ latest[job.proposal] = 0 => latest'[job.proposal] = n
  /\ latest[job.proposal] # 0 /\ reviews[latest[job.proposal]].at <= job.at =>
       latest'[job.proposal] = n
  /\ status' \in Seq(Status) /\ Len(status') = Len(status) /\ DOMAIN status' = DOMAIN status
  /\ \A p \in DOMAIN status : p # job.proposal => status'[p] = status[p]
  /\ status'[job.proposal] = StatusAfter(job.proposal, job.loaded, job.decision)
  /\ reviewing'[r] = NoReview
  /\ \A q \in Reviewers \ {r} : reviewing'[q] = reviewing[q]
  /\ reviewing' \in [Reviewers -> ReviewJob]

LEMMA ReviewCommitted ==
  ASSUME TypeOK, NEW r \in Reviewers, CommitReview(r), NEW job, job = reviewing[r],
         NEW n, n = Len(reviews) + 1
  PROVE  ReviewCommits(r, job, n)
  <1> DEFINE row == [proposal |-> job.proposal, decision |-> job.decision,
                     regime |-> job.regime, at |-> job.at]
  <1>1. /\ job \in ReviewJob /\ ReviewJobKeyed(r) /\ job.proposal # 0
    BY DEF TypeOK, Typed, Keyed, CommitReview
  <1>2. /\ job.proposal \in DOMAIN proposals /\ job.decision \in Decisions
        /\ job.loaded \in Status /\ job.at <= clock
        /\ job.regime \in Scope(Regimes) /\ job.at \in Nat
    BY <1>1 DEF ReviewJobKeyed, ReviewJob
  <1>3. /\ job.proposal \in ProposalIds /\ DOMAIN latest = DOMAIN proposals
        /\ DOMAIN status = DOMAIN proposals
    BY <1>2, IdOfProposal DEF TypeOK
  <1>4. row \in Review /\ row.proposal = job.proposal /\ row.decision = job.decision
        /\ row.at = job.at
    BY <1>2, <1>3 DEF Review
  <1>5. reviews \in Seq(Review) /\ reviews' = Append(reviews, row)
    BY DEF CommitReview, TypeOK, Typed
  <1> HIDE DEF row
  <1>6. /\ reviews' \in Seq(Review) /\ DOMAIN reviews' = DOMAIN reviews \cup {Len(reviews) + 1}
        /\ DOMAIN reviews = 1 .. Len(reviews) /\ Len(reviews) \in Nat
        /\ \A i \in DOMAIN reviews : reviews'[i] = reviews[i]
        /\ reviews'[Len(reviews) + 1] = row
    BY <1>4, <1>5, AppendRow
  <1>7. /\ latest' \in Seq(Nat) /\ Len(latest') = Len(latest) /\ DOMAIN latest' = DOMAIN latest
        /\ \A p \in DOMAIN latest : p # job.proposal => latest'[p] = latest[p]
        /\ latest'[job.proposal] =
             IF latest[job.proposal] = 0 THEN Len(reviews) + 1
             ELSE IF reviews[latest[job.proposal]].at <= job.at THEN Len(reviews) + 1
             ELSE latest[job.proposal]
    <2> DEFINE new == IF latest[job.proposal] = 0 THEN Len(reviews) + 1
                      ELSE IF reviews[latest[job.proposal]].at <= job.at THEN Len(reviews) + 1
                      ELSE latest[job.proposal]
    <2>1. latest \in Seq(Nat) /\ job.proposal \in DOMAIN latest
      BY <1>2, <1>3 DEF TypeOK, Typed
    <2>2. latest' = [latest EXCEPT ![job.proposal] = new]
      BY DEF CommitReview
    <2>3. new \in Nat
      BY <2>1, <1>6
    <2> HIDE DEF new
    <2>4. /\ latest' \in Seq(Nat) /\ Len(latest') = Len(latest) /\ DOMAIN latest' = DOMAIN latest
          /\ \A p \in DOMAIN latest : p # job.proposal => latest'[p] = latest[p]
          /\ latest'[job.proposal] = new
      BY <2>1, <2>2, <2>3
    <2> QED BY <2>4 DEF new
  <1>8. /\ status' \in Seq(Status) /\ Len(status') = Len(status) /\ DOMAIN status' = DOMAIN status
        /\ \A p \in DOMAIN status : p # job.proposal => status'[p] = status[p]
        /\ status'[job.proposal] = StatusAfter(job.proposal, job.loaded, job.decision)
    <2> DEFINE new == StatusAfter(job.proposal, job.loaded, job.decision)
    <2>1. status \in Seq(Status) /\ job.proposal \in DOMAIN status
      BY <1>2, <1>3 DEF TypeOK, Typed
    <2>2. status' = [status EXCEPT ![job.proposal] = new]
      BY DEF CommitReview
    <2>3. new \in Status
      BY <2>1, <1>2 DEF StatusAfter, Status
    <2> HIDE DEF new
    <2>4. /\ status' \in Seq(Status) /\ Len(status') = Len(status) /\ DOMAIN status' = DOMAIN status
          /\ \A p \in DOMAIN status : p # job.proposal => status'[p] = status[p]
          /\ status'[job.proposal] = new
      BY <2>1, <2>2, <2>3
    <2> QED BY <2>4 DEF new
  <1>9. /\ reviewing'[r] = NoReview /\ reviewing' \in [Reviewers -> ReviewJob]
        /\ \A q \in Reviewers \ {r} : reviewing'[q] = reviewing[q]
    BY IdleTypes, GovernanceAssumption DEF CommitReview, TypeOK, Typed
  <1> QED BY <1>1, <1>2, <1>4, <1>6, <1>7, <1>8, <1>9 DEF ReviewCommits

LEMMA CommitReviewTyped ==
  ASSUME TypeOK, NEW r \in Reviewers, CommitReview(r)
  PROVE  TypeOK'
  <1> PICK job : job = reviewing[r]
    OBVIOUS
  <1> PICK n : n = Len(reviews) + 1
    OBVIOUS
  <1>0. ReviewCommits(r, job, n)
    BY ReviewCommitted
  <1> USE <1>0 DEF ReviewCommits
  <1>1. UNCHANGED <<proposals, complete, regime, comparisons, clock, comparing>>
    BY DEF CommitReview
  <1>2. Typed'
    BY <1>1 DEF TypeOK, Typed
  <1>3. Grown /\ clock' \in Int
    BY <1>1 DEF Grown, TypeOK, Typed
  <1>4. ASSUME NEW p \in DOMAIN latest' PROVE LatestKeyed(p)'
    <2>1. p \in DOMAIN latest /\ LatestKeyed(p)
      BY <1>4 DEF TypeOK, Keyed
    <2>2. CASE p # job.proposal
      BY <2>1, <2>2 DEF LatestKeyed
    <2>3. CASE p = job.proposal
      BY <2>1, <2>3 DEF LatestKeyed
    <2> QED BY <2>2, <2>3
  <1>5. \A q \in Reviewers : ReviewJobKeyed(q)'
    <2>1. ReviewJobKeyed(r)'
      BY IdleTypes, GovernanceAssumption DEF ReviewJobKeyed
    <2>2. ASSUME NEW q \in Reviewers \ {r} PROVE ReviewJobKeyed(q)'
      BY <1>3, JobsStayKeyed DEF TypeOK
    <2> QED BY <2>1, <2>2
  <1>6. /\ \A c \in Comparators : CompareJobKeyed(c)'
        /\ \A i \in DOMAIN comparisons' : ComparisonKeyed(i)'
    BY <1>1, <1>3, JobsStayKeyed DEF TypeOK
  <1>7. ASSUME NEW i \in DOMAIN reviews' PROVE reviews'[i].proposal \in DOMAIN proposals'
    <2>1. CASE i \in DOMAIN reviews
      BY <1>1, <2>1 DEF TypeOK, Keyed
    <2>2. CASE i = n
      BY <1>1, <2>2
    <2> QED BY <1>7, <2>1, <2>2
  <1>8. Keyed'
    BY <1>1, <1>4, <1>5, <1>6, <1>7 DEF TypeOK, Keyed
  <1> QED BY <1>2, <1>8 DEF TypeOK

(* A step of one comparator that leaves the tables alone. *)
ComparatorGoes(c, job) ==
  /\ comparing' = [comparing EXCEPT ![c] = job]
  /\ tables' = tables /\ reviewing' = reviewing /\ clock' = clock
  /\ DOMAIN job.loaded \subseteq DOMAIN proposals
  /\ DOMAIN job.items \subseteq DOMAIN job.loaded
  /\ IsOutcome(job.outcome, job.items, reviews)

LEMMA ComparatorTyped ==
  ASSUME TypeOK, NEW c \in Comparators, NEW job \in CompareJob, ComparatorGoes(c, job)
  PROVE  TypeOK'
  <1> USE DEF ComparatorGoes
  <1>1. /\ comparing' \in [Comparators -> CompareJob] /\ comparing'[c] = job
        /\ \A d \in Comparators \ {c} : comparing'[d] = comparing[d]
    BY DEF TypeOK, Typed
  <1>2. Typed'
    BY <1>1 DEF TypeOK, Typed, tables
  <1>3. Grown /\ clock' \in Int
    BY DEF Grown, tables, TypeOK, Typed
  <1>4. \A d \in Comparators : CompareJobKeyed(d)'
    <2>1. CompareJobKeyed(c)'
      BY <1>1 DEF CompareJobKeyed, tables
    <2>2. ASSUME NEW d \in Comparators \ {c} PROVE CompareJobKeyed(d)'
      BY <1>1, <1>3, JobsStayKeyed DEF TypeOK
    <2> QED BY <2>1, <2>2
  <1>5. \A p \in DOMAIN latest' : LatestKeyed(p)'
    BY DEF TypeOK, Keyed, LatestKeyed, tables
  <1>6. /\ \A r \in Reviewers : ReviewJobKeyed(r)'
        /\ \A i \in DOMAIN comparisons' : ComparisonKeyed(i)'
    BY <1>3, JobsStayKeyed DEF TypeOK, tables
  <1>7. Keyed'
    BY <1>4, <1>5, <1>6 DEF TypeOK, Keyed, tables
  <1> QED BY <1>2, <1>7 DEF TypeOK

LEMMA StartCompareTyped ==
  ASSUME TypeOK, NEW c \in Comparators, NEW ids \in SUBSET DOMAIN proposals,
         NEW filter \in Filters, NEW top \in BOOLEAN, StartCompare(c, ids, filter, top)
  PROVE  TypeOK'
  <1> DEFINE scope == IF ids = {} THEN DefaultScope ELSE ids
             found == [p \in scope |-> status[p]]
             job == [stage |-> "loaded", ids |-> ids, filter |-> filter, top |-> top,
                     loaded |-> found, seen |-> Len(reviews), items |-> NoItems,
                     outcome |-> Nothing]
  <1>1. scope \subseteq DOMAIN proposals /\ scope \in SUBSET ProposalIds
        /\ ids \in SUBSET ProposalIds
    BY IdOfProposal DEF DefaultScope, TypeOK
  <1>2. found \in [scope -> Status] /\ DOMAIN found = scope
    BY <1>1, IdOfProposal DEF TypeOK
  <1>3. found \in Partial(Status)
    BY <1>1, <1>2 DEF Partial
  <1>4. NoItems \in Partial(Item) /\ Nothing \in OutcomeRow /\ filter \in Filter
        /\ Len(reviews) \in Nat
    BY EmptyPartial, GovernanceAssumption
    DEF NoItems, Nothing, Outcome, OutcomeRow, TypeOK, Typed
  <1>5. comparing' = [comparing EXCEPT ![c] = job] /\ tables' = tables
        /\ reviewing' = reviewing /\ clock' = clock
    BY DEF StartCompare
  <1> HIDE DEF scope, found
  <1>6. job \in CompareJob /\ job.loaded = found /\ job.items = NoItems
        /\ job.outcome = Nothing
    BY <1>1, <1>3, <1>4 DEF CompareJob
  <1> HIDE DEF job
  <1>7. DOMAIN NoItems = {} /\ IsOutcome(Nothing, NoItems, reviews)
    BY IdleTypes, GovernanceAssumption
  <1>8. ComparatorGoes(c, job)
    BY <1>1, <1>2, <1>5, <1>6, <1>7 DEF ComparatorGoes
  <1> QED BY <1>6, <1>8, ComparatorTyped

LEMMA AbortCompareTyped ==
  ASSUME TypeOK, NEW c \in Comparators, AbortCompare(c)
  PROVE  TypeOK'
  <1>1. /\ NoComparison \in CompareJob /\ NoComparison.outcome = Nothing
        /\ NoComparison.items = NoItems /\ DOMAIN NoComparison.loaded = {}
        /\ DOMAIN NoItems = {} /\ IsOutcome(Nothing, NoItems, reviews)
    BY IdleTypes, GovernanceAssumption
  <1>2. /\ comparing' = [comparing EXCEPT ![c] = NoComparison] /\ tables' = tables
        /\ reviewing' = reviewing /\ clock' = clock
    BY DEF AbortCompare
  <1>3. ComparatorGoes(c, NoComparison)
    BY <1>1, <1>2 DEF ComparatorGoes
  <1> QED BY <1>1, <1>3, ComparatorTyped

(* What a comparison ranks, for the proof of what it decides. *)
RankedItems(c) ==
  [p \in {q \in DOMAIN comparing[c].loaded : InScope(q, comparing[c])} |->
     [decision |-> LatestDecision(p), fit |-> RegimeFit(p)]]
RankedJob(c, outcome) ==
  [stage |-> "ranked", ids |-> comparing[c].ids, filter |-> comparing[c].filter,
   top |-> comparing[c].top, loaded |-> comparing[c].loaded, seen |-> comparing[c].seen,
   items |-> RankedItems(c), outcome |-> outcome]
Choice(c, outcome) ==
  \/ \E p \in DOMAIN RankedItems(c) :
       /\ Selects(p, RankedItems(c))
       /\ outcome = Outcome(p, latest[p], Superseded(p, RankedItems(c)))
  \/ outcome = Nothing

LEMMA RankChooses ==
  ASSUME NEW c, Rank(c)
  PROVE  \E outcome : /\ Choice(c, outcome)
                      /\ comparing' = [comparing EXCEPT ![c] = RankedJob(c, outcome)]
                      /\ tables' = tables /\ reviewing' = reviewing /\ clock' = clock
  <1> DEFINE scope == {q \in DOMAIN comparing[c].loaded : InScope(q, comparing[c])}
  <1>1. DOMAIN RankedItems(c) = scope
    BY DEF RankedItems
  <1>2. CASE \E p \in scope :
              /\ Selects(p, RankedItems(c))
              /\ comparing' = [comparing EXCEPT ![c] =
                   RankedJob(c, Outcome(p, latest[p], Superseded(p, RankedItems(c))))]
    BY <1>1, <1>2 DEF Choice, Rank
  <1>3. CASE comparing' = [comparing EXCEPT ![c] = RankedJob(c, Nothing)]
    BY <1>3 DEF Choice, Rank
  <1>4. Outcome(0, 0, Superseded(0, RankedItems(c))) = Nothing
    BY DEF Superseded, Nothing
  <1> QED BY <1>2, <1>3, <1>4 DEF Rank, RankedItems, RankedJob

LEMMA RankedTypes ==
  ASSUME TypeOK, NEW c \in Comparators
  PROVE  /\ DOMAIN RankedItems(c) \subseteq DOMAIN comparing[c].loaded
         /\ DOMAIN RankedItems(c) \subseteq DOMAIN proposals
         /\ DOMAIN RankedItems(c) \subseteq ProposalIds
         /\ \A p \in DOMAIN RankedItems(c) :
              RankedItems(c)[p] \in Item /\ RankedItems(c)[p].decision = LatestDecision(p)
         /\ RankedItems(c) \in Partial(Item)
  <1>1. DOMAIN comparing[c].loaded \subseteq DOMAIN proposals
    BY DEF TypeOK, Keyed, CompareJobKeyed
  <1>2. /\ DOMAIN RankedItems(c) \subseteq DOMAIN comparing[c].loaded
        /\ DOMAIN RankedItems(c) \subseteq DOMAIN proposals
        /\ DOMAIN RankedItems(c) \subseteq ProposalIds
    BY <1>1, IdOfProposal DEF RankedItems, TypeOK
  <1>3. ASSUME NEW p \in DOMAIN RankedItems(c)
        PROVE  RankedItems(c)[p] \in Item /\ RankedItems(c)[p].decision = LatestDecision(p)
    <2>1. LatestDecision(p) \in Scope(Decisions)
      <3>1. p \in DOMAIN latest /\ LatestKeyed(p) /\ reviews \in Seq(Review)
        BY <1>2, IdOfProposal DEF TypeOK, Keyed, Typed
      <3>2. ASSUME NEW i \in DOMAIN reviews PROVE reviews[i].decision \in Decisions
        <4>1. reviews[i] \in Review
          BY <3>1
        <4> QED BY <4>1 DEF Review
      <3> QED BY <3>1, <3>2 DEF LatestDecision, LatestKeyed, Scope
    <2>2. RegimeFit(p) \in 0 .. 3
      BY DEF RegimeFit
    <2>3. RankedItems(c)[p] = [decision |-> LatestDecision(p), fit |-> RegimeFit(p)]
      BY <1>3 DEF RankedItems
    <2> QED BY <2>1, <2>2, <2>3 DEF Item
  <1>4. RankedItems(c) \in [DOMAIN RankedItems(c) -> Item]
    <2>1. RankedItems(c) = [p \in DOMAIN RankedItems(c) |-> RankedItems(c)[p]]
      BY DEF RankedItems
    <2> QED BY <1>3, <2>1
  <1> QED BY <1>2, <1>3, <1>4 DEF Partial

LEMMA ChoiceTypes ==
  ASSUME TypeOK, NEW c \in Comparators, NEW outcome, Choice(c, outcome)
  PROVE  outcome \in OutcomeRow /\ IsOutcome(outcome, RankedItems(c), reviews)
  <1> DEFINE items == RankedItems(c)
  <1>1. CASE outcome = Nothing
    BY <1>1, GovernanceAssumption DEF Nothing, Outcome, OutcomeRow, IsOutcome
  <1>2. ASSUME NEW p \in DOMAIN items, Selects(p, items),
               outcome = Outcome(p, latest[p], Superseded(p, items))
        PROVE  outcome \in OutcomeRow /\ IsOutcome(outcome, items, reviews)
    <2>1. /\ p \in DOMAIN latest /\ p # 0 /\ p \in 1 .. MaxProposals /\ latest[p] \in Nat
          /\ items[p].decision = LatestDecision(p) /\ LatestKeyed(p)
      BY <1>2, RankedTypes, IdOfProposal DEF TypeOK, Keyed, ProposalIds
    <2>2. latest[p] # 0
      BY <1>2, <2>1 DEF Selects, LatestDecision
    <2>3. Superseded(p, items) \subseteq DOMAIN items \ {p}
      BY <2>1 DEF Superseded, Competitors
    <2>4. DOMAIN items \subseteq ProposalIds
      BY RankedTypes
    <2>5. /\ outcome.selected = p /\ outcome.review = latest[p]
          /\ outcome.superseded = Superseded(p, items)
      BY <1>2 DEF Outcome
    <2>6. outcome \in OutcomeRow
      BY <1>2, <2>1, <2>3, <2>4 DEF Outcome, OutcomeRow
    <2>7. IsOutcome(outcome, items, reviews)
      BY <1>2, <2>1, <2>2, <2>3, <2>5 DEF IsOutcome, LatestKeyed
    <2> QED BY <2>6, <2>7
  <1> QED BY <1>1, <1>2 DEF Choice

LEMMA RankTyped ==
  ASSUME TypeOK, NEW c \in Comparators, Rank(c)
  PROVE  TypeOK'
  <1> PICK outcome : /\ Choice(c, outcome)
                     /\ comparing' = [comparing EXCEPT ![c] = RankedJob(c, outcome)]
                     /\ tables' = tables /\ reviewing' = reviewing /\ clock' = clock
    BY RankChooses
  <1>1. outcome \in OutcomeRow /\ IsOutcome(outcome, RankedItems(c), reviews)
    BY ChoiceTypes
  <1>2. comparing[c] \in CompareJob /\ CompareJobKeyed(c)
    BY DEF TypeOK, Typed, Keyed
  <1>3. /\ RankedJob(c, outcome) \in CompareJob
        /\ RankedJob(c, outcome).loaded = comparing[c].loaded
        /\ RankedJob(c, outcome).items = RankedItems(c)
        /\ RankedJob(c, outcome).outcome = outcome
    BY <1>1, <1>2, RankedTypes DEF RankedJob, CompareJob
  <1>4. ComparatorGoes(c, RankedJob(c, outcome))
    BY <1>1, <1>2, <1>3, RankedTypes DEF ComparatorGoes, CompareJobKeyed
  <1> QED BY <1>3, <1>4, ComparatorTyped

(* What the commit of a comparison does, in one place. *)
CompareCommits(c, job, n) ==
  /\ job \in CompareJob /\ CompareJobKeyed(c)
  /\ comparisons' \in Seq(Comparison)
  /\ DOMAIN comparisons' = DOMAIN comparisons \cup {n}
  /\ DOMAIN comparisons = 1 .. Len(comparisons) /\ Len(comparisons) \in Nat
  /\ \A i \in DOMAIN comparisons : comparisons'[i] = comparisons[i]
  /\ comparisons'[n].items = job.items /\ comparisons'[n].outcome = job.outcome
  /\ comparisons'[n].ids = job.ids /\ comparisons'[n].filter = job.filter
  /\ comparisons'[n].seen = job.seen
  /\ status' \in Seq(Status) /\ Len(status') = Len(status) /\ DOMAIN status' = DOMAIN status
  /\ \A p \in DOMAIN status : status'[p] =
       IF Given(p, job.outcome) = "none" THEN status[p]
       ELSE StatusAfter(p, job.loaded[p], Given(p, job.outcome))
  /\ comparing' \in [Comparators -> CompareJob] /\ comparing'[c] = NoComparison
  /\ \A d \in Comparators \ {c} : comparing'[d] = comparing[d]

LEMMA CompareCommitted ==
  ASSUME TypeOK, NEW c \in Comparators, CommitCompare(c), NEW job, job = comparing[c],
         NEW n, n = Len(comparisons) + 1
  PROVE  CompareCommits(c, job, n)
  <1> DEFINE row == [ids |-> job.ids, filter |-> job.filter, top |-> job.top,
                     seen |-> job.seen, items |-> job.items, outcome |-> job.outcome]
             new(p) == IF Given(p, job.outcome) = "none" THEN status[p]
                       ELSE StatusAfter(p, job.loaded[p], Given(p, job.outcome))
  <1>1. job \in CompareJob /\ CompareJobKeyed(c)
    BY DEF TypeOK, Typed, Keyed
  <1>2. /\ row \in Comparison /\ row.items = job.items /\ row.outcome = job.outcome
        /\ row.ids = job.ids /\ row.filter = job.filter /\ row.seen = job.seen
    BY <1>1 DEF CompareJob, Comparison
  <1>3. comparisons \in Seq(Comparison) /\ comparisons' = Append(comparisons, row)
    BY DEF CommitCompare, TypeOK, Typed
  <1>4. status \in Seq(Status) /\ DOMAIN status = 1 .. Len(status) /\ Len(status) \in Nat
        /\ status' = [p \in DOMAIN status |-> new(p)]
    BY DEF CommitCompare, TypeOK, Typed
  <1> HIDE DEF row
  <1>5. /\ comparisons' \in Seq(Comparison)
        /\ DOMAIN comparisons' = DOMAIN comparisons \cup {n}
        /\ DOMAIN comparisons = 1 .. Len(comparisons) /\ Len(comparisons) \in Nat
        /\ \A i \in DOMAIN comparisons : comparisons'[i] = comparisons[i]
        /\ comparisons'[n] = row
    BY <1>2, <1>3, AppendRow
  <1>6. \A p \in DOMAIN status : new(p) \in Status
    BY <1>4 DEF Given, StatusAfter, Status
  <1> HIDE DEF new
  <1>7. /\ status' \in Seq(Status) /\ Len(status') = Len(status) /\ DOMAIN status' = DOMAIN status
        /\ \A p \in DOMAIN status : status'[p] = new(p)
    BY <1>4, <1>6
  <1>8. /\ comparing' \in [Comparators -> CompareJob] /\ comparing'[c] = NoComparison
        /\ \A d \in Comparators \ {c} : comparing'[d] = comparing[d]
    BY IdleTypes, GovernanceAssumption DEF CommitCompare, TypeOK, Typed
  <1> QED BY <1>1, <1>2, <1>5, <1>7, <1>8 DEF new, CompareCommits

LEMMA CommitCompareTyped ==
  ASSUME TypeOK, NEW c \in Comparators, CommitCompare(c)
  PROVE  TypeOK'
  <1> PICK job : job = comparing[c]
    OBVIOUS
  <1> PICK n : n = Len(comparisons) + 1
    OBVIOUS
  <1>1. UNCHANGED <<proposals, complete, regime, reviews, latest, clock, reviewing>>
    BY DEF CommitCompare
  <1>0. CompareCommits(c, job, n)
    BY CompareCommitted
  <1>2. Typed'
    BY <1>0, <1>1 DEF TypeOK, Typed, CompareCommits
  <1>3. Grown /\ clock' \in Int
    BY <1>1 DEF Grown, TypeOK, Typed
  <1>4. \A p \in DOMAIN latest' : LatestKeyed(p)'
    BY <1>1 DEF TypeOK, Keyed, LatestKeyed
  <1>5. ASSUME NEW d \in Comparators PROVE CompareJobKeyed(d)'
    <2>1. CASE d = c
      <3>1. comparing'[c] = NoComparison
        BY <1>0 DEF CompareCommits
      <3>2. /\ NoComparison.outcome = Nothing /\ NoComparison.items = NoItems
            /\ DOMAIN NoComparison.loaded = {} /\ DOMAIN NoItems = {}
            /\ IsOutcome(Nothing, NoItems, reviews')
        BY IdleTypes, GovernanceAssumption
      <3> QED BY <2>1, <3>1, <3>2 DEF CompareJobKeyed
    <2>2. CASE d # c
      BY <1>0, <1>3, <2>2, JobsStayKeyed DEF TypeOK, CompareCommits
    <2> QED BY <2>1, <2>2
  <1>6. ASSUME NEW i \in DOMAIN comparisons' PROVE ComparisonKeyed(i)'
    <2>1. CASE i \in DOMAIN comparisons
      <3>1. ComparisonKeyed(i)
        BY <2>1 DEF TypeOK, Keyed
      <3>2. comparisons'[i] = comparisons[i]
        BY <1>0, <2>1 DEF CompareCommits
      <3> QED BY <1>1, <3>1, <3>2 DEF ComparisonKeyed
    <2>2. CASE i = n
      <3>1. /\ comparisons'[i].items = job.items /\ comparisons'[i].outcome = job.outcome
            /\ CompareJobKeyed(c)
        BY <1>0, <2>2 DEF CompareCommits
      <3> QED BY <1>1, <3>1 DEF ComparisonKeyed, CompareJobKeyed
    <2> QED BY <1>0, <1>6, <2>1, <2>2 DEF CompareCommits
  <1>7. \A r \in Reviewers : ReviewJobKeyed(r)'
    BY <1>1, <1>3, JobsStayKeyed DEF TypeOK
  <1>8. Keyed'
    BY <1>0, <1>1, <1>4, <1>5, <1>6, <1>7 DEF TypeOK, Keyed, CompareCommits
  <1> QED BY <1>2, <1>8 DEF TypeOK

LEMMA StutterTyped ==
  ASSUME TypeOK, UNCHANGED vars
  PROVE  TypeOK'
  <1>1. Typed' /\ Grown /\ clock' \in Int
    BY DEF TypeOK, Typed, Grown, vars
  <1>2. \A p \in DOMAIN latest' : LatestKeyed(p)'
    BY DEF TypeOK, Keyed, LatestKeyed, vars
  <1>3. Keyed'
    BY <1>1, <1>2, JobsStayKeyed DEF TypeOK, Keyed, vars
  <1> QED BY <1>1, <1>3 DEF TypeOK

LEMMA StepTyped ==
  ASSUME TypeOK, [Next]_vars
  PROVE  TypeOK'
  <1>1. ASSUME NEW d \in Drafts, Propose(d) PROVE TypeOK'
    BY <1>1, ProposeTyped
  <1>2. CASE (\E p \in DOMAIN proposals : CompleteEvidence(p)) \/ ScoreRegime
    BY <1>2, SourceTyped
  <1>3. ASSUME NEW r \in Reviewers, NEW p \in DOMAIN proposals, StartReview(r, p) PROVE TypeOK'
    BY <1>3, StartReviewTyped
  <1>4. ASSUME NEW r \in Reviewers, CommitReview(r) PROVE TypeOK'
    BY <1>4, CommitReviewTyped
  <1>5. ASSUME NEW r \in Reviewers, AbortReview(r) PROVE TypeOK'
    BY <1>5, AbortReviewTyped
  <1>6. ASSUME NEW c \in Comparators, NEW ids \in SUBSET DOMAIN proposals,
               NEW filter \in Filters, NEW top \in BOOLEAN, StartCompare(c, ids, filter, top)
        PROVE  TypeOK'
    BY <1>6, StartCompareTyped
  <1>7. ASSUME NEW c \in Comparators, Rank(c) PROVE TypeOK'
    BY <1>7, RankTyped
  <1>8. ASSUME NEW c \in Comparators, CommitCompare(c) PROVE TypeOK'
    BY <1>8, CommitCompareTyped
  <1>9. ASSUME NEW c \in Comparators, AbortCompare(c) PROVE TypeOK'
    BY <1>9, AbortCompareTyped
  <1>10. CASE UNCHANGED vars
    BY <1>10, StutterTyped
  <1> QED BY <1>1, <1>2, <1>3, <1>4, <1>5, <1>6, <1>7, <1>8, <1>9, <1>10 DEF Next

(* The tables, and the transactions in flight, are well typed and refer to  *)
(* rows that exist, for any number of reviewers and comparators.            *)
THEOREM TypeCorrect == Spec => []TypeOK
  BY InitTyped, StepTyped, PTL DEF Spec

-----------------------------------------------------------------------------
(* What it takes to be selected. *)

(* The governor's score of an accepted candidate reaches the selection      *)
(* threshold only with the signal the bar asks of its kind.                 *)
LEMMA ScoreBar ==
  ASSUME NEW d \in Draft, NEW item \in Item, item.decision = "reviewed_accept",
         Score(d, item) >= MinSelectScore
  PROVE  \/ d.kind \in PaperKinds /\ d.signal >= 69
         \/ d.kind = "label_program" /\ d.signal >= 90
  <1> DEFINE fit == AtMost(100, 30 * item.fit + 10 * ProfileFit[d.kind])
             signal == d.signal
             rest == 300 * signal + 25 * PaperScore(d)
  <1>1. /\ d.kind \in Kinds /\ signal \in 0 .. 100
        /\ DecisionRank(item.decision) = 2 /\ ValidationBonus(item.decision) = 8
    BY DEF Draft, DecisionRank, ValidationBonus
  <1>2. fit \in Int /\ fit <= 100
    <2>1. item.fit \in 0 .. 3 /\ ProfileFit[d.kind] \in 0 .. 3
      BY <1>1, GovernanceAssumption DEF Item
    <2> QED BY <2>1 DEF AtMost
  <1>3. PaperScore(d) \in Int /\
        PaperScore(d) = IF d.kind \in PaperKinds THEN 10 * signal ELSE AtLeast(200, 7 * signal)
    BY <1>1 DEF PaperScore, AtLeast
  <1>4. Score(d, item) = Multiplier(d.kind) *
          (  rest + 150 * AtMost(100, 55 + 15 * Maturity(d.kind)) + 100 * fit + 7400
           - 70 * AtLeast(0, 8 - 3 * Maturity(d.kind)) - 30 * ComplexityPenalty(d.kind))
    <2>1. /\ Maturity(d.kind) \in Int /\ ComplexityPenalty(d.kind) \in Int
      BY DEF Maturity, ComplexityPenalty
    <2>2. /\ 35 + 15 * Maturity(d.kind) + 10 * 2 = 55 + 15 * Maturity(d.kind)
          /\ 12 - 3 * Maturity(d.kind) - 2 * 2 = 8 - 3 * Maturity(d.kind)
      BY <2>1
    <2>3. /\ AtMost(100, 55 + 15 * Maturity(d.kind)) \in Int
          /\ AtLeast(0, 8 - 3 * Maturity(d.kind)) \in Int
      BY <2>1 DEF AtMost, AtLeast
    <2> DEFINE m == AtMost(100, 55 + 15 * Maturity(d.kind))
               u == AtLeast(0, 8 - 3 * Maturity(d.kind))
               k == ComplexityPenalty(d.kind)
    <2>4. Score(d, item) = Multiplier(d.kind) *
            (300 * signal + 25 * PaperScore(d) + 150 * m + 100 * fit - 100 * 6
             - 70 * u - 30 * k + 1000 * 8)
      BY <1>1, <2>2 DEF Score
    <2> HIDE DEF m, u, k, fit, signal
    <2>5. signal \in Int /\ m \in Int /\ u \in Int /\ k \in Int
      BY <1>1, <2>1, <2>3 DEF m, u, k, signal
    <2>6. 300 * signal + 25 * PaperScore(d) + 150 * m + 100 * fit - 100 * 6
             - 70 * u - 30 * k + 1000 * 8
          = rest + 150 * m + 100 * fit + 7400 - 70 * u - 30 * k
      BY <1>2, <1>3, <2>5
    <2> QED BY <2>4, <2>6 DEF m, u, k
  <1> HIDE DEF fit
  <1>5. CASE d.kind \in PaperKinds
    <2>1. /\ Multiplier(d.kind) = 100 /\ Maturity(d.kind) = 3
          /\ ComplexityPenalty(d.kind) \in Int /\ ComplexityPenalty(d.kind) >= 2
      BY <1>5 DEF Multiplier, Maturity, ComplexityPenalty, PaperKinds
    <2>2. AtMost(100, 55 + 15 * 3) = 100 /\ AtLeast(0, 8 - 3 * 3) = 0
      BY DEF AtMost, AtLeast
    <2>3. PaperScore(d) = 10 * signal
      BY <1>3, <1>5
    <2> HIDE DEF signal
    <2>4. signal >= 69
      BY <1>1, <1>2, <1>4, <2>1, <2>2, <2>3 DEF MinSelectScore
    <2> QED BY <1>5, <2>4 DEF signal
  <1>6. CASE d.kind = "label_program"
    <2>1. /\ Multiplier(d.kind) = 100 /\ Maturity(d.kind) = 1 /\ ComplexityPenalty(d.kind) = 4
          /\ d.kind \notin PaperKinds
      BY <1>6 DEF Multiplier, Maturity, ComplexityPenalty, PaperKinds
    <2>2. AtMost(100, 55 + 15 * 1) = 70 /\ AtLeast(0, 8 - 3 * 1) = 5
      BY DEF AtMost, AtLeast
    <2>3. PaperScore(d) <= 200 \/ PaperScore(d) = 7 * signal
      BY <1>1, <1>3, <2>1 DEF AtLeast
    <2> HIDE DEF signal
    <2>4. signal >= 90
      BY <1>1, <1>2, <1>3, <1>4, <2>1, <2>2, <2>3 DEF MinSelectScore
    <2> QED BY <1>6, <2>4 DEF signal
  <1>7. CASE d.kind \notin PaperKinds \cup {"label_program"}
    <2>1. /\ Maturity(d.kind) = 2 /\ ComplexityPenalty(d.kind) \in Int
          /\ ComplexityPenalty(d.kind) >= 0 /\ Multiplier(d.kind) \in {65, 90}
      BY <1>7 DEF Multiplier, Maturity, ComplexityPenalty, PaperKinds
    <2>2. AtMost(100, 55 + 15 * 2) = 85 /\ AtLeast(0, 8 - 3 * 2) = 2
      BY DEF AtMost, AtLeast
    <2>3. PaperScore(d) <= 700
      BY <1>1, <1>3, <1>7 DEF AtLeast
    <2> HIDE DEF signal
    <2>4. CASE Multiplier(d.kind) = 90
      BY <1>1, <1>2, <1>3, <1>4, <2>1, <2>2, <2>3, <2>4 DEF MinSelectScore
    <2>5. CASE Multiplier(d.kind) = 65
      BY <1>1, <1>2, <1>3, <1>4, <2>1, <2>2, <2>3, <2>5 DEF MinSelectScore
    <2> QED BY <2>1, <2>4, <2>5
  <1> QED BY <1>5, <1>6, <1>7

Bar(o, items) == ClearsTheBar(o, items, proposals)

(* The bar is cleared by the rows, and by the outcome about to be written.  *)
BarInv ==
  /\ \A i \in DOMAIN comparisons : Bar(comparisons[i].outcome, comparisons[i].items)
  /\ \A c \in Comparators : Bar(comparing[c].outcome, comparing[c].items)

LEMMA NothingClears == \A items : Bar(Nothing, items) /\ Bar(NoComparison.outcome, items)
  BY DEF Bar, ClearsTheBar, Nothing, Outcome, NoComparison

(* A proposal is created: what is selected already is an older one. *)
LEMMA ProposeClears ==
  ASSUME TypeOK, BarInv, NEW d \in Drafts, Propose(d)
  PROVE  BarInv'
  <1>1. \A p \in DOMAIN proposals : proposals'[p] = proposals[p]
    <2>1. proposals \in Seq(Drafts) /\ proposals' = Append(proposals, d)
      BY DEF TypeOK, Typed, Propose
    <2> QED BY <2>1, AppendRow
  <1>2. comparisons' = comparisons /\ comparing' = comparing
    BY DEF Propose
  <1>3. ASSUME NEW i \in DOMAIN comparisons
        PROVE  Bar(comparisons[i].outcome, comparisons[i].items)'
    <2>1. ComparisonKeyed(i) /\ Bar(comparisons[i].outcome, comparisons[i].items)
      BY DEF TypeOK, Keyed, BarInv
    <2> DEFINE o == comparisons[i].outcome
               items == comparisons[i].items
    <2>2. o.selected # 0 => o.selected \in DOMAIN proposals
      BY <2>1 DEF ComparisonKeyed, IsOutcome
    <2>3. Bar(o, items)
      BY <2>1
    <2>4. ASSUME NEW p, p = o.selected, p # 0 PROVE proposals'[p] = proposals[p]
      BY <1>1, <2>2, <2>4
    <2> QED BY <1>2, <2>3, <2>4 DEF Bar, ClearsTheBar
  <1>4. ASSUME NEW c \in Comparators
        PROVE  Bar(comparing[c].outcome, comparing[c].items)'
    <2>1. CompareJobKeyed(c) /\ Bar(comparing[c].outcome, comparing[c].items)
      BY DEF TypeOK, Keyed, BarInv
    <2> DEFINE o == comparing[c].outcome
               items == comparing[c].items
    <2>2. o.selected # 0 => o.selected \in DOMAIN proposals
      BY <2>1 DEF CompareJobKeyed, IsOutcome
    <2>3. Bar(o, items)
      BY <2>1
    <2>4. ASSUME NEW p, p = o.selected, p # 0 PROVE proposals'[p] = proposals[p]
      BY <1>1, <2>2, <2>4
    <2> QED BY <1>2, <2>3, <2>4 DEF Bar, ClearsTheBar
  <1> QED BY <1>2, <1>3, <1>4 DEF BarInv

(* What is chosen clears the bar. *)
LEMMA ChoiceClears ==
  ASSUME TypeOK, NEW c \in Comparators, NEW outcome, Choice(c, outcome)
  PROVE  Bar(outcome, RankedItems(c))
  <1>1. CASE outcome = Nothing
    BY <1>1, NothingClears
  <1>2. ASSUME NEW p \in DOMAIN RankedItems(c), Selects(p, RankedItems(c)),
               outcome = Outcome(p, latest[p], Superseded(p, RankedItems(c)))
        PROVE  Bar(outcome, RankedItems(c))
    <2>1. p \in DOMAIN proposals /\ RankedItems(c)[p] \in Item
      BY RankedTypes
    <2>2. proposals[p] \in Draft
      BY <2>1, IdOfProposal DEF TypeOK
    <2>3. /\ RankedItems(c)[p].decision = "reviewed_accept"
          /\ Score(proposals[p], RankedItems(c)[p]) >= MinSelectScore
      BY <1>2 DEF Selects, ScoreOf
    <2>4. \/ proposals[p].kind \in PaperKinds /\ proposals[p].signal >= 69
          \/ proposals[p].kind = "label_program" /\ proposals[p].signal >= 90
      BY <2>1, <2>2, <2>3, ScoreBar
    <2>5. outcome.selected = p
      BY <1>2 DEF Outcome
    <2> QED BY <2>3, <2>4, <2>5 DEF Bar, ClearsTheBar
  <1> QED BY <1>1, <1>2 DEF Choice

(* A comparator goes on, and nothing else: its outcome is what matters. *)
ComparatorTakes(c, job) ==
  /\ comparing' = [comparing EXCEPT ![c] = job]
  /\ tables' = tables

LEMMA ComparatorClears ==
  ASSUME TypeOK, BarInv, NEW c \in Comparators, NEW job, ComparatorTakes(c, job),
         Bar(job.outcome, job.items)
  PROVE  BarInv'
  <1>1. comparing'[c] = job /\ \A d \in Comparators \ {c} : comparing'[d] = comparing[d]
    BY DEF TypeOK, Typed, ComparatorTakes
  <1> QED BY <1>1 DEF BarInv, Bar, tables, ComparatorTakes

LEMMA StepClears ==
  ASSUME TypeOK, BarInv, [Next]_vars
  PROVE  BarInv'
  <1>1. ASSUME NEW d \in Drafts, Propose(d) PROVE BarInv'
    BY <1>1, ProposeClears
  <1>2. CASE UNCHANGED <<proposals, comparisons, comparing>>
    BY <1>2 DEF BarInv, Bar
  <1>3. ASSUME NEW c \in Comparators, NEW ids \in SUBSET DOMAIN proposals,
               NEW filter \in Filters, NEW top \in BOOLEAN, StartCompare(c, ids, filter, top)
        PROVE  BarInv'
    <2> DEFINE job == [stage |-> "loaded", ids |-> ids, filter |-> filter, top |-> top,
                       loaded |-> [p \in (IF ids = {} THEN DefaultScope ELSE ids) |-> status[p]],
                       seen |-> Len(reviews), items |-> NoItems, outcome |-> Nothing]
    <2>1. job.outcome = Nothing
      OBVIOUS
    <2>2. comparing' = [comparing EXCEPT ![c] = job] /\ tables' = tables
      BY <1>3 DEF StartCompare
    <2> HIDE DEF job
    <2>3. ComparatorTakes(c, job)
      BY <2>2 DEF ComparatorTakes
    <2>4. Bar(job.outcome, job.items)
      BY <2>1, NothingClears
    <2> QED BY <2>3, <2>4, ComparatorClears
  <1>4. ASSUME NEW c \in Comparators, Rank(c) PROVE BarInv'
    <2> PICK outcome : /\ Choice(c, outcome)
                       /\ comparing' = [comparing EXCEPT ![c] = RankedJob(c, outcome)]
                       /\ tables' = tables
      BY <1>4, RankChooses
    <2>1. Bar(outcome, RankedItems(c))
      BY ChoiceClears
    <2>2. /\ RankedJob(c, outcome).outcome = outcome
          /\ RankedJob(c, outcome).items = RankedItems(c)
      BY DEF RankedJob
    <2>3. ComparatorTakes(c, RankedJob(c, outcome))
      BY DEF ComparatorTakes
    <2>4. Bar(RankedJob(c, outcome).outcome, RankedJob(c, outcome).items)
      BY <2>1, <2>2
    <2> QED BY <2>3, <2>4, ComparatorClears
  <1>5. ASSUME NEW c \in Comparators, CommitCompare(c) PROVE BarInv'
    <2> PICK job : job = comparing[c]
      OBVIOUS
    <2> PICK n : n = Len(comparisons) + 1
      OBVIOUS
    <2>1. CompareCommits(c, job, n)
      BY <1>5, CompareCommitted
    <2>2. proposals' = proposals
      BY <1>5 DEF CommitCompare
    <2>3. Bar(job.outcome, job.items)
      BY DEF BarInv
    <2>4. ASSUME NEW d \in Comparators
          PROVE  Bar(comparing'[d].outcome, comparing'[d].items)
      <3>1. CASE d = c
        BY <2>1, <3>1, NothingClears DEF CompareCommits
      <3>2. CASE d # c
        BY <2>1, <3>2 DEF BarInv, CompareCommits
      <3> QED BY <3>1, <3>2
    <2>5. ASSUME NEW i \in DOMAIN comparisons'
          PROVE  Bar(comparisons'[i].outcome, comparisons'[i].items)
      <3>1. CASE i \in DOMAIN comparisons
        BY <2>1, <3>1 DEF BarInv, CompareCommits
      <3>2. CASE i = n
        BY <2>1, <2>3, <3>2 DEF CompareCommits
      <3> QED BY <2>1, <2>5, <3>1, <3>2 DEF CompareCommits
    <2> QED BY <2>2, <2>4, <2>5 DEF BarInv, Bar
  <1>6. ASSUME NEW c \in Comparators, AbortCompare(c) PROVE BarInv'
    <2>1. ComparatorTakes(c, NoComparison)
      BY <1>6 DEF AbortCompare, ComparatorTakes
    <2> QED BY <2>1, NothingClears, ComparatorClears
  <1>7. ASSUME NEW p \in DOMAIN proposals, CompleteEvidence(p) PROVE BarInv'
    BY <1>2, <1>7 DEF CompleteEvidence
  <1>8. CASE ScoreRegime
    BY <1>2, <1>8 DEF ScoreRegime
  <1>9. ASSUME NEW r \in Reviewers, NEW p \in DOMAIN proposals, StartReview(r, p) PROVE BarInv'
    BY <1>2, <1>9 DEF StartReview, tables
  <1>10. ASSUME NEW r \in Reviewers, CommitReview(r) \/ AbortReview(r) PROVE BarInv'
    BY <1>2, <1>10 DEF CommitReview, AbortReview, tables
  <1>11. CASE UNCHANGED vars
    BY <1>2, <1>11 DEF vars
  <1> QED BY <1>1, <1>3, <1>4, <1>5, <1>6, <1>7, <1>8, <1>9, <1>10, <1>11 DEF Next

(* For every set of drafts and any number of processes: no comparison has   *)
(* selected a proposal that is not accepted, and none below the signal that *)
(* the weights of the policy ask of its kind.                               *)
THEOREM SelectionsClearTheBar == Spec => []SelectionClearsTheBar
  <1>1. Init => BarInv
    BY NothingClears DEF Init, BarInv
  <1>2. BarInv => SelectionClearsTheBar
    BY DEF BarInv, Bar, SelectionClearsTheBar
  <1>3. TypeOK /\ BarInv /\ [Next]_vars => BarInv'
    BY StepClears
  <1> QED BY <1>1, <1>2, <1>3, TypeCorrect, PTL DEF Spec

-----------------------------------------------------------------------------
(* What stands behind a status. *)

OneOfEach ==
  /\ \A r, q \in Reviewers : r = q
  /\ \A c, d \in Comparators : c = d

(* While a review is under way only the comparator writes the status of its *)
(* proposal, and no review of it is committed.                              *)
ReviewSees(r) ==
  LET job == reviewing[r] IN
  job.proposal # 0 =>
    /\ status[job.proposal] \in {job.loaded, "selected_next", "superseded"}
    /\ \A i \in DOMAIN reviews : reviews[i].at <= job.at

(* While a comparison is under way only the reviewer writes a status.       *)
CompareSees(c) ==
  \A p \in DOMAIN comparing[c].loaded :
    status[p] = comparing[c].loaded[p] \/ status[p] \in Decisions

BackedInv ==
  /\ StatusIsBacked
  /\ \A i \in DOMAIN reviews : reviews[i].at <= clock
  /\ \A r \in Reviewers : ReviewSees(r)
  /\ \A c \in Comparators : CompareSees(c)

LEMMA InitBacked == Init => BackedInv
  BY IdleTypes, GovernanceAssumption
  DEF Init, BackedInv, StatusIsBacked, ReviewSees, CompareSees

(* Backing looks at these columns only. *)
LEMMA BackedStays ==
  ASSUME NEW p, Backed(p), status'[p] = status[p], latest'[p] = latest[p],
         comparisons' = comparisons, reviews' = reviews
  PROVE  Backed(p)'
  BY DEF Backed, Names

LEMMA ProposeBacked ==
  ASSUME TypeOK, BackedInv, NEW d \in Drafts, Propose(d)
  PROVE  BackedInv'
  <1> PICK n : n = Len(proposals) + 1
    OBVIOUS
  <1>1. /\ UNCHANGED <<complete, regime, reviews, comparisons, clock, reviewing, comparing>>
        /\ status' = Append(status, "proposed") /\ latest' = Append(latest, 0)
        /\ proposals' = Append(proposals, d)
    BY DEF Propose
  <1>2. /\ status \in Seq(Status) /\ latest \in Seq(Nat) /\ proposals \in Seq(Drafts)
        /\ Len(status) = Len(proposals) /\ Len(latest) = Len(proposals)
        /\ "proposed" \in Status
    BY DEF TypeOK, Typed, Keyed, Status
  <1>3. DOMAIN proposals' = DOMAIN proposals \cup {n}
    BY <1>1, <1>2, AppendRow
  <1>4. /\ \A p \in DOMAIN status : status'[p] = status[p]
        /\ status'[n] = "proposed" /\ DOMAIN status = DOMAIN proposals
    BY <1>1, <1>2, AppendRow
  <1>5. /\ \A p \in DOMAIN latest : latest'[p] = latest[p]
        /\ latest'[n] = 0 /\ DOMAIN latest = DOMAIN proposals
    BY <1>1, <1>2, AppendRow
  <1>6. ASSUME NEW p \in DOMAIN proposals PROVE Backed(p)'
    BY <1>1, <1>4, <1>5, BackedStays DEF BackedInv, StatusIsBacked
  <1>7. Backed(n)'
    BY <1>4, <1>5 DEF Backed, Decisions
  <1>8. ASSUME NEW r \in Reviewers PROVE ReviewSees(r)'
    <2>1. ReviewSees(r) /\ ReviewJobKeyed(r)
      BY DEF BackedInv, TypeOK, Keyed
    <2> QED BY <1>1, <1>4, <2>1 DEF ReviewSees, ReviewJobKeyed
  <1>9. ASSUME NEW c \in Comparators PROVE CompareSees(c)'
    <2>1. CompareSees(c) /\ CompareJobKeyed(c)
      BY DEF BackedInv, TypeOK, Keyed
    <2> QED BY <1>1, <1>4, <2>1 DEF CompareSees, CompareJobKeyed
  <1> QED BY <1>1, <1>3, <1>6, <1>7, <1>8, <1>9 DEF BackedInv, StatusIsBacked

(* Steps that write no row. *)
NoRow == UNCHANGED <<proposals, status, reviews, latest, comparisons>>

LEMMA QuietBacked ==
  ASSUME TypeOK, BackedInv, NoRow, clock <= clock', clock' \in Int,
         \A r \in Reviewers : reviewing'[r] # reviewing[r] => ReviewSees(r)',
         \A c \in Comparators : comparing'[c] # comparing[c] => CompareSees(c)'
  PROVE  BackedInv'
  <1>1. StatusIsBacked'
    BY BackedStays DEF BackedInv, StatusIsBacked, NoRow
  <1>2. \A i \in DOMAIN reviews' : reviews'[i].at <= clock'
    <2>1. ASSUME NEW i \in DOMAIN reviews
          PROVE  reviews[i].at \in Nat /\ reviews[i].at <= clock /\ clock \in Int
      <3>1. reviews[i] \in Review
        BY DEF TypeOK, Typed
      <3> QED BY <3>1 DEF Review, TypeOK, Typed, BackedInv
    <2> QED BY <2>1 DEF NoRow
  <1>3. ASSUME NEW r \in Reviewers PROVE ReviewSees(r)'
    <2>1. CASE reviewing'[r] = reviewing[r]
      BY <2>1 DEF BackedInv, ReviewSees, NoRow
    <2> QED BY <2>1
  <1>4. ASSUME NEW c \in Comparators PROVE CompareSees(c)'
    <2>1. CASE comparing'[c] = comparing[c]
      BY <2>1 DEF BackedInv, CompareSees, NoRow
    <2> QED BY <2>1
  <1> QED BY <1>1, <1>2, <1>3, <1>4 DEF BackedInv

LEMMA StartReviewBacked ==
  ASSUME TypeOK, BackedInv, NEW r \in Reviewers, NEW p \in DOMAIN proposals, StartReview(r, p)
  PROVE  BackedInv'
  <1>1. /\ reviewing'[r].proposal = p /\ reviewing'[r].loaded = status[p]
        /\ reviewing'[r].at = clock + 1
        /\ \A q \in Reviewers \ {r} : reviewing'[q] = reviewing[q]
    BY DEF StartReview, TypeOK, Typed
  <1>2. NoRow /\ comparing' = comparing /\ clock' = clock + 1
    BY DEF StartReview, NoRow, tables
  <1>3. clock \in Int
    BY GovernanceAssumption DEF TypeOK, Typed
  <1>4. ASSUME NEW i \in DOMAIN reviews PROVE reviews[i].at <= clock + 1
    <2>1. reviews[i] \in Review
      BY DEF TypeOK, Typed
    <2>2. reviews[i].at \in Nat /\ reviews[i].at <= clock
      BY <2>1 DEF Review, BackedInv
    <2> QED BY <1>3, <2>2
  <1>5. ReviewSees(r)'
    BY <1>1, <1>2, <1>4 DEF ReviewSees, NoRow
  <1> QED BY <1>1, <1>2, <1>3, <1>5, QuietBacked

LEMMA AbortReviewBacked ==
  ASSUME TypeOK, BackedInv, NEW r \in Reviewers, AbortReview(r)
  PROVE  BackedInv'
  <1>1. /\ reviewing'[r] = NoReview /\ \A q \in Reviewers \ {r} : reviewing'[q] = reviewing[q]
    BY DEF AbortReview, TypeOK, Typed
  <1>2. NoRow /\ comparing' = comparing /\ clock' = clock /\ clock \in Int
    BY GovernanceAssumption DEF AbortReview, NoRow, tables, TypeOK, Typed
  <1>3. ReviewSees(r)'
    BY <1>1, IdleTypes, GovernanceAssumption DEF ReviewSees
  <1> QED BY <1>1, <1>2, <1>3, QuietBacked

(* A comparator that commits nothing: it has loaded what it sees. *)
LEMMA ComparatorBacked ==
  ASSUME TypeOK, BackedInv, NEW c \in Comparators, NEW job,
         ComparatorTakes(c, job), reviewing' = reviewing, clock' = clock,
         \A p \in DOMAIN job.loaded : status[p] = job.loaded[p] \/ status[p] \in Decisions
  PROVE  BackedInv'
  <1>1. comparing'[c] = job /\ \A d \in Comparators \ {c} : comparing'[d] = comparing[d]
    BY DEF TypeOK, Typed, ComparatorTakes
  <1>2. NoRow /\ clock \in Int
    BY GovernanceAssumption DEF ComparatorTakes, NoRow, tables, TypeOK, Typed
  <1>3. CompareSees(c)'
    BY <1>1, <1>2 DEF CompareSees, NoRow
  <1> QED BY <1>1, <1>2, <1>3, QuietBacked

LEMMA CommitReviewBacked ==
  ASSUME OneOfEach, TypeOK, BackedInv, NEW r \in Reviewers, CommitReview(r)
  PROVE  BackedInv'
  <1> PICK job : job = reviewing[r]
    OBVIOUS
  <1> PICK n : n = Len(reviews) + 1
    OBVIOUS
  <1>1. ReviewCommits(r, job, n)
    BY ReviewCommitted
  <1> USE <1>1 DEF ReviewCommits
  <1> DEFINE p == job.proposal
  <1>2. UNCHANGED <<proposals, comparisons, clock, comparing>>
    BY DEF CommitReview
  <1>3. /\ p # 0 /\ status[p] \in {job.loaded, "selected_next", "superseded"}
        /\ \A i \in DOMAIN reviews : reviews[i].at <= job.at
    BY DEF CommitReview, BackedInv, ReviewSees
  <1>4. /\ DOMAIN status = DOMAIN proposals /\ DOMAIN latest = DOMAIN proposals
        /\ p \in DOMAIN proposals
    BY IdOfProposal DEF TypeOK
  <1>5. latest'[p] = n
    <2>1. LatestKeyed(p)
      BY <1>4 DEF TypeOK, Keyed
    <2> QED BY <1>3, <2>1 DEF LatestKeyed
  <1>6. ASSUME NEW q \in DOMAIN proposals, q # p PROVE Backed(q)'
    <2>1. Backed(q) /\ LatestKeyed(q)
      BY <1>4 DEF BackedInv, StatusIsBacked, TypeOK, Keyed
    <2>2. status'[q] = status[q] /\ latest'[q] = latest[q]
      BY <1>4, <1>6
    <2>3. latest[q] # 0 => reviews'[latest[q]] = reviews[latest[q]]
      BY <2>1 DEF LatestKeyed
    <2> QED BY <1>2, <2>1, <2>2, <2>3 DEF Backed, Names
  <1>7. Backed(p)'
    <2>1. Backed(p)
      BY <1>4 DEF BackedInv, StatusIsBacked
    <2>2. \/ status'[p] = job.decision
          \/ status'[p] = status[p] /\ status[p] \notin Decisions /\ status[p] # "proposed"
      <3>1. CASE job.loaded # job.decision
        BY <3>1 DEF StatusAfter
      <3>2. CASE job.loaded = job.decision
        <4>1. status'[p] = status[p] /\ job.decision \in Decisions
          BY <3>2 DEF StatusAfter
        <4>2. status[p] \in {job.decision, "selected_next", "superseded"}
          BY <1>3, <3>2
        <4> QED BY <4>1, <4>2 DEF Decisions
      <3> QED BY <3>1, <3>2
    <2>3. CASE status'[p] = job.decision
      BY <1>5, <2>3 DEF Backed, Decisions
    <2>4. CASE status'[p] = status[p] /\ status[p] \notin Decisions /\ status[p] # "proposed"
      BY <1>2, <2>1, <2>4 DEF Backed, Names
    <2> QED BY <2>2, <2>3, <2>4
  <1>8. ASSUME NEW i \in DOMAIN reviews' PROVE reviews'[i].at <= clock'
    <2>1. CASE i \in DOMAIN reviews
      BY <1>2, <2>1 DEF BackedInv
    <2>2. CASE i = n
      BY <1>2, <2>2
    <2> QED BY <1>8, <2>1, <2>2
  <1>9. ASSUME NEW q \in Reviewers PROVE ReviewSees(q)'
    <2>1. q = r /\ NoReview.proposal = 0
      BY IdleTypes, GovernanceAssumption DEF OneOfEach
    <2> QED BY <2>1 DEF ReviewSees
  <1>10. ASSUME NEW c \in Comparators PROVE CompareSees(c)'
    <2>1. CompareSees(c) /\ CompareJobKeyed(c)
      BY DEF BackedInv, TypeOK, Keyed
    <2>2. ASSUME NEW q \in DOMAIN comparing[c].loaded
          PROVE  status'[q] = comparing[c].loaded[q] \/ status'[q] \in Decisions
      <3>1. q \in DOMAIN proposals /\ (status[q] = comparing[c].loaded[q] \/ status[q] \in Decisions)
        BY <2>1 DEF CompareSees, CompareJobKeyed
      <3>2. CASE q # p
        BY <1>4, <3>1, <3>2
      <3>3. CASE q = p
        BY <3>1, <3>3 DEF StatusAfter
      <3> QED BY <3>2, <3>3
    <2> QED BY <1>2, <2>2 DEF CompareSees
  <1> QED BY <1>2, <1>6, <1>7, <1>8, <1>9, <1>10 DEF BackedInv, StatusIsBacked

(* A status that a comparison gives is backed by it. *)
LEMMA CommitCompareBacked ==
  ASSUME OneOfEach, TypeOK, BackedInv, NEW c \in Comparators, CommitCompare(c)
  PROVE  BackedInv'
  <1> PICK job : job = comparing[c]
    OBVIOUS
  <1> PICK n : n = Len(comparisons) + 1
    OBVIOUS
  <1> PICK o : o = job.outcome
    OBVIOUS
  <1>1. CompareCommits(c, job, n)
    BY CompareCommitted
  <1> USE <1>1 DEF CompareCommits
  <1>2. UNCHANGED <<proposals, reviews, latest, clock, reviewing>>
    BY DEF CommitCompare
  <1>3. DOMAIN status = DOMAIN proposals
    BY IdOfProposal DEF TypeOK
  <1>4. comparisons'[n].outcome = o /\ n \in Nat
        /\ \A i \in DOMAIN comparisons : i < n /\ i \in Nat
    OBVIOUS
  <1>5. ASSUME NEW p \in DOMAIN proposals, Given(p, o) = "none" PROVE Backed(p)'
    <2>1. Backed(p) /\ status'[p] = status[p]
      BY <1>3, <1>5 DEF BackedInv, StatusIsBacked
    <2>2. p # o.selected /\ p \notin o.superseded
      BY <1>5 DEF Given
    <2>3. ASSUME NEW i \in DOMAIN comparisons,
                 \A j \in DOMAIN comparisons : j > i => ~Names(j, p)
          PROVE  \A j \in DOMAIN comparisons' : j > i => ~Names(j, p)'
      BY <1>4, <2>2, <2>3 DEF Names
    <2>4. ASSUME NEW i \in DOMAIN comparisons
          PROVE  i \in DOMAIN comparisons' /\ comparisons'[i] = comparisons[i]
      OBVIOUS
    <2> QED BY <1>2, <2>1, <2>3, <2>4 DEF Backed
  <1>6. ASSUME NEW p \in DOMAIN proposals, Given(p, o) # "none" PROVE Backed(p)'
    <2>1. Given(p, o) \in {"selected_next", "superseded"}
      BY <1>6 DEF Given
    <2>2. p \in DOMAIN job.loaded /\ p # 0
      BY <1>6, IdOfProposal DEF Given, CompareJobKeyed, IsOutcome, TypeOK, ProposalIds
    <2>3. status[p] = job.loaded[p] \/ status[p] \in Decisions
      BY <2>2 DEF BackedInv, CompareSees
    <2>4. status'[p] = IF job.loaded[p] = Given(p, o) THEN status[p] ELSE Given(p, o)
      BY <1>3, <1>6 DEF StatusAfter
    <2>5. Backed(p)
      BY DEF BackedInv, StatusIsBacked
    <2>6. CASE status'[p] = Given(p, o)
      <3>1. \A j \in DOMAIN comparisons' : ~(j > n)
        BY <1>4
      <3> QED BY <1>4, <2>1, <2>6, <3>1 DEF Backed, Decisions
    <2>7. CASE status'[p] = status[p] /\ status[p] \in Decisions
      BY <1>2, <2>5, <2>7 DEF Backed, Decisions
    <2> QED BY <2>3, <2>4, <2>6, <2>7
  <1>7. ASSUME NEW r \in Reviewers PROVE ReviewSees(r)'
    <2>1. ReviewSees(r) /\ ReviewJobKeyed(r)
      BY DEF BackedInv, TypeOK, Keyed
    <2>2. ASSUME NEW p, p = reviewing[r].proposal, p # 0
          PROVE  status'[p] \in {reviewing[r].loaded, "selected_next", "superseded"}
      <3>1. /\ p \in DOMAIN status
            /\ status[p] \in {reviewing[r].loaded, "selected_next", "superseded"}
        BY <1>3, <2>1, <2>2 DEF ReviewSees, ReviewJobKeyed
      <3> QED BY <3>1 DEF Given, StatusAfter
    <2> QED BY <1>2, <2>1, <2>2 DEF ReviewSees
  <1>8. ASSUME NEW d \in Comparators PROVE CompareSees(d)'
    <2>1. d = c /\ DOMAIN NoComparison.loaded = {}
      BY IdleTypes, GovernanceAssumption DEF OneOfEach
    <2> QED BY <2>1 DEF CompareSees
  <1> QED BY <1>2, <1>5, <1>6, <1>7, <1>8 DEF BackedInv, StatusIsBacked

LEMMA StepBacked ==
  ASSUME OneOfEach, TypeOK, BackedInv, [Next]_vars
  PROVE  BackedInv'
  <1>1. ASSUME NEW d \in Drafts, Propose(d) PROVE BackedInv'
    BY <1>1, ProposeBacked
  <1>2. CASE (\E p \in DOMAIN proposals : CompleteEvidence(p)) \/ ScoreRegime \/ UNCHANGED vars
    <2>1. NoRow /\ reviewing' = reviewing /\ comparing' = comparing /\ clock' = clock
      BY <1>2 DEF CompleteEvidence, ScoreRegime, vars, NoRow
    <2>2. clock \in Int
      BY GovernanceAssumption DEF TypeOK, Typed
    <2> QED BY <2>1, <2>2, QuietBacked
  <1>3. ASSUME NEW r \in Reviewers, NEW p \in DOMAIN proposals, StartReview(r, p) PROVE BackedInv'
    BY <1>3, StartReviewBacked
  <1>4. ASSUME NEW r \in Reviewers, CommitReview(r) PROVE BackedInv'
    BY <1>4, CommitReviewBacked
  <1>5. ASSUME NEW r \in Reviewers, AbortReview(r) PROVE BackedInv'
    BY <1>5, AbortReviewBacked
  <1>6. ASSUME NEW c \in Comparators, NEW ids \in SUBSET DOMAIN proposals,
               NEW filter \in Filters, NEW top \in BOOLEAN, StartCompare(c, ids, filter, top)
        PROVE  BackedInv'
    <2> DEFINE found == [p \in (IF ids = {} THEN DefaultScope ELSE ids) |-> status[p]]
               job == [stage |-> "loaded", ids |-> ids, filter |-> filter, top |-> top,
                       loaded |-> found, seen |-> Len(reviews), items |-> NoItems,
                       outcome |-> Nothing]
    <2>1. job.loaded = found /\ \A p \in DOMAIN found : status[p] = found[p]
      OBVIOUS
    <2>2. /\ comparing' = [comparing EXCEPT ![c] = job] /\ tables' = tables
          /\ reviewing' = reviewing /\ clock' = clock
      BY <1>6 DEF StartCompare
    <2> HIDE DEF job, found
    <2>3. ComparatorTakes(c, job)
      BY <2>2 DEF ComparatorTakes
    <2> QED BY <2>1, <2>2, <2>3, ComparatorBacked
  <1>7. ASSUME NEW c \in Comparators, Rank(c) PROVE BackedInv'
    <2> PICK outcome : /\ comparing' = [comparing EXCEPT ![c] = RankedJob(c, outcome)]
                       /\ tables' = tables /\ reviewing' = reviewing /\ clock' = clock
      BY <1>7, RankChooses
    <2>1. RankedJob(c, outcome).loaded = comparing[c].loaded /\ CompareSees(c)
      BY DEF RankedJob, BackedInv
    <2>2. ComparatorTakes(c, RankedJob(c, outcome))
      BY DEF ComparatorTakes
    <2> QED BY <2>1, <2>2, ComparatorBacked DEF CompareSees
  <1>8. ASSUME NEW c \in Comparators, CommitCompare(c) PROVE BackedInv'
    BY <1>8, CommitCompareBacked
  <1>9. ASSUME NEW c \in Comparators, AbortCompare(c) PROVE BackedInv'
    <2>1. ComparatorTakes(c, NoComparison) /\ reviewing' = reviewing /\ clock' = clock
      BY <1>9 DEF AbortCompare, ComparatorTakes
    <2>2. DOMAIN NoComparison.loaded = {}
      BY IdleTypes, GovernanceAssumption
    <2> QED BY <2>1, <2>2, ComparatorBacked
  <1> QED BY <1>1, <1>2, <1>3, <1>4, <1>5, <1>6, <1>7, <1>8, <1>9 DEF Next

(* With one reviewer and one comparator, which interleave as they like, the *)
(* status column always says what the last review or the last comparison    *)
(* has decided.                                                             *)
THEOREM OneOfEachIsBacked ==
  ASSUME OneOfEach
  PROVE  Spec => []StatusIsBacked
  <1>1. TypeOK /\ BackedInv /\ [Next]_vars => BackedInv'
    BY StepBacked, OneOfEach
  <1>2. BackedInv => StatusIsBacked
    BY DEF BackedInv
  <1> QED BY <1>1, <1>2, InitBacked, TypeCorrect, PTL DEF Spec

-----------------------------------------------------------------------------
(* What a choice rests on. *)

Taken == {"selected_next", "superseded"}

(* A choice of p now would rest on a review among the first seen ones. *)
Stale(p, seen) ==
  latest[p] # 0 /\ latest[p] <= seen /\ LatestDecision(p) \in Eligible

(* A comparison, made or under way, over everything that selects. *)
Broad(x) == x.ids = {} /\ x.filter = AnyCandidate /\ x.outcome.selected # 0

SameKind(p, x) == proposals[p].kind = proposals[x.outcome.selected].kind

Rivals(x) == {p \in DOMAIN proposals : Stale(p, x.seen) /\ SameKind(p, x)}

(* What a broad comparison has seen of its kind is out of the default scope *)
(* until it is reviewed again.                                              *)
Spends(x) == Broad(x) => \A p \in Rivals(x) : status[p] \in Taken

(* So what a comparison in default scope has loaded is nobody's rival,      *)
Offers(job) ==
  job.ids = {} => \A p \in DOMAIN job.loaded :
    /\ job.loaded[p] \notin Taken
    /\ \A i \in DOMAIN comparisons : Broad(comparisons[i]) => p \notin Rivals(comparisons[i])

(* and it has loaded all the rest;                                          *)
Covers(job) ==
  job.stage # "idle" /\ job.ids = {} =>
    \A p \in DOMAIN proposals :
      Stale(p, job.seen) => p \in DOMAIN job.loaded \/ status[p] \in Taken

(* what it chooses among gets a status,                                     *)
Settles(job) ==
  Broad(job) => \A p \in Rivals(job) :
    status[p] \in Taken \/ Given(p, job.outcome) # "none"

(* and what it chooses was reviewed since.                                  *)
Renews(job) ==
  job.ids = {} /\ job.outcome.selected # 0 => \A i \in DOMAIN comparisons :
    Broad(comparisons[i]) /\ SameKind(job.outcome.selected, comparisons[i])
      => job.outcome.review > comparisons[i].seen

RowChosen(x) == x.seen <= Len(reviews) /\ Spends(x)
JobChosen(job) ==
  /\ job.seen <= Len(reviews)
  /\ Offers(job) /\ Covers(job) /\ Settles(job) /\ Renews(job)

ChosenInv ==
  /\ \A i \in DOMAIN comparisons : RowChosen(comparisons[i])
  /\ \A c \in Comparators : JobChosen(comparing[c])
  /\ ChosenOnNewReview

(* What holds of a chosen row or a job when what it looks at stands. *)
Sound(x) ==
  /\ x.seen \in Nat
  /\ x.outcome.selected # 0 => x.outcome.selected \in DOMAIN proposals

(* A step that makes no old review a new one, and frees no status but by a  *)
(* new review.                                                              *)
Stands ==
  /\ DOMAIN proposals \subseteq DOMAIN proposals'
  /\ \A p \in DOMAIN proposals : proposals'[p].kind = proposals[p].kind
  /\ Len(reviews) \in Nat /\ Len(reviews') \in Nat /\ Len(reviews) <= Len(reviews')
  /\ \A p \in DOMAIN proposals', s \in 0 .. Len(reviews) :
       Stale(p, s)' => /\ p \in DOMAIN proposals /\ Stale(p, s)
                       /\ status[p] \in Taken => status'[p] \in Taken

LEMMA AllSound ==
  ASSUME TypeOK
  PROVE  /\ \A i \in DOMAIN comparisons : Sound(comparisons[i])
         /\ \A c \in Comparators : /\ Sound(comparing[c])
                                   /\ DOMAIN comparing[c].loaded \subseteq DOMAIN proposals
         /\ Len(reviews) \in Nat
  <1>1. ASSUME NEW i \in DOMAIN comparisons PROVE Sound(comparisons[i])
    <2>1. comparisons[i] \in Comparison /\ ComparisonKeyed(i)
      BY DEF TypeOK, Typed, Keyed
    <2> QED BY <2>1 DEF Sound, Comparison, ComparisonKeyed, IsOutcome
  <1>2. ASSUME NEW c \in Comparators
        PROVE  /\ Sound(comparing[c])
               /\ DOMAIN comparing[c].loaded \subseteq DOMAIN proposals
    <2>1. comparing[c] \in CompareJob /\ CompareJobKeyed(c)
      BY DEF TypeOK, Typed, Keyed
    <2> QED BY <2>1 DEF Sound, CompareJob, CompareJobKeyed, IsOutcome
  <1>3. Len(reviews) \in Nat
    BY DEF TypeOK, Typed
  <1> QED BY <1>1, <1>2, <1>3

LEMMA RivalsStay ==
  ASSUME Stands, NEW x, Sound(x), x.seen <= Len(reviews), Broad(x),
         NEW p, p \in Rivals(x)'
  PROVE  /\ p \in Rivals(x)
         /\ status[p] \in Taken => status'[p] \in Taken
  <1>1. x.seen \in 0 .. Len(reviews) /\ x.outcome.selected \in DOMAIN proposals
    BY DEF Stands, Sound, Broad
  <1>2. p \in DOMAIN proposals' /\ Stale(p, x.seen)' /\ SameKind(p, x)'
    BY DEF Rivals
  <1>3. /\ p \in DOMAIN proposals /\ Stale(p, x.seen)
        /\ status[p] \in Taken => status'[p] \in Taken
    BY <1>1, <1>2 DEF Stands
  <1>4. SameKind(p, x)
    BY <1>1, <1>2, <1>3 DEF SameKind, Stands
  <1> QED BY <1>3, <1>4 DEF Rivals

LEMMA RowStays ==
  ASSUME Stands, NEW x, Sound(x), RowChosen(x)
  PROVE  RowChosen(x)'
  <1>1. x.seen <= Len(reviews')
    BY DEF RowChosen, Stands, Sound
  <1>2. ASSUME Broad(x), NEW p \in Rivals(x)' PROVE status'[p] \in Taken
    BY <1>2, RivalsStay DEF RowChosen, Spends
  <1>3. Broad(x)' = Broad(x)
    BY DEF Broad
  <1> QED BY <1>1, <1>2, <1>3 DEF RowChosen, Spends

LEMMA JobStays ==
  ASSUME Stands, comparisons' = comparisons, NEW job, Sound(job), JobChosen(job),
         DOMAIN job.loaded \subseteq DOMAIN proposals,
         \A i \in DOMAIN comparisons :
           Sound(comparisons[i]) /\ comparisons[i].seen <= Len(reviews)
  PROVE  JobChosen(job)'
  <1>1. job.seen <= Len(reviews') /\ job.seen \in 0 .. Len(reviews)
    BY DEF JobChosen, Stands, Sound
  <1>2. Offers(job)'
    <2> SUFFICES ASSUME job.ids = {}, NEW p \in DOMAIN job.loaded,
                        NEW i \in DOMAIN comparisons, Broad(comparisons[i]),
                        p \in Rivals(comparisons[i])'
                 PROVE  FALSE
      BY DEF Offers, JobChosen, Broad
    <2> PICK x : x = comparisons[i]
      OBVIOUS
    <2>1. Sound(x) /\ x.seen <= Len(reviews) /\ Broad(x) /\ p \in Rivals(x)'
      OBVIOUS
    <2>2. p \in Rivals(x)
      BY <2>1, RivalsStay
    <2> QED BY <2>2 DEF JobChosen, Offers
  <1>3. Covers(job)'
    <2> SUFFICES ASSUME job.stage # "idle", job.ids = {}, NEW p \in DOMAIN proposals',
                        Stale(p, job.seen)', p \notin DOMAIN job.loaded
                 PROVE  status'[p] \in Taken
      BY DEF Covers
    <2> QED BY <1>1 DEF Stands, JobChosen, Covers
  <1>4. Settles(job)'
    <2> SUFFICES ASSUME Broad(job), NEW p \in Rivals(job)', Given(p, job.outcome) = "none"
                 PROVE  status'[p] \in Taken
      BY DEF Settles, Broad, Given
    <2> QED BY RivalsStay DEF JobChosen, Settles
  <1>5. Renews(job)'
    <2> SUFFICES ASSUME job.ids = {}, job.outcome.selected # 0, NEW i \in DOMAIN comparisons,
                        Broad(comparisons[i]), SameKind(job.outcome.selected, comparisons[i])'
                 PROVE  job.outcome.review > comparisons[i].seen
      BY DEF Renews, Broad
    <2>1. /\ job.outcome.selected \in DOMAIN proposals
          /\ comparisons[i].outcome.selected \in DOMAIN proposals
      BY DEF Sound, Broad
    <2>2. SameKind(job.outcome.selected, comparisons[i])
      BY <2>1 DEF SameKind, Stands
    <2> QED BY <2>2 DEF JobChosen, Renews
  <1> QED BY <1>1, <1>2, <1>3, <1>4, <1>5 DEF JobChosen

LEMMA IdleChosen ==
  /\ Len(reviews) \in Nat => JobChosen(NoComparison)
  /\ Len(reviews') \in Nat => JobChosen(NoComparison)'
  <1>1. /\ NoComparison.seen = 0 /\ NoComparison.stage = "idle"
        /\ DOMAIN NoComparison.loaded = {} /\ NoComparison.outcome.selected = 0
    BY DEF NoComparison, Nothing, Outcome
  <1> QED BY <1>1 DEF JobChosen, Offers, Covers, Settles, Renews, Broad

LEMMA InitChosen == Init => ChosenInv
  BY IdleChosen DEF Init, ChosenInv, ChosenOnNewReview

(* Steps that commit no comparison. *)
LEMMA NoNewChoice ==
  ASSUME TypeOK, ChosenInv, Stands, comparisons' = comparisons,
         \A c \in Comparators : comparing'[c] # comparing[c] => JobChosen(comparing[c])'
  PROVE  ChosenInv'
  <1>1. /\ \A i \in DOMAIN comparisons : /\ Sound(comparisons[i])
                                         /\ comparisons[i].seen <= Len(reviews)
        /\ \A c \in Comparators : /\ Sound(comparing[c]) /\ JobChosen(comparing[c])
                                  /\ DOMAIN comparing[c].loaded \subseteq DOMAIN proposals
    BY AllSound DEF ChosenInv, RowChosen
  <1>2. ASSUME NEW i \in DOMAIN comparisons PROVE RowChosen(comparisons[i])'
    <2> PICK x : x = comparisons[i]
      OBVIOUS
    <2>1. Sound(x) /\ RowChosen(x)
      BY <1>1 DEF ChosenInv
    <2>2. RowChosen(x)'
      BY <2>1, RowStays
    <2> QED BY <2>2 DEF RowChosen, Spends, Broad, Rivals, SameKind, Stale
  <1>3. ASSUME NEW c \in Comparators PROVE JobChosen(comparing[c])'
    <2>1. CASE comparing'[c] = comparing[c]
      <3> PICK job : job = comparing[c]
        OBVIOUS
      <3>1. JobChosen(job)'
        BY <1>1, JobStays
      <3>2. comparing'[c] = job
        BY <2>1
      <3> QED BY <3>1, <3>2
           DEF JobChosen, Offers, Covers, Settles, Renews, Broad, Rivals, SameKind, Stale
    <2> QED BY <2>1
  <1>4. ChosenOnNewReview'
    <2> SUFFICES ASSUME NEW i \in DOMAIN comparisons, NEW j \in DOMAIN comparisons, i < j,
                        comparisons[i].ids = {}, comparisons[j].ids = {},
                        comparisons[i].filter = AnyCandidate,
                        comparisons[i].outcome.selected # 0, comparisons[j].outcome.selected # 0,
                        proposals'[comparisons[i].outcome.selected].kind =
                          proposals'[comparisons[j].outcome.selected].kind
                 PROVE  comparisons[j].outcome.review > comparisons[i].seen
      BY DEF ChosenOnNewReview
    <2>1. /\ comparisons[i].outcome.selected \in DOMAIN proposals
          /\ comparisons[j].outcome.selected \in DOMAIN proposals
      BY <1>1 DEF Sound
    <2> QED BY <2>1 DEF Stands, ChosenInv, ChosenOnNewReview
  <1> QED BY <1>2, <1>3, <1>4 DEF ChosenInv

(* Steps that write no row leave everything as it stands. *)
LEMMA QuietStands ==
  ASSUME TypeOK, NoRow
  PROVE  Stands
  BY AllSound DEF NoRow, Stands, Stale, LatestDecision

LEMMA ProposeStands ==
  ASSUME TypeOK, NEW d \in Drafts, Propose(d)
  PROVE  Stands /\ comparisons' = comparisons /\ comparing' = comparing
  <1> PICK n : n = Len(proposals) + 1
    OBVIOUS
  <1>1. /\ reviews' = reviews /\ comparisons' = comparisons /\ comparing' = comparing
        /\ status' = Append(status, "proposed") /\ latest' = Append(latest, 0)
        /\ proposals' = Append(proposals, d)
    BY DEF Propose
  <1>2. /\ status \in Seq(Status) /\ latest \in Seq(Nat) /\ proposals \in Seq(Drafts)
        /\ Len(status) = Len(proposals) /\ Len(latest) = Len(proposals)
        /\ "proposed" \in Status
    BY DEF TypeOK, Typed, Keyed, Status
  <1>3. /\ DOMAIN proposals' = DOMAIN proposals \cup {n}
        /\ \A p \in DOMAIN proposals : proposals'[p] = proposals[p]
    BY <1>1, <1>2, AppendRow
  <1>4. DOMAIN status = DOMAIN proposals /\ \A p \in DOMAIN status : status'[p] = status[p]
    BY <1>1, <1>2, AppendRow
  <1>5. /\ \A p \in DOMAIN latest : latest'[p] = latest[p]
        /\ latest'[n] = 0 /\ DOMAIN latest = DOMAIN proposals
    BY <1>1, <1>2, AppendRow
  <1>6. Len(reviews) \in Nat
    BY AllSound
  <1>7. ASSUME NEW p \in DOMAIN proposals', NEW s, Stale(p, s)'
        PROVE  /\ p \in DOMAIN proposals /\ Stale(p, s)
               /\ status[p] \in Taken => status'[p] \in Taken
    <2>1. p \in DOMAIN proposals
      BY <1>3, <1>5, <1>7 DEF Stale
    <2> QED BY <1>1, <1>4, <1>5, <1>7, <2>1 DEF Stale, LatestDecision
  <1>8. Len(reviews') \in Nat /\ Len(reviews) <= Len(reviews')
    BY <1>1, <1>6
  <1>9. \A p \in DOMAIN proposals : proposals'[p].kind = proposals[p].kind
    BY <1>3
  <1>10. Stands
    BY <1>3, <1>6, <1>7, <1>8, <1>9 DEF Stands
  <1> QED BY <1>1, <1>10

(* With one reviewer a committed review is the latest of its proposal. *)
LEMMA CommitReviewStands ==
  ASSUME OneOfEach, TypeOK, BackedInv, NEW r \in Reviewers, CommitReview(r)
  PROVE  Stands /\ comparisons' = comparisons /\ comparing' = comparing
  <1> PICK job : job = reviewing[r]
    OBVIOUS
  <1> PICK n : n = Len(reviews) + 1
    OBVIOUS
  <1>1. ReviewCommits(r, job, n)
    BY ReviewCommitted
  <1>2. UNCHANGED <<proposals, comparisons, comparing>>
    BY DEF CommitReview
  <1>3. /\ job.proposal # 0 /\ job.proposal \in DOMAIN proposals
        /\ \A i \in DOMAIN reviews : reviews[i].at <= job.at
    BY <1>1 DEF CommitReview, BackedInv, ReviewSees, ReviewCommits
  <1>4. DOMAIN status = DOMAIN proposals /\ DOMAIN latest = DOMAIN proposals
    BY IdOfProposal DEF TypeOK
  <1>5. latest'[job.proposal] = n
    <2>1. LatestKeyed(job.proposal)
      BY <1>3, <1>4 DEF TypeOK, Keyed
    <2> QED BY <1>1, <1>3, <2>1 DEF LatestKeyed, ReviewCommits
  <1>6. Len(reviews) \in Nat /\ Len(reviews') = Len(reviews) + 1
    BY <1>1 DEF ReviewCommits
  <1>7. ASSUME NEW p \in DOMAIN proposals, NEW s \in 0 .. Len(reviews), Stale(p, s)'
        PROVE  /\ Stale(p, s)
               /\ status[p] \in Taken => status'[p] \in Taken
    <2>1. p # job.proposal
      BY <1>5, <1>6, <1>7 DEF Stale
    <2>2. latest'[p] = latest[p] /\ status'[p] = status[p] /\ LatestKeyed(p)
      BY <1>1, <1>4, <2>1 DEF ReviewCommits, TypeOK, Keyed
    <2>3. latest[p] # 0 => reviews'[latest[p]] = reviews[latest[p]]
      BY <1>1, <2>2 DEF LatestKeyed, ReviewCommits
    <2> QED BY <1>7, <2>2, <2>3 DEF Stale, LatestDecision
  <1>8. Stands
    BY <1>2, <1>6, <1>7 DEF Stands
  <1> QED BY <1>2, <1>8

LEMMA StartCompareChosen ==
  ASSUME TypeOK, BackedInv, ChosenInv, NEW c \in Comparators,
         NEW ids \in SUBSET DOMAIN proposals, NEW filter \in Filters, NEW top \in BOOLEAN,
         StartCompare(c, ids, filter, top)
  PROVE  ChosenInv'
  <1> DEFINE found == [p \in (IF ids = {} THEN DefaultScope ELSE ids) |-> status[p]]
             job == [stage |-> "loaded", ids |-> ids, filter |-> filter, top |-> top,
                     loaded |-> found, seen |-> Len(reviews), items |-> NoItems,
                     outcome |-> Nothing]
  <1>1. /\ job.ids = ids /\ job.loaded = found /\ job.seen = Len(reviews)
        /\ job.outcome.selected = 0
    BY DEF Nothing, Outcome
  <1>2. ids = {} => /\ DOMAIN found = DefaultScope
                    /\ \A p \in DefaultScope : found[p] = status[p]
    OBVIOUS
  <1>3. /\ comparing' = [comparing EXCEPT ![c] = job] /\ tables' = tables
        /\ reviewing' = reviewing /\ clock' = clock
    BY DEF StartCompare
  <1> HIDE DEF job, found
  <1>4. Offers(job)
    <2> SUFFICES ASSUME ids = {}, NEW p \in DefaultScope
                 PROVE  /\ status[p] \notin Taken
                        /\ \A i \in DOMAIN comparisons :
                             Broad(comparisons[i]) => p \notin Rivals(comparisons[i])
      BY <1>1, <1>2 DEF Offers
    <2>1. status[p] \notin Taken
      BY DEF DefaultScope, Taken
    <2> QED BY <2>1 DEF ChosenInv, RowChosen, Spends
  <1>5. Covers(job)
    <2> SUFFICES ASSUME ids = {}, NEW p \in DOMAIN proposals, Stale(p, Len(reviews)),
                        p \notin DefaultScope
                 PROVE  status[p] \in Taken
      BY <1>1, <1>2 DEF Covers
    <2>1. Backed(p) /\ status[p] \in {"reviewed_reject", "selected_next", "superseded"}
      BY DEF DefaultScope, BackedInv, StatusIsBacked
    <2>2. status[p] # "reviewed_reject"
      BY <2>1 DEF Backed, Stale, LatestDecision, Eligible, Decisions
    <2> QED BY <2>1, <2>2 DEF Taken
  <1>6. Settles(job) /\ Renews(job)
    BY <1>1 DEF Settles, Renews, Broad
  <1>7. JobChosen(job)
    BY <1>1, <1>4, <1>5, <1>6, AllSound DEF JobChosen
  <1>8. NoRow /\ comparing'[c] = job /\ \A d \in Comparators \ {c} : comparing'[d] = comparing[d]
    BY <1>3 DEF NoRow, tables, TypeOK, Typed
  <1>9. JobChosen(comparing[c])'
    BY <1>7, <1>8
    DEF JobChosen, Offers, Covers, Settles, Renews, Broad, Rivals, SameKind, Stale,
        LatestDecision, NoRow
  <1> QED BY <1>8, <1>9, QuietStands, NoNewChoice DEF NoRow

LEMMA RankChosen ==
  ASSUME TypeOK, ChosenInv, NEW c \in Comparators, Rank(c)
  PROVE  ChosenInv'
  <1> PICK outcome : /\ Choice(c, outcome)
                     /\ comparing' = [comparing EXCEPT ![c] = RankedJob(c, outcome)]
                     /\ tables' = tables /\ reviewing' = reviewing /\ clock' = clock
    BY RankChooses
  <1> PICK old : old = comparing[c]
    OBVIOUS
  <1> PICK job : job = RankedJob(c, outcome)
    OBVIOUS
  <1> PICK items : items = RankedItems(c)
    OBVIOUS
  <1>1. /\ job.ids = old.ids /\ job.filter = old.filter /\ job.seen = old.seen
        /\ job.loaded = old.loaded /\ job.outcome = outcome
    BY DEF RankedJob
  <1>2. old.stage # "idle" /\ JobChosen(old)
    BY DEF Rank, ChosenInv
  <1>3. /\ DOMAIN items = {p \in DOMAIN old.loaded : InScope(p, old)}
        /\ DOMAIN items \subseteq DOMAIN proposals
        /\ \A p \in DOMAIN items : items[p].decision = LatestDecision(p)
    BY RankedTypes DEF RankedItems
  <1>4. ASSUME outcome.selected # 0
        PROVE  LET p == outcome.selected IN
               /\ p \in DOMAIN items /\ items[p].decision \in Eligible
               /\ outcome.review = latest[p] /\ outcome.superseded = Competitors(p, items)
    <2>1. PICK p \in DOMAIN items : Selects(p, items)
                                    /\ outcome = Outcome(p, latest[p], Superseded(p, items))
      BY <1>4 DEF Choice, Nothing, Outcome
    <2>2. outcome.selected = p /\ outcome.review = latest[p]
          /\ outcome.superseded = Superseded(p, items)
      BY <2>1 DEF Outcome
    <2>3. Superseded(p, items) = Competitors(p, items)
      BY <1>4, <2>2 DEF Superseded
    <2> QED BY <2>1, <2>2, <2>3 DEF Selects, OnTop
  <1>5. Offers(job) /\ Covers(job)
    BY <1>1, <1>2 DEF JobChosen, Offers, Covers
  <1>6. Settles(job)
    <2> SUFFICES ASSUME Broad(job), NEW p \in Rivals(job), status[p] \notin Taken
                 PROVE  Given(p, outcome) # "none"
      BY <1>1 DEF Settles
    <2>1. /\ old.ids = {} /\ old.filter = AnyCandidate /\ outcome.selected # 0
          /\ p \in DOMAIN proposals /\ Stale(p, old.seen)
          /\ proposals[p].kind = proposals[outcome.selected].kind
      BY <1>1 DEF Broad, Rivals, SameKind
    <2>2. p \in DOMAIN old.loaded
      BY <1>2, <2>1 DEF JobChosen, Covers
    <2>3. InScope(p, old)
      BY <2>1 DEF InScope, AnyCandidate, Stale
    <2>4. p \in DOMAIN items /\ items[p].decision \in Eligible
      BY <1>3, <2>1, <2>2, <2>3 DEF Stale
    <2>5. p = outcome.selected \/ p \in outcome.superseded
      BY <1>4, <2>1, <2>4 DEF Competitors
    <2> QED BY <2>5 DEF Given
  <1>7. Renews(job)
    <2> SUFFICES ASSUME old.ids = {}, outcome.selected # 0, NEW i \in DOMAIN comparisons,
                        Broad(comparisons[i]), SameKind(outcome.selected, comparisons[i])
                 PROVE  outcome.review > comparisons[i].seen
      BY <1>1 DEF Renews
    <2> PICK p : p = outcome.selected
      OBVIOUS
    <2>1. /\ p \in DOMAIN old.loaded /\ p \in DOMAIN proposals
          /\ LatestDecision(p) \in Eligible /\ outcome.review = latest[p]
      BY <1>3, <1>4
    <2>2. ~Stale(p, comparisons[i].seen)
      BY <1>2, <2>1 DEF JobChosen, Offers, Rivals
    <2>3. latest[p] # 0 /\ latest[p] \in Nat /\ comparisons[i].seen \in Nat
      BY <2>1, IdOfProposal, AllSound DEF LatestDecision, Eligible, Sound, TypeOK
    <2> QED BY <2>1, <2>2, <2>3 DEF Stale
  <1>8. JobChosen(job)
    BY <1>1, <1>2, <1>5, <1>6, <1>7 DEF JobChosen
  <1>9. NoRow /\ comparing'[c] = job /\ \A d \in Comparators \ {c} : comparing'[d] = comparing[d]
    BY DEF NoRow, tables, TypeOK, Typed
  <1>10. JobChosen(comparing[c])'
    BY <1>8, <1>9
    DEF JobChosen, Offers, Covers, Settles, Renews, Broad, Rivals, SameKind, Stale,
        LatestDecision, NoRow
  <1> QED BY <1>9, <1>10, QuietStands, NoNewChoice DEF NoRow

LEMMA AbortCompareChosen ==
  ASSUME TypeOK, ChosenInv, NEW c \in Comparators, AbortCompare(c)
  PROVE  ChosenInv'
  <1>1. /\ NoRow /\ comparing'[c] = NoComparison
        /\ \A d \in Comparators \ {c} : comparing'[d] = comparing[d]
    BY DEF AbortCompare, NoRow, tables, TypeOK, Typed
  <1>2. Len(reviews') \in Nat
    BY <1>1, AllSound DEF NoRow
  <1>3. JobChosen(NoComparison)'
    BY <1>2, IdleChosen
  <1>4. JobChosen(comparing[c])'
    BY <1>1, <1>3
    DEF JobChosen, Offers, Covers, Settles, Renews, Broad, Rivals, SameKind, Stale
  <1> QED BY <1>1, <1>4, QuietStands, NoNewChoice DEF NoRow

(* What a comparison commits gives its rivals a status, and was reviewed     *)
(* after whatever earlier comparisons have seen.                             *)
LEMMA CommitCompareChosen ==
  ASSUME OneOfEach, TypeOK, ChosenInv, NEW c \in Comparators, CommitCompare(c)
  PROVE  ChosenInv'
  <1> PICK job : job = comparing[c]
    OBVIOUS
  <1> PICK n : n = Len(comparisons) + 1
    OBVIOUS
  <1> PICK row : row = comparisons'[n]
    OBVIOUS
  <1>1. CompareCommits(c, job, n)
    BY CompareCommitted
  <1>2. UNCHANGED <<proposals, reviews, latest>>
    BY DEF CommitCompare
  <1>3. /\ DOMAIN comparisons' = DOMAIN comparisons \cup {n}
        /\ \A i \in DOMAIN comparisons : comparisons'[i] = comparisons[i] /\ i < n /\ i \in Nat
        /\ row.outcome = job.outcome /\ row.ids = job.ids
        /\ row.filter = job.filter /\ row.seen = job.seen /\ n \in Nat
    BY <1>1 DEF CompareCommits
  <1>4. JobChosen(job) /\ Sound(job) /\ Len(reviews) \in Nat
    BY AllSound DEF ChosenInv
  <1>5. ASSUME NEW p \in DOMAIN proposals, status[p] \in Taken PROVE status'[p] \in Taken
    <2>1. p \in DOMAIN status
      BY IdOfProposal DEF TypeOK
    <2> QED BY <1>1, <1>5, <2>1 DEF CompareCommits, StatusAfter, Given, Taken
  <1>6. Stands
    BY <1>2, <1>4, <1>5 DEF Stands, Stale, LatestDecision
  <1>7. ASSUME NEW i \in DOMAIN comparisons PROVE RowChosen(comparisons[i])'
    <2> PICK x : x = comparisons[i]
      OBVIOUS
    <2>1. Sound(x) /\ RowChosen(x)
      BY AllSound DEF ChosenInv
    <2>2. RowChosen(x)' /\ comparisons'[i] = x
      BY <1>3, <1>6, <2>1, RowStays
    <2> QED BY <2>2 DEF RowChosen, Spends, Broad, Rivals, SameKind, Stale
  <1>8. RowChosen(comparisons[n])'
    <2>1. ASSUME Broad(row), NEW p \in Rivals(row)' PROVE status'[p] \in Taken
      <3>1. Broad(job) /\ p \in Rivals(job) /\ p \in DOMAIN proposals /\ p \in DOMAIN status
        BY <1>2, <1>3, <2>1, IdOfProposal
        DEF Broad, Rivals, Stale, SameKind, LatestDecision, TypeOK
      <3>2. CASE status[p] \in Taken
        BY <1>5, <3>1, <3>2
      <3>3. CASE Given(p, job.outcome) # "none"
        <4>1. p \in DOMAIN job.loaded
          BY <1>1, <3>1, <3>3
          DEF Given, CompareCommits, CompareJobKeyed, IsOutcome, Broad
        <4>2. job.loaded[p] \notin Taken
          BY <1>4, <3>1, <4>1 DEF JobChosen, Offers, Broad
        <4>3. Given(p, job.outcome) \in Taken
          BY <3>3 DEF Given, Taken
        <4> QED BY <1>1, <3>1, <3>3, <4>2, <4>3 DEF CompareCommits, StatusAfter
      <3> QED BY <1>4, <3>1, <3>2, <3>3 DEF JobChosen, Settles
    <2>2. row.seen <= Len(reviews')
      BY <1>2, <1>3, <1>4 DEF JobChosen
    <2>3. RowChosen(row)'
      BY <2>1, <2>2 DEF RowChosen, Spends, Broad
    <2> QED BY <2>3 DEF RowChosen, Spends, Broad, Rivals, SameKind, Stale
  <1>9. ASSUME NEW d \in Comparators PROVE JobChosen(comparing[d])'
    <2>1. comparing'[d] = NoComparison
      BY <1>1 DEF CompareCommits, OneOfEach
    <2>2. JobChosen(NoComparison)'
      BY <1>2, <1>4, IdleChosen
    <2> QED BY <2>1, <2>2
         DEF JobChosen, Offers, Covers, Settles, Renews, Broad, Rivals, SameKind, Stale
  <1>10. ChosenOnNewReview'
    <2> SUFFICES ASSUME NEW i \in DOMAIN comparisons', NEW j \in DOMAIN comparisons', i < j,
                        comparisons'[i].ids = {}, comparisons'[j].ids = {},
                        comparisons'[i].filter = AnyCandidate,
                        comparisons'[i].outcome.selected # 0,
                        comparisons'[j].outcome.selected # 0,
                        proposals[comparisons'[i].outcome.selected].kind =
                          proposals[comparisons'[j].outcome.selected].kind
                 PROVE  comparisons'[j].outcome.review > comparisons'[i].seen
      BY <1>2 DEF ChosenOnNewReview
    <2>1. CASE j \in DOMAIN comparisons
      <3>1. i \in DOMAIN comparisons
        BY <1>3, <2>1
      <3> QED BY <1>3, <2>1, <3>1 DEF ChosenInv, ChosenOnNewReview
    <2>2. CASE j = n
      <3>1. i \in DOMAIN comparisons /\ comparisons'[i] = comparisons[i] /\ comparisons'[j] = row
        BY <1>3, <2>2
      <3>2. Broad(comparisons[i]) /\ SameKind(row.outcome.selected, comparisons[i])
        BY <3>1 DEF Broad, SameKind
      <3> QED BY <1>3, <1>4, <3>1, <3>2 DEF JobChosen, Renews
    <2> QED BY <1>3, <2>1, <2>2
  <1> QED BY <1>3, <1>7, <1>8, <1>9, <1>10 DEF ChosenInv

LEMMA StepChosen ==
  ASSUME OneOfEach, TypeOK, BackedInv, ChosenInv, [Next]_vars
  PROVE  ChosenInv'
  <1>1. ASSUME NEW d \in Drafts, Propose(d) PROVE ChosenInv'
    BY <1>1, ProposeStands, NoNewChoice
  <1>2. CASE (\E p \in DOMAIN proposals : CompleteEvidence(p)) \/ ScoreRegime \/ UNCHANGED vars
    <2>1. NoRow /\ comparing' = comparing
      BY <1>2 DEF CompleteEvidence, ScoreRegime, vars, NoRow
    <2> QED BY <2>1, QuietStands, NoNewChoice DEF NoRow
  <1>3. ASSUME NEW r \in Reviewers, (\E p \in DOMAIN proposals : StartReview(r, p)) \/ AbortReview(r)
        PROVE  ChosenInv'
    <2>1. NoRow /\ comparing' = comparing
      BY <1>3 DEF StartReview, AbortReview, NoRow, tables
    <2> QED BY <2>1, QuietStands, NoNewChoice DEF NoRow
  <1>4. ASSUME NEW r \in Reviewers, CommitReview(r) PROVE ChosenInv'
    BY <1>4, CommitReviewStands, NoNewChoice
  <1>5. ASSUME NEW c \in Comparators, NEW ids \in SUBSET DOMAIN proposals,
               NEW filter \in Filters, NEW top \in BOOLEAN, StartCompare(c, ids, filter, top)
        PROVE  ChosenInv'
    BY <1>5, StartCompareChosen
  <1>6. ASSUME NEW c \in Comparators, Rank(c) PROVE ChosenInv'
    BY <1>6, RankChosen
  <1>7. ASSUME NEW c \in Comparators, CommitCompare(c) PROVE ChosenInv'
    BY <1>7, CommitCompareChosen
  <1>8. ASSUME NEW c \in Comparators, AbortCompare(c) PROVE ChosenInv'
    BY <1>8, AbortCompareChosen
  <1> QED BY <1>1, <1>2, <1>3, <1>4, <1>5, <1>6, <1>7, <1>8 DEF Next

(* With one reviewer and one comparator, nothing of a kind is chosen twice  *)
(* on the same evidence: after a comparison over everything, a later one in *)
(* default scope selects only on a review it did not have.                  *)
THEOREM ChoicesRestOnNewReviews ==
  ASSUME OneOfEach
  PROVE  Spec => []ChosenOnNewReview
  <1>1. TypeOK /\ BackedInv /\ [Next]_vars => BackedInv'
    BY StepBacked, OneOfEach
  <1>2. TypeOK /\ BackedInv /\ ChosenInv /\ [Next]_vars => ChosenInv'
    BY StepChosen, OneOfEach
  <1>3. ChosenInv => ChosenOnNewReview
    BY DEF ChosenInv
  <1> QED BY <1>1, <1>2, <1>3, InitBacked, InitChosen, TypeCorrect, PTL DEF Spec
=============================================================================
