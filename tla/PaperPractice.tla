--------------------------- MODULE PaperPractice ----------------------------
(***************************************************************************)
(* PaperPracticeRuntime.run_loop: the autonomous loop that drives the paper *)
(* operator once a bar, and moves the active profile after each close.  A   *)
(* process of Loops is one run of the loop after another.  Each step ends   *)
(* with a commit; what a step reads was committed by any process, and a     *)
(* crash or an exception leaves the commits so far.                         *)
(*                                                                          *)
(* Time is counted in bars of cadence_minutes, and kept as ages: a row's    *)
(* distance to the clock.  Settlement is seen here by its outcome only (a   *)
(* session that is open, or skipped); PaperOperator has its detail.         *)
(***************************************************************************)
EXTENDS PracticeRules, Sequences

CONSTANTS
  Loops,           \* the processes that run the loop
  InitialProfile,  \* payload of the active revision when the model starts
  StopLossBps, TakeProfitBps,  \* the keys of the payload that no patch moves
  PnlBps,          \* the results an exit quote may offer
  Confidences,     \* the confidences a condition run may have, in hundredths
  MaxSessions,     \* bound on the sessions ever settled
  MaxAge           \* ages saturate here; no profile of the model waits longer

(* The keys a patch moves.  conf is minimum_condition_confidence in         *)
(* hundredths; no patch takes it out of 55 .. 95, a cooldown only grows and *)
(* a time stop only shrinks.                                                *)
Profile == [conf: 55 .. 95, cooldown: InitialProfile.cooldown .. 12,
            timeStop: 4 .. InitialProfile.timeStop]

ASSUME PracticeAssumption ==
  /\ InitialProfile.cooldown \in Nat /\ InitialProfile.timeStop \in Nat
  /\ InitialProfile \in Profile
  /\ StopLossBps \in Nat \ {0} /\ TakeProfitBps \in Nat \ {0}
  /\ PnlBps \subseteq Int /\ Confidences \subseteq Nat
  /\ MaxSessions \in Nat /\ MaxAge \in Nat

VARIABLES
  revisions,  \* paper_practice_profile_revision_v1 of the profile; the last is active
  sessions,   \* paper_session, with the reason its close was asked for
  decisions,  \* paper_practice_decision_v1, those of trades only
  pc,         \* per loop: the next step of its iteration
  job         \* per loop: what the iteration has read and written

vars == <<revisions, sessions, decisions, pc, job>>

Revision == [profile: Profile, source: Nat]
Session == [status: {"open", "skipped", "closed"}, age: Nat, reason: Reasons \cup {"none"}]
Decision == [type: {"opened", "closed"}, session: Nat, revision: Nat]
Stages == {"off", "load", "cycle", "entry", "fill", "opened", "exit", "close",
           "review", "closed", "sleep"}
Job == [revision: Nat, session: Nat, reason: Reasons \cup {"none"}]

NoJob == [revision |-> 0, session |-> 0, reason |-> "none"]
Working(r, s, reason) == [revision |-> r, session |-> s, reason |-> reason]

Goes(p, stage, work) ==
  /\ pc' = [pc EXCEPT ![p] = stage]
  /\ job' = [job EXCEPT ![p] = work]

-----------------------------------------------------------------------------
(* A bar passes: the age of open and closed sessions grows (nothing reads    *)
(* that of a skipped one), and a loop asleep since the last bar wakes up.    *)
Older(s) == IF s.status # "skipped" /\ s.age < MaxAge THEN s.age + 1 ELSE s.age

Tick ==
  /\ sessions' = [s \in DOMAIN sessions |->
       [status |-> sessions[s].status, age |-> Older(sessions[s]),
        reason |-> sessions[s].reason]]
  /\ pc' = [p \in Loops |-> IF pc[p] = "sleep" THEN "load" ELSE pc[p]]
  /\ UNCHANGED <<revisions, decisions, job>>

(* run_loop, with the historical ladder complete: without it nothing starts. *)
StartLoop(p) ==
  /\ pc[p] = "off"
  /\ Goes(p, "load", NoJob)
  /\ UNCHANGED <<revisions, sessions, decisions>>

(* The loop has run its max_iterations. *)
EndLoop(p) ==
  /\ pc[p] = "sleep"
  /\ Goes(p, "off", NoJob)
  /\ UNCHANGED <<revisions, sessions, decisions>>

(* An exception out of the iteration, which ends the loop, or a crash. *)
Abort(p) ==
  /\ pc[p] # "off"
  /\ Goes(p, "off", NoJob)
  /\ UNCHANGED <<revisions, sessions, decisions>>

(* ensure_active_profile: the iteration works with this revision to its end. *)
LoadProfile(p) ==
  /\ pc[p] = "load"
  /\ Goes(p, "cycle", Working(Len(revisions), 0, "none"))
  /\ UNCHANGED <<revisions, sessions, decisions>>

(* Mutant: only the sessions the loop has recorded are looked at. *)
RecordedOpenSessions ==
  {s \in DOMAIN sessions : /\ sessions[s].status = "open"
                           /\ \E d \in DOMAIN decisions : decisions[d].session = s}

OpenSessions == {s \in DOMAIN sessions : sessions[s].status = "open"}

(* The live regime cycle, then the most recently opened open session: its   *)
(* presence decides which half of the iteration runs.  What the cycle       *)
(* observed is drawn where it is first used.                                *)
RunRegimeCycle(p) ==
  /\ pc[p] = "cycle"
  /\ \/ /\ OpenSessions = {}
        /\ Goes(p, "entry", job[p])
     \/ \E s \in OpenSessions :
          /\ \A t \in OpenSessions : sessions[s].age <= sessions[t].age
          /\ Goes(p, "exit", Working(job[p].revision, s, "none"))
  /\ UNCHANGED <<revisions, sessions, decisions>>

-----------------------------------------------------------------------------
(* The entry half. *)

(* Mutant: the first iteration a profile is loaded uses the bootstrap payload. *)
BootstrapProfile(p) == InitialProfile

IterationProfile(p) == revisions[job[p].revision].profile

(* Mutant: the cooldown ends one bar early. *)
CooldownActiveShort(profile) ==
  \E s \in DOMAIN sessions :
    sessions[s].status = "closed" /\ sessions[s].age + 1 < profile.cooldown

(* _cooldown_active: fewer bars than the cooldown since the last close; the  *)
(* last closed session is the youngest, so some closed session is too young  *)
(* exactly when it is.  A skipped session is no close.                       *)
CooldownActive(profile) ==
  \E s \in DOMAIN sessions :
    sessions[s].status = "closed" /\ sessions[s].age < profile.cooldown

(* What the regime cycle and the strategy report say: the paper-ready        *)
(* receipt is only given under an eligible_long policy.                      *)
EntryView == [ready: BOOLEAN, regime: Regimes, conf: Confidences, strategy: BOOLEAN]
Consistent(view) == view.ready => view.regime = "long_friendly"

EntryAllowed(view, profile) ==
  /\ view.ready
  /\ view.regime = "long_friendly"  \* regime_allowlist
  /\ view.conf >= profile.conf
  /\ ~CooldownActive(profile)
  /\ view.strategy                  \* target "up", regime allowed, report readable

(* A refusal records a no_trade decision with its reasons, and sleeps. *)
DecideEntry(p) ==
  /\ pc[p] = "entry"
  /\ \E view \in EntryView :
       /\ Consistent(view)
       /\ \/ /\ EntryAllowed(view, IterationProfile(p))
             /\ Goes(p, "fill", job[p])
          \/ /\ ~EntryAllowed(view, IterationProfile(p))
             /\ Goes(p, "sleep", NoJob)
  /\ UNCHANGED <<revisions, sessions, decisions>>

(* run_cycle: settlement leaves an open session, or a skipped one when the   *)
(* quote aged or was refused.                                                *)
FillEntry(p) ==
  /\ pc[p] = "fill"
  /\ Len(sessions) < MaxSessions
  /\ \E status \in {"open", "skipped"} :
       sessions' = Append(sessions, [status |-> status, age |-> 0, reason |-> "none"])
  /\ Goes(p, "opened", Working(job[p].revision, Len(sessions) + 1, "none"))
  /\ UNCHANGED <<revisions, decisions>>

(* Mutant: a decision is stamped with the revision active when it is written. *)
ActiveRevision(p) == Len(revisions)

DecisionRevision(p) == job[p].revision

Records(p, type) ==
  /\ decisions' = Append(decisions, [type |-> type, session |-> job[p].session,
                                     revision |-> DecisionRevision(p)])
  /\ Goes(p, "sleep", NoJob)
  /\ UNCHANGED <<revisions, sessions>>

(* The decision is "paper_trade_opened" whatever run_cycle's session became. *)
RecordOpened(p) == pc[p] = "opened" /\ Records(p, "opened")

-----------------------------------------------------------------------------
(* The exit half. *)

(* Mutant: a position is never too old. *)
ExitReasonButTime(profile, pnl, age, regime, allowed) ==
  IF pnl <= -StopLossBps THEN "stop_loss"
  ELSE IF pnl >= TakeProfitBps THEN "take_profit"
  ELSE IF regime \in {"risk_off", "no_trade"} THEN "regime_degraded"
  ELSE IF ~allowed THEN "risk_disallowed"
  ELSE "none"

(* _evaluate_exit: the first rule that applies. *)
ExitReason(profile, pnl, age, regime, allowed) ==
  IF pnl <= -StopLossBps THEN "stop_loss"
  ELSE IF pnl >= TakeProfitBps THEN "take_profit"
  ELSE IF age >= profile.timeStop THEN "time_stop"
  ELSE IF regime \in {"risk_off", "no_trade"} THEN "regime_degraded"
  ELSE IF ~allowed THEN "risk_disallowed"
  ELSE "none"

(* A session that no rule closes gets a review_only decision. *)
EvaluateExit(p) ==
  /\ pc[p] = "exit"
  /\ \E pnl \in PnlBps, regime \in Regimes, allowed \in BOOLEAN :
       LET s == job[p].session
           reason == ExitReason(IterationProfile(p), pnl, sessions[s].age, regime, allowed)
       IN \/ /\ reason = "none"
             /\ Goes(p, "sleep", NoJob)
          \/ /\ reason # "none"
             /\ Goes(p, "close", Working(job[p].revision, s, reason))
  /\ UNCHANGED <<revisions, sessions, decisions>>

(* close_cycle; closing a session that is no longer open raises, as Abort. *)
CloseSession(p) ==
  /\ pc[p] = "close"
  /\ sessions[job[p].session].status = "open"
  /\ sessions' = [sessions EXCEPT ![job[p].session] =
                    [status |-> "closed", age |-> 0, reason |-> job[p].reason]]
  /\ Goes(p, "review", job[p])
  /\ UNCHANGED <<revisions, decisions>>

(* The patch becomes a proposal, is reviewed and compared; it is applied     *)
(* only if it was accepted and selected.                                     *)
ReviewClose(p) ==
  /\ pc[p] = "review"
  /\ \/ revisions' = Append(revisions,
          [profile |-> Patched(IterationProfile(p), revisions[Len(revisions)].profile,
                               job[p].reason),
           source |-> job[p].session])
     \/ UNCHANGED revisions
  /\ Goes(p, "closed", job[p])
  /\ UNCHANGED <<sessions, decisions>>

RecordClosed(p) == pc[p] = "closed" /\ Records(p, "closed")

-----------------------------------------------------------------------------
Init ==
  /\ revisions = << [profile |-> InitialProfile, source |-> 0] >>
  /\ sessions = << >>
  /\ decisions = << >>
  /\ pc = [p \in Loops |-> "off"]
  /\ job = [p \in Loops |-> NoJob]

Iterate(p) ==
  \/ LoadProfile(p) \/ RunRegimeCycle(p)
  \/ DecideEntry(p) \/ FillEntry(p) \/ RecordOpened(p)
  \/ EvaluateExit(p) \/ CloseSession(p) \/ ReviewClose(p) \/ RecordClosed(p)

Next == Tick \/ \E p \in Loops : StartLoop(p) \/ EndLoop(p) \/ Abort(p) \/ Iterate(p)

Spec == Init /\ [][Next]_vars

(* Time passes, and a loop that runs and does not fail gets on with its      *)
(* iteration.  Nothing makes anyone start a loop, nor keeps it from failing. *)
Fairness == WF_vars(Tick) /\ \A p \in Loops : WF_vars(Iterate(p))

FairSpec == Spec /\ Fairness

-----------------------------------------------------------------------------
(* Properties.                                                              *)

(* Every table holds rows of its type: in particular no sequence of closes  *)
(* patches the profile out of its bounds.                                   *)
TypeOK ==
  /\ revisions \in Seq(Revision) /\ revisions # << >>
  /\ sessions \in Seq(Session)
  /\ decisions \in Seq(Decision)
  /\ pc \in [Loops -> Stages]
  /\ job \in [Loops -> Job]

(* max_open_sessions is 1, and nothing reads it: that there is one open     *)
(* session at most follows from one loop alone opening them, and only when  *)
(* it saw none, whatever crashed before.                                    *)
AtMostOneOpenSession ==
  \A s, t \in DOMAIN sessions :
    sessions[s].status = "open" /\ sessions[t].status = "open" => s = t

(* Each revision but the first is the patch of the one before it for the    *)
(* reason of one closed session, and no session moves the profile twice:    *)
(* no patch is computed from a payload that is no longer the active one.    *)
RevisionLineage ==
  \A r \in 2 .. Len(revisions) :
    LET before == revisions[r - 1].profile
        s == revisions[r].source
    IN /\ s \in DOMAIN sessions /\ sessions[s].status = "closed"
       /\ revisions[r].profile = Patched(before, before, sessions[s].reason)
       /\ \A q \in 2 .. Len(revisions) : revisions[q].source = s => q = r

(* A closing decision names a closed session, once, and the revision that   *)
(* governed the close: the one before the revision the close led to.        *)
DecisionAttribution ==
  \A d \in DOMAIN decisions : decisions[d].type = "closed" =>
    LET s == decisions[d].session IN
      /\ s \in DOMAIN sessions /\ sessions[s].status = "closed"
      /\ \A e \in DOMAIN decisions :
           decisions[e].type = "closed" /\ decisions[e].session = s => e = d
      /\ \A r \in 2 .. Len(revisions) :
           revisions[r].source = s => decisions[d].revision = r - 1

(* No position is opened before the cooldown of the active profile has      *)
(* passed since every close, although the profile may have been patched and *)
(* the loop restarted in between.                                           *)
CooldownRespected ==
  [][\A s \in DOMAIN sessions' \ DOMAIN sessions :
       sessions'[s].status = "open" =>
         \A t \in DOMAIN sessions : sessions[t].status = "closed" =>
           sessions[t].age >= revisions[Len(revisions)].profile.cooldown]_vars

(* No session stays open forever under a loop that keeps running: the time  *)
(* stop closes what no other rule does.                                     *)
WatchedUntilClosed ==
  \A s \in 1 .. MaxSessions :
    ~<>[](s \in OpenSessions /\ \E p \in Loops : pc[p] # "off")
=============================================================================
