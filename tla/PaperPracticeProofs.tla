------------------------ MODULE PaperPracticeProofs -------------------------
(***************************************************************************)
(* Theorems of PaperPractice, for every profile, every threshold and any    *)
(* number of sessions.  Types hold for any number of loops, the rest for    *)
(* one loop.                                                                *)
(***************************************************************************)
EXTENDS PaperPractice, TLAPS

Reading == {"cycle", "entry", "fill", "opened", "exit", "close", "review", "closed"}
Holding == {"opened", "exit", "close", "review", "closed"}

(* What an iteration holds at each of its steps are ids of committed rows. *)
JobHoldsRows(p) ==
  /\ pc[p] \in Reading => job[p].revision \in DOMAIN revisions
  /\ pc[p] \in Holding => job[p].session \in DOMAIN sessions

TypeInv == TypeOK /\ \A p \in Loops : JobHoldsRows(p)

-----------------------------------------------------------------------------
LEMMA WorkingType ==
  ASSUME NEW r \in Nat, NEW s \in Nat, NEW reason \in Reasons \cup {"none"}
  PROVE  Working(r, s, reason) \in Job /\ NoJob \in Job
  BY DEF Working, Job, NoJob

(* No patch takes a profile out of its bounds. *)
LEMMA PatchedType ==
  ASSUME NEW loaded \in Profile, NEW active \in Profile, NEW reason
  PROVE  Patched(loaded, active, reason) \in Profile
  <1> USE PracticeAssumption
  <1>1. /\ loaded.conf \in 55 .. 95
        /\ loaded.cooldown \in InitialProfile.cooldown .. 12
        /\ loaded.timeStop \in 4 .. InitialProfile.timeStop
        /\ active.cooldown \in InitialProfile.cooldown .. 12
        /\ active.timeStop \in 4 .. InitialProfile.timeStop
        /\ InitialProfile.cooldown \in Nat /\ InitialProfile.timeStop \in Nat
    BY DEF Profile
  <1>2. /\ AtMost(95, loaded.conf + 5) \in 55 .. 95
        /\ AtMost(90, loaded.conf + 2) \in 55 .. 95
        /\ AtLeast(55, loaded.conf - 2) \in 55 .. 95
        /\ AtMost(12, loaded.cooldown + 1) \in InitialProfile.cooldown .. 12
        /\ ShorterHold(loaded.timeStop) \in 4 .. InitialProfile.timeStop
    BY <1>1 DEF AtMost, AtLeast, ShorterHold
  <1> QED BY <1>1, <1>2 DEF Patched, Profile

LEMMA AppendRow ==
  ASSUME NEW S, NEW rows \in Seq(S), NEW row \in S
  PROVE  /\ Append(rows, row) \in Seq(S)
         /\ Len(Append(rows, row)) = Len(rows) + 1
         /\ Len(rows) \in Nat
         /\ DOMAIN Append(rows, row) = DOMAIN rows \cup {Len(rows) + 1}
         /\ DOMAIN rows = 1 .. Len(rows)
         /\ \A i \in DOMAIN rows : Append(rows, row)[i] = rows[i]
         /\ Append(rows, row)[Len(rows) + 1] = row
  OBVIOUS

OthersRest(p) == \A q \in Loops \ {p} : pc'[q] = pc[q] /\ job'[q] = job[q]

LEMMA GoesTyped ==
  ASSUME TypeOK, NEW p \in Loops, NEW stage \in Stages, NEW work \in Job, Goes(p, stage, work)
  PROVE  /\ pc' \in [Loops -> Stages] /\ job' \in [Loops -> Job]
         /\ pc'[p] = stage /\ job'[p] = work
         /\ OthersRest(p)
  BY DEF TypeOK, Goes, OthersRest

(* The tables grow, and no row leaves them. *)
Grown == DOMAIN revisions \subseteq DOMAIN revisions' /\ DOMAIN sessions \subseteq DOMAIN sessions'

LEMMA StepTyped ==
  ASSUME TypeInv, NEW p \in Loops, NEW stage \in Stages, NEW work \in Job,
         Goes(p, stage, work), Grown,
         revisions' \in Seq(Revision), revisions' # << >>,
         sessions' \in Seq(Session), decisions' \in Seq(Decision),
         stage \in Reading => work.revision \in DOMAIN revisions',
         stage \in Holding => work.session \in DOMAIN sessions'
  PROVE  TypeInv'
  <1>1. TypeOK'
    BY GoesTyped DEF TypeInv, TypeOK
  <1>2. ASSUME NEW q \in Loops PROVE JobHoldsRows(q)'
    <2>1. CASE q = p
      BY <2>1, GoesTyped DEF TypeInv, JobHoldsRows
    <2>2. CASE q # p
      BY <2>2, GoesTyped DEF TypeInv, JobHoldsRows, OthersRest, Grown
    <2> QED BY <2>1, <2>2
  <1> QED BY <1>1, <1>2 DEF TypeInv

(* A step that writes no row. *)
LEMMA QuietTyped ==
  ASSUME TypeInv, NEW p \in Loops, NEW stage \in Stages, NEW work \in Job,
         Goes(p, stage, work), UNCHANGED <<revisions, sessions, decisions>>,
         stage \in Reading => work.revision \in DOMAIN revisions,
         stage \in Holding => work.session \in DOMAIN sessions
  PROVE  TypeInv'
  <1>1. Grown /\ revisions' \in Seq(Revision) /\ revisions' # << >>
        /\ sessions' \in Seq(Session) /\ decisions' \in Seq(Decision)
    BY DEF TypeInv, TypeOK, Grown
  <1> QED BY <1>1, StepTyped

LEMMA TypeInvInit == Init => TypeInv
  <1> SUFFICES ASSUME Init PROVE TypeInv
    OBVIOUS
  <1>1. [profile |-> InitialProfile, source |-> 0] \in Revision
    BY PracticeAssumption DEF Revision
  <1>2. revisions \in Seq(Revision) /\ revisions # << >>
    BY <1>1 DEF Init
  <1>3. pc \in [Loops -> Stages] /\ job \in [Loops -> Job]
    BY WorkingType DEF Init, Stages, NoJob, Job
  <1>4. TypeOK
    BY <1>2, <1>3 DEF Init, TypeOK
  <1>5. \A p \in Loops : JobHoldsRows(p)
    BY DEF Init, JobHoldsRows, Reading, Holding
  <1> QED BY <1>4, <1>5 DEF TypeInv

(* The profile an iteration works with, and the job of a loop, are typed. *)
LEMMA IterationTyped ==
  ASSUME TypeInv, NEW p \in Loops
  PROVE  /\ job[p] \in Job /\ job[p].revision \in Nat /\ job[p].session \in Nat
         /\ job[p].reason \in Reasons \cup {"none"}
         /\ Len(revisions) \in Nat /\ Len(revisions) \in DOMAIN revisions
         /\ \A r \in DOMAIN revisions : revisions[r] \in Revision /\ revisions[r].profile \in Profile
         /\ pc[p] \in Reading => IterationProfile(p) \in Profile
  <1>1. job[p] \in Job /\ revisions \in Seq(Revision) /\ revisions # << >> /\ JobHoldsRows(p)
    BY DEF TypeInv, TypeOK
  <1>2. /\ Len(revisions) \in Nat /\ Len(revisions) \in DOMAIN revisions
        /\ \A r \in DOMAIN revisions : revisions[r] \in Revision
    BY <1>1
  <1>3. \A r \in DOMAIN revisions : revisions[r].profile \in Profile
    BY <1>2 DEF Revision
  <1> QED BY <1>1, <1>2, <1>3 DEF Job, JobHoldsRows, IterationProfile

LEMMA TickTyped ==
  ASSUME TypeInv, Tick
  PROVE  TypeInv'
  <1>1. sessions \in Seq(Session) /\ pc \in [Loops -> Stages]
    BY DEF TypeInv, TypeOK
  <1>2. ASSUME NEW s \in DOMAIN sessions
        PROVE  [status |-> sessions[s].status, age |-> Older(sessions[s]),
                reason |-> sessions[s].reason] \in Session
    <2>1. sessions[s] \in Session
      BY <1>1
    <2>2. sessions[s].age \in Nat /\ Older(sessions[s]) \in Nat
      BY <2>1, PracticeAssumption DEF Older, Session
    <2> QED BY <2>1, <2>2 DEF Session
  <1>3. DOMAIN sessions = 1 .. Len(sessions) /\ Len(sessions) \in Nat
    BY <1>1
  <1>4. sessions' \in Seq(Session) /\ DOMAIN sessions' = DOMAIN sessions
    BY <1>2, <1>3 DEF Tick
  <1>5. pc' \in [Loops -> Stages]
    BY <1>1 DEF Tick, Stages
  <1>6. TypeOK'
    BY <1>4, <1>5 DEF TypeInv, TypeOK, Tick
  <1>7. \A p \in Loops : JobHoldsRows(p)'
    BY <1>1, <1>4 DEF TypeInv, JobHoldsRows, Tick, Reading, Holding
  <1> QED BY <1>6, <1>7 DEF TypeInv

LEMMA QuietStepsTyped ==
  ASSUME TypeInv, NEW p \in Loops,
         \/ StartLoop(p) \/ EndLoop(p) \/ Abort(p) \/ LoadProfile(p) \/ RunRegimeCycle(p)
         \/ DecideEntry(p) \/ EvaluateExit(p)
  PROVE  TypeInv'
  <1>0. NoJob \in Job /\ job[p] \in Job /\ Len(revisions) \in Nat
        /\ Len(revisions) \in DOMAIN revisions /\ job[p].revision \in Nat
    BY WorkingType, IterationTyped
  <1>1. CASE StartLoop(p)
    BY <1>0, <1>1, QuietTyped DEF StartLoop, Stages, Reading, Holding
  <1>2. CASE EndLoop(p)
    BY <1>0, <1>2, QuietTyped DEF EndLoop, Stages, Reading, Holding
  <1>3. CASE Abort(p)
    BY <1>0, <1>3, QuietTyped DEF Abort, Stages, Reading, Holding
  <1>4. CASE LoadProfile(p)
    <2>1. Working(Len(revisions), 0, "none") \in Job
          /\ Working(Len(revisions), 0, "none").revision = Len(revisions)
      BY <1>0, WorkingType DEF Working
    <2> QED BY <1>0, <1>4, <2>1, QuietTyped DEF LoadProfile, Stages, Reading, Holding
  <1>5. CASE RunRegimeCycle(p)
    <2>1. pc[p] \in Reading /\ job[p].revision \in DOMAIN revisions
      BY <1>5 DEF RunRegimeCycle, TypeInv, JobHoldsRows, Reading
    <2>2. CASE Goes(p, "entry", job[p])
      BY <1>0, <1>5, <2>1, <2>2, QuietTyped DEF RunRegimeCycle, Stages, Reading, Holding
    <2>3. ASSUME NEW s \in OpenSessions, Goes(p, "exit", Working(job[p].revision, s, "none"))
          PROVE  TypeInv'
      <3>1. s \in DOMAIN sessions /\ s \in Nat
        BY DEF OpenSessions, TypeInv, TypeOK
      <3>2. Working(job[p].revision, s, "none") \in Job
            /\ Working(job[p].revision, s, "none").revision = job[p].revision
            /\ Working(job[p].revision, s, "none").session = s
        BY <1>0, <3>1, WorkingType DEF Working
      <3> QED BY <1>5, <2>1, <2>3, <3>1, <3>2, QuietTyped DEF RunRegimeCycle, Stages, Reading, Holding
    <2> QED BY <1>5, <2>2, <2>3 DEF RunRegimeCycle
  <1>6. CASE DecideEntry(p)
    <2>1. job[p].revision \in DOMAIN revisions
      BY <1>6 DEF DecideEntry, TypeInv, JobHoldsRows, Reading
    <2>2. Goes(p, "fill", job[p]) \/ Goes(p, "sleep", NoJob)
      BY <1>6 DEF DecideEntry
    <2> QED BY <1>0, <1>6, <2>1, <2>2, QuietTyped DEF DecideEntry, Stages, Reading, Holding
  <1>7. CASE EvaluateExit(p)
    <2>1. job[p].revision \in DOMAIN revisions /\ job[p].session \in DOMAIN sessions
      BY <1>7 DEF EvaluateExit, TypeInv, JobHoldsRows, Reading, Holding
    <2>2. PICK pnl \in PnlBps, regime \in Regimes, allowed \in BOOLEAN :
            LET s == job[p].session
                reason == ExitReason(IterationProfile(p), pnl, sessions[s].age, regime, allowed)
            IN \/ /\ reason = "none"
                  /\ Goes(p, "sleep", NoJob)
               \/ /\ reason # "none"
                  /\ Goes(p, "close", Working(job[p].revision, s, reason))
      BY <1>7 DEF EvaluateExit
    <2> DEFINE reason == ExitReason(IterationProfile(p), pnl, sessions[job[p].session].age,
                                    regime, allowed)
    <2>3. reason \in Reasons \cup {"none"}
      BY DEF ExitReason, Reasons, Adverse
    <2>4. Goes(p, "sleep", NoJob) \/ Goes(p, "close", Working(job[p].revision, job[p].session, reason))
      BY <2>2
    <2> HIDE DEF reason
    <2>5. job[p].session \in Nat
      BY IterationTyped
    <2>6. Working(job[p].revision, job[p].session, reason) \in Job
          /\ Working(job[p].revision, job[p].session, reason).revision = job[p].revision
          /\ Working(job[p].revision, job[p].session, reason).session = job[p].session
      BY <1>0, <2>3, <2>5, WorkingType DEF Working
    <2> QED BY <1>0, <1>7, <2>1, <2>4, <2>6, QuietTyped DEF EvaluateExit, Stages, Reading, Holding
  <1> QED BY <1>1, <1>2, <1>3, <1>4, <1>5, <1>6, <1>7

LEMMA FillEntryTyped ==
  ASSUME TypeInv, NEW p \in Loops, FillEntry(p)
  PROVE  TypeInv'
  <1>1. PICK status \in {"open", "skipped"} :
          sessions' = Append(sessions, [status |-> status, age |-> 0, reason |-> "none"])
    BY DEF FillEntry
  <1> DEFINE row == [status |-> status, age |-> 0, reason |-> "none"]
             work == Working(job[p].revision, Len(sessions) + 1, "none")
  <1>2. row \in Session
    BY DEF Session
  <1>3. sessions \in Seq(Session) /\ sessions' = Append(sessions, row)
    BY <1>1 DEF TypeInv, TypeOK
  <1> HIDE DEF row
  <1>4. /\ sessions' \in Seq(Session)
        /\ DOMAIN sessions \subseteq DOMAIN sessions' /\ Len(sessions) + 1 \in DOMAIN sessions'
        /\ Len(sessions) \in Nat
    BY <1>2, <1>3, AppendRow
  <1>5. job[p].revision \in DOMAIN revisions /\ job[p].revision \in Nat
    BY IterationTyped DEF FillEntry, TypeInv, JobHoldsRows, Reading
  <1>6. work \in Job /\ work.revision = job[p].revision /\ work.session = Len(sessions) + 1
    BY <1>4, <1>5, WorkingType DEF Working
  <1>7. Goes(p, "opened", work) /\ UNCHANGED <<revisions, decisions>>
    BY DEF FillEntry
  <1> HIDE DEF work
  <1>8. Grown /\ revisions' \in Seq(Revision) /\ revisions' # << >> /\ decisions' \in Seq(Decision)
    BY <1>4, <1>7 DEF Grown, TypeInv, TypeOK
  <1> QED BY <1>4, <1>5, <1>6, <1>7, <1>8, StepTyped DEF Stages

LEMMA RecordsTyped ==
  ASSUME TypeInv, NEW p \in Loops, NEW type \in {"opened", "closed"}, Records(p, type)
  PROVE  TypeInv'
  <1> DEFINE row == [type |-> type, session |-> job[p].session, revision |-> DecisionRevision(p)]
  <1>1. row \in Decision
    BY IterationTyped DEF Decision, DecisionRevision
  <1>2. decisions \in Seq(Decision) /\ decisions' = Append(decisions, row)
    BY DEF TypeInv, TypeOK, Records
  <1> HIDE DEF row
  <1>3. decisions' \in Seq(Decision)
    BY <1>1, <1>2, AppendRow
  <1>4. Goes(p, "sleep", NoJob) /\ UNCHANGED <<revisions, sessions>>
    BY DEF Records
  <1>5. Grown /\ revisions' \in Seq(Revision) /\ revisions' # << >> /\ sessions' \in Seq(Session)
    BY <1>4 DEF Grown, TypeInv, TypeOK
  <1>6. NoJob \in Job
    BY WorkingType
  <1> QED BY <1>3, <1>4, <1>5, <1>6, StepTyped DEF Stages, Reading, Holding

LEMMA CloseSessionTyped ==
  ASSUME TypeInv, NEW p \in Loops, CloseSession(p)
  PROVE  TypeInv' /\ DOMAIN sessions' = DOMAIN sessions
  <1> DEFINE row == [status |-> "closed", age |-> 0, reason |-> job[p].reason]
  <1>1. row \in Session /\ job[p] \in Job
    BY IterationTyped DEF Session
  <1>2. sessions \in Seq(Session) /\ sessions' = [sessions EXCEPT ![job[p].session] = row]
    BY DEF CloseSession, TypeInv, TypeOK
  <1> HIDE DEF row
  <1>3. job[p].revision \in DOMAIN revisions /\ job[p].session \in DOMAIN sessions
    BY DEF CloseSession, TypeInv, JobHoldsRows, Reading, Holding
  <1>4. sessions' \in Seq(Session) /\ DOMAIN sessions' = DOMAIN sessions
    BY <1>1, <1>2, <1>3
  <1>5. Goes(p, "review", job[p]) /\ UNCHANGED <<revisions, decisions>>
    BY DEF CloseSession
  <1>6. Grown /\ revisions' \in Seq(Revision) /\ revisions' # << >> /\ decisions' \in Seq(Decision)
    BY <1>4, <1>5 DEF Grown, TypeInv, TypeOK
  <1> QED BY <1>1, <1>4, <1>3, <1>5, <1>6, StepTyped DEF Stages

LEMMA ReviewCloseTyped ==
  ASSUME TypeInv, NEW p \in Loops, ReviewClose(p)
  PROVE  TypeInv'
  <1> DEFINE row == [profile |-> Patched(IterationProfile(p), revisions[Len(revisions)].profile,
                                         job[p].reason),
                     source |-> job[p].session]
  <1>1. IterationProfile(p) \in Profile /\ revisions[Len(revisions)].profile \in Profile
        /\ job[p].session \in Nat /\ job[p] \in Job
    BY IterationTyped DEF ReviewClose, Reading
  <1>2. row \in Revision
    BY <1>1, PatchedType DEF Revision
  <1>3. revisions' = Append(revisions, row) \/ revisions' = revisions
    BY DEF ReviewClose
  <1>4. revisions \in Seq(Revision) /\ revisions # << >>
    BY DEF TypeInv, TypeOK
  <1> HIDE DEF row
  <1>5. revisions' \in Seq(Revision) /\ revisions' # << >>
        /\ DOMAIN revisions \subseteq DOMAIN revisions'
    BY <1>2, <1>3, <1>4
  <1>6. Goes(p, "closed", job[p]) /\ UNCHANGED <<sessions, decisions>>
    BY DEF ReviewClose
  <1>7. Grown /\ sessions' \in Seq(Session) /\ decisions' \in Seq(Decision)
    BY <1>5, <1>6 DEF Grown, TypeInv, TypeOK
  <1>8. job[p].revision \in DOMAIN revisions' /\ job[p].session \in DOMAIN sessions'
    BY <1>5, <1>6 DEF ReviewClose, TypeInv, JobHoldsRows, Reading, Holding
  <1> QED BY <1>1, <1>5, <1>6, <1>7, <1>8, StepTyped DEF Stages

LEMMA TypeInvNext == TypeInv /\ [Next]_vars => TypeInv'
  <1> SUFFICES ASSUME TypeInv, [Next]_vars PROVE TypeInv'
    OBVIOUS
  <1>1. CASE Tick
    BY <1>1, TickTyped
  <1>2. ASSUME NEW p \in Loops, StartLoop(p) \/ EndLoop(p) \/ Abort(p) \/ Iterate(p)
        PROVE  TypeInv'
    <2>1. CASE \/ StartLoop(p) \/ EndLoop(p) \/ Abort(p) \/ LoadProfile(p) \/ RunRegimeCycle(p)
               \/ DecideEntry(p) \/ EvaluateExit(p)
      BY <2>1, QuietStepsTyped
    <2>2. CASE FillEntry(p)
      BY <2>2, FillEntryTyped
    <2>3. CASE RecordOpened(p) \/ RecordClosed(p)
      BY <2>3, RecordsTyped DEF RecordOpened, RecordClosed
    <2>4. CASE CloseSession(p)
      BY <2>4, CloseSessionTyped
    <2>5. CASE ReviewClose(p)
      BY <2>5, ReviewCloseTyped
    <2> QED BY <1>2, <2>1, <2>2, <2>3, <2>4, <2>5 DEF Iterate
  <1>3. CASE UNCHANGED vars
    BY <1>3 DEF vars, TypeInv, TypeOK, JobHoldsRows
  <1> QED BY <1>1, <1>2, <1>3 DEF Next

(* Every row is of its type in every reachable state: in particular the     *)
(* patches of any sequence of closes, by any number of loops, keep the      *)
(* confidence in 55 .. 95, the cooldown at most 12 and the time stop at     *)
(* least 4.                                                                 *)
THEOREM TypeCorrect == Spec => []TypeOK
  <1>1. Spec => []TypeInv
    BY TypeInvInit, TypeInvNext, PTL DEF Spec
  <1>2. TypeInv => TypeOK
    BY DEF TypeInv
  <1> QED BY <1>1, <1>2, PTL

-----------------------------------------------------------------------------
(* One loop alone: what its iteration saw still holds when it acts on it.   *)

OneLoop == \A p, q \in Loops : p = q

Early == {"cycle", "entry", "fill", "opened", "exit", "close", "review"}

(* The revision an iteration loaded stays the active one until its review   *)
(* appends the next; it found no open session and no recent close before it *)
(* fills; and the session it closes has moved nothing and been recorded     *)
(* nowhere before.                                                          *)
IterationHolds(p) ==
  /\ pc[p] \in Early => job[p].revision = Len(revisions)
  /\ pc[p] \in {"entry", "fill"} => OpenSessions = {}
  /\ pc[p] = "fill" => ~CooldownActive(IterationProfile(p))
  /\ pc[p] \in {"exit", "close"} => job[p].session \in OpenSessions
  /\ pc[p] \in {"review", "closed"} =>
       /\ sessions[job[p].session].status = "closed"
       /\ \A d \in DOMAIN decisions :
            decisions[d].type = "closed" => decisions[d].session # job[p].session
  /\ pc[p] = "review" =>
       /\ sessions[job[p].session].reason = job[p].reason
       /\ \A r \in 2 .. Len(revisions) : revisions[r].source # job[p].session
  /\ pc[p] = "closed" =>
       \A r \in 2 .. Len(revisions) :
         revisions[r].source = job[p].session => job[p].revision = r - 1

Recorded == AtMostOneOpenSession /\ RevisionLineage /\ DecisionAttribution

Safe == Recorded /\ \A p \in Loops : IterationHolds(p)

LEMMA SafeInit == Init => Safe
  BY DEF Init, Safe, Recorded, AtMostOneOpenSession, OpenSessions, RevisionLineage,
         DecisionAttribution, IterationHolds, Early

(* A step of the only loop that writes no row. *)
LEMMA QuietSafe ==
  ASSUME OneLoop, TypeInv, Safe, NEW p \in Loops,
         UNCHANGED <<revisions, sessions, decisions>>, IterationHolds(p)'
  PROVE  Safe'
  <1>1. Recorded'
    BY DEF Safe, Recorded, AtMostOneOpenSession, OpenSessions, RevisionLineage,
           DecisionAttribution
  <1> QED BY <1>1 DEF Safe, OneLoop

LEMMA TickSafe ==
  ASSUME TypeInv, Safe, Tick
  PROVE  Safe'
  <1>1. /\ DOMAIN sessions' = DOMAIN sessions
        /\ \A s \in DOMAIN sessions : /\ sessions'[s].status = sessions[s].status
                                      /\ sessions'[s].reason = sessions[s].reason
                                      /\ sessions'[s].age = Older(sessions[s])
        /\ UNCHANGED <<revisions, decisions, job>>
    BY DEF Tick
  <1>2. OpenSessions' = OpenSessions
    BY <1>1 DEF OpenSessions
  <1>3. Recorded'
    BY <1>1, <1>2 DEF Safe, Recorded, AtMostOneOpenSession, RevisionLineage,
                      DecisionAttribution
  <1>4. ASSUME NEW p \in Loops PROVE IterationHolds(p)'
    <2>1. pc'[p] = pc[p] \/ pc'[p] = "load"
      BY DEF Tick
    <2>2. IterationProfile(p)' = IterationProfile(p)
      BY <1>1 DEF IterationProfile
    <2>3. ASSUME pc[p] = "fill" PROVE ~CooldownActive(IterationProfile(p))'
      <3>1. IterationProfile(p).cooldown \in Nat
        <4>1. IterationProfile(p) \in Profile
          BY <2>3, IterationTyped DEF Reading
        <4> QED BY <4>1, PracticeAssumption DEF Profile
      <3>2. ~CooldownActive(IterationProfile(p))
        BY <2>3 DEF Safe, IterationHolds
      <3>3. \A s \in DOMAIN sessions : sessions[s].age \in Nat /\ Older(sessions[s]) >= sessions[s].age
        <4>1. \A s \in DOMAIN sessions : sessions[s] \in Session
          BY DEF TypeInv, TypeOK
        <4> QED BY <4>1, PracticeAssumption DEF Older, Session
      <3>4. \A s \in DOMAIN sessions : Older(sessions[s]) \in Nat
        BY <3>3, PracticeAssumption DEF Older
      <3> QED BY <1>1, <2>2, <3>1, <3>2, <3>3, <3>4 DEF CooldownActive
    <2>4. (pc[p] \in Holding => job[p].session \in DOMAIN sessions)
      BY DEF TypeInv, JobHoldsRows
    <2> QED BY <1>1, <1>2, <2>1, <2>3, <2>4 DEF Safe, IterationHolds, Early, Holding
  <1> QED BY <1>3, <1>4 DEF Safe

LEMMA QuietStepsSafe ==
  ASSUME OneLoop, TypeInv, Safe, NEW p \in Loops,
         \/ StartLoop(p) \/ EndLoop(p) \/ Abort(p) \/ LoadProfile(p) \/ RunRegimeCycle(p)
         \/ DecideEntry(p) \/ EvaluateExit(p)
  PROVE  Safe'
  <1>0. NoJob \in Job /\ job[p] \in Job /\ TypeOK /\ IterationHolds(p)
    BY WorkingType, IterationTyped DEF TypeInv, Safe
  <1>u. UNCHANGED <<revisions, sessions, decisions>>
    BY DEF StartLoop, EndLoop, Abort, LoadProfile, RunRegimeCycle, DecideEntry, EvaluateExit
  <1>o. OpenSessions' = OpenSessions
    BY <1>u DEF OpenSessions
  <1>1. ASSUME pc'[p] \in {"off", "load", "sleep"} PROVE Safe'
    BY <1>1, <1>u, QuietSafe DEF IterationHolds, Early
  <1>2. CASE StartLoop(p) \/ EndLoop(p) \/ Abort(p)
    BY <1>0, <1>1, <1>2, GoesTyped DEF StartLoop, EndLoop, Abort, Stages
  <1>3. CASE LoadProfile(p)
    <2>1. Len(revisions) \in Nat
      BY IterationTyped
    <2>2. Working(Len(revisions), 0, "none") \in Job
      BY <2>1, WorkingType
    <2>3. pc'[p] = "cycle" /\ job'[p].revision = Len(revisions)
      BY <1>0, <1>3, <2>2, GoesTyped DEF LoadProfile, Stages, Working
    <2> QED BY <1>u, <2>3, QuietSafe DEF IterationHolds, Early
  <1>4. CASE RunRegimeCycle(p)
    <2>1. job[p].revision = Len(revisions)
      BY <1>0, <1>4 DEF RunRegimeCycle, IterationHolds, Early
    <2>2. CASE OpenSessions = {} /\ Goes(p, "entry", job[p])
      <3>1. pc'[p] = "entry" /\ job'[p].revision = Len(revisions)
        BY <1>0, <2>1, <2>2, GoesTyped DEF Stages
      <3> QED BY <1>u, <1>o, <2>2, <3>1, QuietSafe DEF IterationHolds, Early
    <2>3. ASSUME NEW s \in OpenSessions, Goes(p, "exit", Working(job[p].revision, s, "none"))
          PROVE  Safe'
      <3>1. Working(job[p].revision, s, "none") \in Job
        <4>1. s \in Nat /\ job[p].revision \in Nat
          BY <1>0, IterationTyped DEF OpenSessions, TypeOK
        <4> QED BY <4>1, WorkingType
      <3>2. pc'[p] = "exit" /\ job'[p].revision = Len(revisions) /\ job'[p].session = s
        BY <1>0, <2>1, <2>3, <3>1, GoesTyped DEF Stages, Working
      <3> QED BY <1>u, <1>o, <3>2, QuietSafe DEF IterationHolds, Early
    <2> QED BY <1>4, <2>2, <2>3 DEF RunRegimeCycle
  <1>5. CASE DecideEntry(p)
    <2>1. job[p].revision = Len(revisions) /\ OpenSessions = {}
      BY <1>0, <1>5 DEF DecideEntry, IterationHolds, Early
    <2>2. \/ Goes(p, "fill", job[p]) /\ ~CooldownActive(IterationProfile(p))
          \/ Goes(p, "sleep", NoJob)
      BY <1>5 DEF DecideEntry, EntryAllowed
    <2>3. CASE Goes(p, "fill", job[p]) /\ ~CooldownActive(IterationProfile(p))
      <3>1. pc'[p] = "fill" /\ job'[p] = job[p]
        BY <1>0, <2>3, GoesTyped DEF Stages
      <3>2. ~CooldownActive(IterationProfile(p))'
        BY <1>u, <2>3, <3>1 DEF CooldownActive, IterationProfile
      <3> QED BY <1>u, <1>o, <2>1, <3>1, <3>2, QuietSafe DEF IterationHolds, Early
    <2>4. CASE Goes(p, "sleep", NoJob)
      BY <1>0, <1>1, <2>4, GoesTyped DEF Stages
    <2> QED BY <2>2, <2>3, <2>4
  <1>6. CASE EvaluateExit(p)
    <2>1. /\ job[p].revision = Len(revisions) /\ job[p].revision \in Nat
          /\ job[p].session \in OpenSessions /\ job[p].session \in Nat
      BY <1>0, <1>6, IterationTyped DEF EvaluateExit, IterationHolds, Early
    <2>2. PICK reason \in Reasons \cup {"none"} :
            \/ Goes(p, "sleep", NoJob)
            \/ Goes(p, "close", Working(job[p].revision, job[p].session, reason))
      <3>1. PICK pnl \in PnlBps, regime \in Regimes, allowed \in BOOLEAN :
              \/ Goes(p, "sleep", NoJob)
              \/ Goes(p, "close", Working(job[p].revision, job[p].session,
                    ExitReason(IterationProfile(p), pnl, sessions[job[p].session].age,
                               regime, allowed)))
        BY <1>6 DEF EvaluateExit
      <3>2. ExitReason(IterationProfile(p), pnl, sessions[job[p].session].age, regime, allowed)
              \in Reasons \cup {"none"}
        BY DEF ExitReason, Reasons, Adverse
      <3> QED BY <3>1, <3>2
    <2>3. CASE Goes(p, "sleep", NoJob)
      BY <1>0, <1>1, <2>3, GoesTyped DEF Stages
    <2>4. CASE Goes(p, "close", Working(job[p].revision, job[p].session, reason))
      <3>1. Working(job[p].revision, job[p].session, reason) \in Job
        BY <2>1, WorkingType
      <3>2. pc'[p] = "close" /\ job'[p].revision = Len(revisions)
            /\ job'[p].session = job[p].session
        BY <1>0, <2>1, <2>4, <3>1, GoesTyped DEF Stages, Working
      <3> QED BY <1>u, <1>o, <2>1, <3>2, QuietSafe DEF IterationHolds, Early
    <2> QED BY <2>2, <2>3, <2>4
  <1> QED BY <1>2, <1>3, <1>4, <1>5, <1>6

LEMMA FillEntrySafe ==
  ASSUME OneLoop, TypeInv, Safe, NEW p \in Loops, FillEntry(p)
  PROVE  Safe'
  <1>1. PICK status \in {"open", "skipped"} :
          sessions' = Append(sessions, [status |-> status, age |-> 0, reason |-> "none"])
    BY DEF FillEntry
  <1> DEFINE row == [status |-> status, age |-> 0, reason |-> "none"]
             work == Working(job[p].revision, Len(sessions) + 1, "none")
  <1>2. row \in Session /\ row.status # "closed"
    BY DEF Session
  <1>3. sessions \in Seq(Session) /\ sessions' = Append(sessions, row)
    BY <1>1 DEF TypeInv, TypeOK
  <1> HIDE DEF row
  <1>4. /\ Len(sessions) \in Nat
        /\ DOMAIN sessions' = DOMAIN sessions \cup {Len(sessions) + 1}
        /\ Len(sessions) + 1 \notin DOMAIN sessions
        /\ \A s \in DOMAIN sessions : sessions'[s] = sessions[s]
        /\ sessions'[Len(sessions) + 1] = row
    BY <1>2, <1>3, AppendRow
  <1>5. OpenSessions = {} /\ job[p].revision = Len(revisions)
    BY DEF FillEntry, Safe, IterationHolds, Early
  <1>6. OpenSessions' \subseteq {Len(sessions) + 1}
    BY <1>4, <1>5 DEF OpenSessions
  <1>7. UNCHANGED <<revisions, decisions>>
    BY DEF FillEntry
  <1>8. AtMostOneOpenSession'
    BY <1>6 DEF AtMostOneOpenSession, OpenSessions
  <1>9. RevisionLineage' /\ DecisionAttribution'
    BY <1>4, <1>7 DEF Safe, Recorded, RevisionLineage, DecisionAttribution
  <1>10. work \in Job /\ work.revision = Len(revisions)
    <2>1. job[p].revision \in Nat
      BY IterationTyped
    <2> QED BY <1>4, <1>5, <2>1, WorkingType DEF Working
  <1>11. Goes(p, "opened", work)
    BY DEF FillEntry
  <1> HIDE DEF work
  <1>12. pc'[p] = "opened" /\ job'[p].revision = Len(revisions)
    BY <1>10, <1>11, GoesTyped DEF TypeInv, Stages
  <1>13. IterationHolds(p)'
    BY <1>7, <1>12 DEF IterationHolds, Early
  <1> QED BY <1>8, <1>9, <1>13 DEF Safe, Recorded, OneLoop

LEMMA CloseSessionSafe ==
  ASSUME OneLoop, TypeInv, Safe, NEW p \in Loops, CloseSession(p)
  PROVE  Safe'
  <1> DEFINE s == job[p].session
             row == [status |-> "closed", age |-> 0, reason |-> job[p].reason]
  <1>1. s \in OpenSessions /\ s \in DOMAIN sessions /\ sessions[s].status = "open"
        /\ job[p].revision = Len(revisions)
    BY DEF CloseSession, Safe, IterationHolds, OpenSessions, Early
  <1>2. sessions' = [sessions EXCEPT ![s] = row] /\ UNCHANGED <<revisions, decisions>>
    BY DEF CloseSession
  <1>3. /\ DOMAIN sessions' = DOMAIN sessions
        /\ \A t \in DOMAIN sessions \ {s} : sessions'[t] = sessions[t]
        /\ sessions'[s].status = "closed" /\ sessions'[s].reason = job[p].reason
    BY <1>1, <1>2
  <1>4. pc'[p] = "review" /\ job'[p] = job[p]
    <2>1. job[p] \in Job
      BY IterationTyped
    <2> QED BY <2>1, GoesTyped DEF CloseSession, TypeInv, Stages
  <1> HIDE DEF s, row
  <1>5. OpenSessions' \subseteq OpenSessions
    BY <1>3 DEF OpenSessions
  <1>6. AtMostOneOpenSession'
    BY <1>5 DEF Safe, Recorded, AtMostOneOpenSession, OpenSessions
  \* An open session is the source of no revision and has no closing decision.
  <1>7. \A r \in 2 .. Len(revisions) : revisions[r].source # s
    BY <1>1 DEF Safe, Recorded, RevisionLineage
  <1>8. \A d \in DOMAIN decisions : decisions[d].type = "closed" => decisions[d].session # s
    BY <1>1 DEF Safe, Recorded, DecisionAttribution
  <1>9. RevisionLineage'
    BY <1>2, <1>3, <1>7 DEF Safe, Recorded, RevisionLineage
  <1>10. DecisionAttribution'
    BY <1>2, <1>3, <1>8 DEF Safe, Recorded, DecisionAttribution
  <1>11. IterationHolds(p)'
    BY <1>1, <1>2, <1>3, <1>4, <1>7, <1>8 DEF IterationHolds, Early, s
  <1> QED BY <1>6, <1>9, <1>10, <1>11 DEF Safe, Recorded, OneLoop

LEMMA ReviewCloseSafe ==
  ASSUME OneLoop, TypeInv, Safe, NEW p \in Loops, ReviewClose(p)
  PROVE  Safe'
  <1> DEFINE s == job[p].session
             n == Len(revisions)
             before == revisions[n].profile
             row == [profile |-> Patched(before, before, sessions[s].reason), source |-> s]
  <1>1. /\ job[p].revision = n /\ sessions[s].status = "closed"
        /\ sessions[s].reason = job[p].reason
        /\ \A r \in 2 .. n : revisions[r].source # s
        /\ \A d \in DOMAIN decisions :
             decisions[d].type = "closed" => decisions[d].session # s
    BY DEF ReviewClose, Safe, IterationHolds, Early
  <1>2. revisions' = Append(revisions, row) \/ revisions' = revisions
    BY <1>1 DEF ReviewClose, IterationProfile
  <1>3. UNCHANGED <<sessions, decisions>> /\ pc'[p] = "closed" /\ job'[p] = job[p]
    <2>1. job[p] \in Job
      BY IterationTyped
    <2> QED BY <2>1, GoesTyped DEF ReviewClose, TypeInv, Stages
  <1>4. s \in DOMAIN sessions /\ n \in Nat /\ n \in DOMAIN revisions /\ before \in Profile
        /\ s \in Nat /\ revisions \in Seq(Revision)
    BY IterationTyped DEF ReviewClose, TypeInv, TypeOK, JobHoldsRows, Holding
  <1>5. row \in Revision /\ row.source = s
        /\ row.profile = Patched(before, before, sessions[s].reason)
    BY <1>4, PatchedType DEF Revision
  <1>6. AtMostOneOpenSession'
    BY <1>3 DEF Safe, Recorded, AtMostOneOpenSession, OpenSessions
  <1>7. CASE revisions' = revisions
    <2>1. RevisionLineage' /\ DecisionAttribution'
      BY <1>3, <1>7 DEF Safe, Recorded, RevisionLineage, DecisionAttribution
    <2>2. IterationHolds(p)'
      BY <1>1, <1>3, <1>7 DEF IterationHolds, Early
    <2> QED BY <1>6, <2>1, <2>2 DEF Safe, Recorded, OneLoop
  <1>8. CASE revisions' = Append(revisions, row)
    <2> HIDE DEF row
    <2>1. /\ Len(revisions') = n + 1 /\ revisions'[n + 1] = row
          /\ \A r \in 1 .. n : revisions'[r] = revisions[r]
      BY <1>4, <1>5, <1>8, AppendRow
    <2>2. n >= 1
      BY <1>4
    <2> HIDE DEF s, n
    <2>3. RevisionLineage'
      <3> SUFFICES ASSUME NEW r \in 2 .. n + 1
                   PROVE  LET b == revisions'[r - 1].profile
                              t == revisions'[r].source
                          IN /\ t \in DOMAIN sessions /\ sessions[t].status = "closed"
                             /\ revisions'[r].profile = Patched(b, b, sessions[t].reason)
                             /\ \A q \in 2 .. n + 1 : revisions'[q].source = t => q = r
        BY <1>3, <2>1 DEF RevisionLineage
      <3>1. CASE r = n + 1
        <4>1. revisions'[r].source = s /\ revisions'[r - 1].profile = before
              /\ revisions'[r].profile = Patched(before, before, sessions[s].reason)
          BY <1>4, <1>5, <2>1, <2>2, <3>1
        <4>2. \A q \in 2 .. n : revisions'[q].source # s
          BY <1>1, <1>4, <2>1
        <4>3. \A q \in 2 .. n + 1 : revisions'[q].source = s => q = r
          BY <1>4, <3>1, <4>2
        <4> QED BY <1>1, <1>4, <4>1, <4>3
      <3>2. CASE r \in 2 .. n
        <4>1. revisions'[r] = revisions[r] /\ revisions'[r - 1] = revisions[r - 1]
          BY <1>4, <2>1, <3>2
        <4>2. revisions[r].source # s
          BY <1>1, <3>2
        <4>3. /\ revisions[r].source \in DOMAIN sessions
              /\ sessions[revisions[r].source].status = "closed"
              /\ revisions[r].profile = Patched(revisions[r - 1].profile, revisions[r - 1].profile,
                                                sessions[revisions[r].source].reason)
              /\ \A q \in 2 .. n : revisions[q].source = revisions[r].source => q = r
          BY <3>2 DEF Safe, Recorded, RevisionLineage, n
        <4>4. \A q \in 2 .. n + 1 : revisions'[q].source = revisions[r].source => q = r
          <5> SUFFICES ASSUME NEW q \in 2 .. n + 1, q # r
                       PROVE  revisions'[q].source # revisions[r].source
            OBVIOUS
          <5>1. CASE q = n + 1
            BY <1>5, <2>1, <4>2, <5>1
          <5>2. CASE q \in 2 .. n
            <6>1. revisions'[q] = revisions[q]
              BY <1>4, <2>1, <5>2
            <6> QED BY <4>3, <5>2, <6>1
          <5> QED BY <1>4, <5>1, <5>2
        <4> QED BY <4>1, <4>3, <4>4
      <3> QED BY <1>4, <3>1, <3>2
    <2>4. DecisionAttribution'
      <3>1. \A r \in 2 .. n + 1 : \/ r \in 2 .. n /\ revisions'[r] = revisions[r]
                                  \/ revisions'[r].source = s
        BY <1>4, <1>5, <2>1
      <3> QED BY <1>1, <1>3, <2>1, <3>1 DEF Safe, Recorded, DecisionAttribution, n
    <2>5. IterationHolds(p)'
      <3>1. \A r \in 2 .. n + 1 : revisions'[r].source = s => job[p].revision = r - 1
        BY <1>1, <1>4, <2>1
      <3> QED BY <1>1, <1>3, <2>1, <3>1 DEF IterationHolds, Early, s
    <2> QED BY <1>6, <2>3, <2>4, <2>5 DEF Safe, Recorded, OneLoop
  <1> QED BY <1>2, <1>7, <1>8

LEMMA RecordsSafe ==
  ASSUME OneLoop, TypeInv, Safe, NEW p \in Loops, RecordOpened(p) \/ RecordClosed(p)
  PROVE  Safe'
  <1>1. PICK type \in {"opened", "closed"} : pc[p] = type /\ Records(p, type)
    BY DEF RecordOpened, RecordClosed
  <1> DEFINE row == [type |-> type, session |-> job[p].session, revision |-> job[p].revision]
             m == Len(decisions)
  <1>2. row \in Decision
    BY IterationTyped DEF Decision
  <1>3. decisions \in Seq(Decision) /\ decisions' = Append(decisions, row)
    BY <1>1 DEF Records, DecisionRevision, TypeInv, TypeOK
  <1>4. UNCHANGED <<revisions, sessions>> /\ pc'[p] = "sleep"
    BY <1>1, WorkingType, GoesTyped DEF Records, TypeInv, Stages
  <1>5. row.type = type /\ row.session = job[p].session /\ row.revision = job[p].revision
    OBVIOUS
  <1> HIDE DEF row
  <1>6. /\ m \in Nat /\ DOMAIN decisions' = DOMAIN decisions \cup {m + 1}
        /\ m + 1 \notin DOMAIN decisions
        /\ \A d \in DOMAIN decisions : decisions'[d] = decisions[d]
        /\ decisions'[m + 1] = row
    BY <1>2, <1>3, AppendRow
  <1> HIDE DEF m
  <1>7. AtMostOneOpenSession' /\ RevisionLineage'
    BY <1>4 DEF Safe, Recorded, AtMostOneOpenSession, OpenSessions, RevisionLineage
  <1>8. DecisionAttribution'
    <2>1. CASE type = "opened"
      BY <1>4, <1>5, <1>6, <2>1 DEF Safe, Recorded, DecisionAttribution
    <2>2. CASE type = "closed"
      <3>1. /\ job[p].session \in DOMAIN sessions
            /\ sessions[job[p].session].status = "closed"
            /\ \A d \in DOMAIN decisions :
                 decisions[d].type = "closed" => decisions[d].session # job[p].session
            /\ \A r \in 2 .. Len(revisions) :
                 revisions[r].source = job[p].session => job[p].revision = r - 1
        BY <1>1, <2>2 DEF Safe, IterationHolds, TypeInv, JobHoldsRows, Holding
      <3> QED BY <1>4, <1>5, <1>6, <2>2, <3>1 DEF Safe, Recorded, DecisionAttribution
    <2> QED BY <2>1, <2>2
  <1>9. IterationHolds(p)'
    BY <1>4 DEF IterationHolds, Early
  <1> QED BY <1>7, <1>8, <1>9 DEF Safe, Recorded, OneLoop

LEMMA SafeNext ==
  ASSUME OneLoop, TypeInv, Safe, [Next]_vars
  PROVE  Safe'
  <1>1. CASE Tick
    BY <1>1, TickSafe
  <1>2. ASSUME NEW p \in Loops, StartLoop(p) \/ EndLoop(p) \/ Abort(p) \/ Iterate(p)
        PROVE  Safe'
    <2>1. CASE \/ StartLoop(p) \/ EndLoop(p) \/ Abort(p) \/ LoadProfile(p) \/ RunRegimeCycle(p)
               \/ DecideEntry(p) \/ EvaluateExit(p)
      BY <2>1, QuietStepsSafe
    <2>2. CASE FillEntry(p)
      BY <2>2, FillEntrySafe
    <2>3. CASE RecordOpened(p) \/ RecordClosed(p)
      BY <2>3, RecordsSafe
    <2>4. CASE CloseSession(p)
      BY <2>4, CloseSessionSafe
    <2>5. CASE ReviewClose(p)
      BY <2>5, ReviewCloseSafe
    <2> QED BY <1>2, <2>1, <2>2, <2>3, <2>4, <2>5 DEF Iterate
  <1>3. CASE UNCHANGED vars
    <2>1. UNCHANGED <<revisions, sessions, decisions, pc, job>>
      BY <1>3 DEF vars
    <2>2. Recorded'
      BY <2>1 DEF Safe, Recorded, AtMostOneOpenSession, OpenSessions, RevisionLineage,
                  DecisionAttribution
    <2>3. ASSUME NEW p \in Loops PROVE IterationHolds(p)'
      <3>1. IterationHolds(p)
        BY DEF Safe
      <3>2. CooldownActive(IterationProfile(p))' = CooldownActive(IterationProfile(p))
        BY <2>1 DEF CooldownActive, IterationProfile
      <3>3. OpenSessions' = OpenSessions
        BY <2>1 DEF OpenSessions
      <3> QED BY <2>1, <3>1, <3>2, <3>3 DEF IterationHolds
    <2> QED BY <2>2, <2>3 DEF Safe
  <1> QED BY <1>1, <1>2, <1>3 DEF Next

LEMMA OneLoopSafe ==
  ASSUME OneLoop
  PROVE  Spec => [](TypeInv /\ Safe)
  <1>1. Init => TypeInv /\ Safe
    BY TypeInvInit, SafeInit
  <1>2. TypeInv /\ Safe /\ [Next]_vars => (TypeInv /\ Safe)'
    BY TypeInvNext, SafeNext
  <1> QED BY <1>1, <1>2, PTL DEF Spec

(* With one loop there is never more than one open session, although        *)
(* nothing reads max_open_sessions, whatever crashes and however often the  *)
(* loop is started again.                                                   *)
THEOREM OneSessionAtATime ==
  ASSUME OneLoop
  PROVE  Spec => []AtMostOneOpenSession
  <1>1. Safe => AtMostOneOpenSession
    BY DEF Safe, Recorded
  <1> QED BY <1>1, OneLoopSafe, PTL

(* With one loop every revision of the profile is the patch of the one      *)
(* before it for one closed session of its own.                             *)
THEOREM ProfileMovesByPatches ==
  ASSUME OneLoop
  PROVE  Spec => []RevisionLineage
  <1>1. Safe => RevisionLineage
    BY DEF Safe, Recorded
  <1> QED BY <1>1, OneLoopSafe, PTL

(* With one loop a session has one closing decision at most, under the      *)
(* revision that governed its close.                                        *)
THEOREM DecisionsAreAttributed ==
  ASSUME OneLoop
  PROVE  Spec => []DecisionAttribution
  <1>1. Safe => DecisionAttribution
    BY DEF Safe, Recorded
  <1> QED BY <1>1, OneLoopSafe, PTL

(* With one loop no session is opened while the cooldown of the active      *)
(* profile runs: the check was made against that profile, and no session    *)
(* was closed since.                                                        *)
THEOREM CooldownHolds ==
  ASSUME OneLoop
  PROVE  Spec => CooldownRespected
  <1> DEFINE Opens == \A s \in DOMAIN sessions' \ DOMAIN sessions :
               sessions'[s].status = "open" =>
                 \A t \in DOMAIN sessions : sessions[t].status = "closed" =>
                   sessions[t].age >= revisions[Len(revisions)].profile.cooldown
  <1>1. ASSUME TypeInv, Safe, [Next]_vars PROVE [Opens]_vars
    <2> USE <1>1
    <2>1. CASE DOMAIN sessions' = DOMAIN sessions
      BY <2>1
    <2>2. ASSUME NEW p \in Loops, FillEntry(p) PROVE Opens
      <3>1. ~CooldownActive(IterationProfile(p)) /\ job[p].revision = Len(revisions)
        BY <2>2 DEF FillEntry, Safe, IterationHolds, Early
      <3>2. IterationProfile(p) = revisions[Len(revisions)].profile
        BY <3>1 DEF IterationProfile
      <3>3. IterationProfile(p).cooldown \in Nat
        <4>1. IterationProfile(p) \in Profile
          BY <2>2, IterationTyped DEF FillEntry, Reading
        <4> QED BY <4>1, PracticeAssumption DEF Profile
      <3>4. \A t \in DOMAIN sessions : sessions[t].age \in Nat
        <4>1. \A t \in DOMAIN sessions : sessions[t] \in Session
          BY DEF TypeInv, TypeOK
        <4> QED BY <4>1 DEF Session
      <3> QED BY <3>1, <3>2, <3>3, <3>4 DEF CooldownActive
    <2>3. ASSUME NEW p \in Loops, CloseSession(p) PROVE DOMAIN sessions' = DOMAIN sessions
      BY <2>3, CloseSessionTyped
    <2>4. CASE Tick
      BY <2>4, <2>1 DEF Tick
    <2>5. ASSUME NEW p \in Loops, StartLoop(p) \/ EndLoop(p) \/ Abort(p) \/ Iterate(p)
          PROVE  Opens \/ DOMAIN sessions' = DOMAIN sessions
      BY <2>5, <2>2, <2>3 DEF Iterate, StartLoop, EndLoop, Abort, LoadProfile, RunRegimeCycle,
         DecideEntry, EvaluateExit, ReviewClose, RecordOpened, RecordClosed, Records
    <2> QED BY <1>1, <2>1, <2>4, <2>5 DEF Next, vars
  <1>2. TypeInv /\ Safe /\ [Next]_vars => [Opens]_vars
    BY <1>1
  <1> HIDE DEF Opens
  <1>3. Spec => [][Opens]_vars
    BY <1>2, OneLoopSafe, PTL DEF Spec
  <1> QED BY <1>3 DEF Opens, CooldownRespected
=============================================================================
