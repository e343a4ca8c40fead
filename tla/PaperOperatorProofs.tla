------------------------ MODULE PaperOperatorProofs -------------------------
(***************************************************************************)
(* Theorems of PaperOperator for every set of processes, every universe of  *)
(* mints, every bound and any number of condition runs and quotes.          *)
(***************************************************************************)
EXTENDS PaperOperator, TLAPS

(* What a call holds at each of its stages: ids of rows that are committed. *)
HoldsRows(p) ==
  /\ pc[p] # "idle" => /\ call[p].quote \in DOMAIN quotes
                       /\ call[p].pin \in {0} \cup DOMAIN conds
                       /\ call[p].kind = "exit" => call[p].session \in DOMAIN sessions
  /\ pc[p] \in {"risk", "intent", "settle", "close", "closing"}
       => held[p].trace \in DOMAIN traces
  /\ pc[p] \in {"intent", "settle", "close", "closing"} => held[p].verdict \in DOMAIN verdicts
  /\ pc[p] = "settle" => held[p].intent \in DOMAIN intents
  /\ pc[p] \in {"intent", "settle"} => call[p].kind = "entry"
  /\ pc[p] \in {"close", "closing"} => call[p].kind = "exit"
  /\ pc[p] = "closing" => quotes[call[p].quote].out_amt # NoAmount

CallsHoldRows == \A p \in Ops : HoldsRows(p)

(* No position is bought for nothing: what a ready intent quotes is a Nat.  *)
ReadyIsPriced ==
  \A i \in DOMAIN intents :
    intents[i].state = "ready" => quotes[intents[i].quote].out_amt \notin {NoAmount, 0}

TypeInv == TypeOK /\ References /\ CallsHoldRows /\ ReadyIsPriced

-----------------------------------------------------------------------------
(* Appending to a table adds a row and changes none. *)
LEMMA AppendRow ==
  ASSUME NEW S, NEW rows \in Seq(S), NEW row \in S
  PROVE  /\ Append(rows, row) \in Seq(S)
         /\ Len(Append(rows, row)) = Len(rows) + 1
         /\ DOMAIN Append(rows, row) = DOMAIN rows \cup {Len(rows) + 1}
         /\ \A i \in DOMAIN rows : Append(rows, row)[i] = rows[i]
         /\ Append(rows, row)[Len(rows) + 1] = row
  OBVIOUS

(* The decision functions are total on well-typed rows. *)
LEMMA PolicyStateType ==
  ASSUME NEW c \in Condition
  PROVE  PolicyState(c) \in PolicyStates
  BY DEF PolicyState, PolicyStates, Condition, Regimes

LEMMA RiskVerdictType ==
  ASSUME NEW t \in Nat, NEW trace \in Trace, NEW lanes \in LaneReadings
  PROVE  RiskVerdict(t, trace, lanes) \in Verdict
  BY DEF RiskVerdict, RiskState, Verdict, Trace, LaneReadings, RiskStates

LEMMA NoCallType == NoCall \in Call /\ Holding(0, 0, 0) \in Held
  BY DEF NoCall, Call, Holding, Held

LEMMA TypeInvInit == Init => TypeInv
  <1> SUFFICES ASSUME Init PROVE TypeInv
    OBVIOUS
  <1>1. TypeOK
    BY NoCallType DEF Init, TypeOK, Stages
  <1>2. References /\ ReadyIsPriced
    BY DEF Init, References, ReadyIsPriced
  <1>3. CallsHoldRows
    BY DEF Init, CallsHoldRows, HoldsRows
  <1> QED BY <1>1, <1>2, <1>3 DEF TypeInv

-----------------------------------------------------------------------------
(* The tables only grow, and the columns that others read never change.     *)
Grown ==
  /\ DOMAIN conds \subseteq DOMAIN conds' /\ \A i \in DOMAIN conds : conds'[i] = conds[i]
  /\ DOMAIN quotes \subseteq DOMAIN quotes' /\ \A i \in DOMAIN quotes : quotes'[i] = quotes[i]
  /\ DOMAIN traces \subseteq DOMAIN traces' /\ \A i \in DOMAIN traces : traces'[i] = traces[i]
  /\ DOMAIN verdicts \subseteq DOMAIN verdicts'
  /\ \A i \in DOMAIN verdicts : verdicts'[i] = verdicts[i]
  /\ DOMAIN intents \subseteq DOMAIN intents' /\ \A i \in DOMAIN intents : intents'[i] = intents[i]
  /\ DOMAIN sessions \subseteq DOMAIN sessions'

OthersRest(p) ==
  \A r \in Ops \ {p} : pc'[r] = pc[r] /\ call'[r] = call[r] /\ held'[r] = held[r]

LEMMA HoldersKeepRows ==
  ASSUME CallsHoldRows, Grown, NEW p \in Ops, OthersRest(p), HoldsRows(p)'
  PROVE  CallsHoldRows'
  BY DEF CallsHoldRows, HoldsRows, Grown, OthersRest

(* How the three ways a call moves change its process. *)
LEMMA MoveTyped ==
  ASSUME TypeOK, NEW p \in Ops, NEW stage \in Stages, NEW ids \in Held, Moves(p, stage, ids)
  PROVE  /\ pc' \in [Ops -> Stages] /\ call' \in [Ops -> Call] /\ held' \in [Ops -> Held]
         /\ pc'[p] = stage /\ call'[p] = call[p] /\ held'[p] = ids
         /\ OthersRest(p)
  BY DEF TypeOK, Moves, OthersRest

LEMMA EndTyped ==
  ASSUME TypeOK, NEW p \in Ops, Ends(p)
  PROVE  /\ pc' \in [Ops -> Stages] /\ call' \in [Ops -> Call] /\ held' \in [Ops -> Held]
         /\ pc'[p] = "idle" /\ call'[p] = NoCall /\ held'[p] = Holding(0, 0, 0)
         /\ OthersRest(p)
  BY NoCallType DEF TypeOK, Ends, OthersRest, Stages

LEMMA BeginsTyped ==
  ASSUME TypeOK, NEW p \in Ops, NEW request \in Call, Begins(p, request)
  PROVE  /\ pc' \in [Ops -> Stages] /\ call' \in [Ops -> Call] /\ held' \in [Ops -> Held]
         /\ pc'[p] = "policy" /\ call'[p] = request
         /\ OthersRest(p)
         /\ UNCHANGED <<env, traces, verdicts, intents, sessions>>
  BY DEF TypeOK, Begins, OthersRest, Stages

(* A call that moves on has begun, and what it was asked for still exists. *)
LEMMA MovingHolds ==
  ASSUME TypeInv, NEW p \in Ops, NEW stage \in Stages, NEW ids \in Held,
         pc[p] # "idle", Moves(p, stage, ids), Grown
  PROVE  /\ call[p].quote \in DOMAIN quotes'
         /\ call[p].pin \in {0} \cup DOMAIN conds'
         /\ call[p].kind = "exit" => call[p].session \in DOMAIN sessions'
         /\ call'[p] = call[p] /\ pc'[p] = stage /\ held'[p] = ids
  BY MoveTyped DEF TypeInv, CallsHoldRows, HoldsRows, Grown

(* A step of one process that writes no row keeps TypeInv. *)
LEMMA RowlessTyped ==
  ASSUME TypeInv, NEW p \in Ops, OthersRest(p), HoldsRows(p)',
         pc' \in [Ops -> Stages], call' \in [Ops -> Call], held' \in [Ops -> Held],
         UNCHANGED <<env, traces, verdicts, intents, sessions>>
  PROVE  TypeInv'
  <1>1. TypeOK' /\ References' /\ ReadyIsPriced' /\ Grown
    BY DEF TypeInv, TypeOK, References, ReadyIsPriced, env, Grown
  <1>2. CallsHoldRows'
    BY <1>1, HoldersKeepRows DEF TypeInv
  <1> QED BY <1>1, <1>2 DEF TypeInv

-----------------------------------------------------------------------------
(* TypeInv is inductive: one lemma per action.                              *)

LEMMA EnvironmentTyped ==
  ASSUME TypeInv, Tick \/ ScoreCondition \/ CaptureQuote
  PROVE  TypeInv' /\ Grown
  <1> USE OperatorAssumption DEF TypeInv, TypeOK, Grown, op
  <1>1. CASE Tick
    BY <1>1 DEF Tick, References, CallsHoldRows, HoldsRows, ReadyIsPriced
  <1>2. CASE ScoreCondition
    <2> PICK c \in CondShapes : conds' = Append(conds, c)
      BY <1>2 DEF ScoreCondition
    <2>1. c \in Condition
      OBVIOUS
    <2>2. /\ conds' \in Seq(Condition) /\ DOMAIN conds \subseteq DOMAIN conds'
          /\ \A i \in DOMAIN conds : conds'[i] = conds[i]
      BY <2>1, AppendRow
    <2>3. UNCHANGED <<clock, quotes, traces, verdicts, intents, sessions, op>>
      BY <1>2 DEF ScoreCondition
    <2> QED BY <2>2, <2>3 DEF References, CallsHoldRows, HoldsRows, ReadyIsPriced
  <1>3. CASE CaptureQuote
    <2> PICK q \in QuoteShapes :
          quotes' = Append(quotes, [dir |-> q.dir, input |-> q.input, output |-> q.output,
                                    in_amt |-> q.in_amt, out_amt |-> q.out_amt, at |-> clock])
      BY <1>3 DEF CaptureQuote
    <2> DEFINE row == [dir |-> q.dir, input |-> q.input, output |-> q.output,
                       in_amt |-> q.in_amt, out_amt |-> q.out_amt, at |-> clock]
    <2>1. row \in Quote
      BY DEF Quote
    <2>2. /\ quotes' \in Seq(Quote) /\ DOMAIN quotes \subseteq DOMAIN quotes'
          /\ \A i \in DOMAIN quotes : quotes'[i] = quotes[i]
      BY <2>1, AppendRow
    <2>3. UNCHANGED <<clock, conds, traces, verdicts, intents, sessions, op>>
      BY <1>3 DEF CaptureQuote
    <2>4. TypeOK' /\ Grown
      BY <2>2, <2>3
    <2>5. References' /\ ReadyIsPriced'
      BY <2>2, <2>3 DEF References, ReadyIsPriced
    <2>6. CallsHoldRows'
      BY <2>2, <2>3 DEF CallsHoldRows, HoldsRows
    <2> QED BY <2>4, <2>5, <2>6
  <1> QED BY <1>1, <1>2, <1>3

LEMMA BeginTyped ==
  ASSUME TypeInv, NEW p \in Ops, Begin(p)
  PROVE  TypeInv'
  <1> PICK q \in DOMAIN quotes, pin \in Pins \cap (DOMAIN conds \cup {0}) :
        StartEntry(p, q, pin) \/ \E s \in DOMAIN sessions : StartExit(p, s, q, pin)
    BY DEF Begin
  <1>0. q \in Nat /\ pin \in Nat /\ clock \in Nat
    BY OperatorAssumption DEF TypeInv, TypeOK
  <1>1. CASE StartEntry(p, q, pin)
    <2> DEFINE c == [kind |-> "entry", quote |-> q, session |-> 0, pin |-> pin, started |-> clock]
    <2>1. c \in Call
      BY <1>0 DEF Call
    <2>2. Begins(p, c)
      BY <1>1 DEF StartEntry
    <2>3. /\ pc' \in [Ops -> Stages] /\ call' \in [Ops -> Call] /\ held' \in [Ops -> Held]
          /\ pc'[p] = "policy" /\ call'[p] = c /\ OthersRest(p)
          /\ UNCHANGED <<env, traces, verdicts, intents, sessions>>
      <3> HIDE DEF c
      <3> QED BY <2>1, <2>2, BeginsTyped DEF TypeInv
    <2>4. HoldsRows(p)'
      BY <2>3 DEF HoldsRows, env
    <2> QED BY <2>3, <2>4, RowlessTyped
  <1>2. ASSUME NEW s \in DOMAIN sessions, StartExit(p, s, q, pin)
        PROVE  TypeInv'
    <2> DEFINE c == [kind |-> "exit", quote |-> q, session |-> s, pin |-> pin, started |-> clock]
    <2>1. c \in Call
      BY <1>0 DEF Call, TypeInv, TypeOK
    <2>2. Begins(p, c)
      BY <1>2 DEF StartExit
    <2>3. /\ pc' \in [Ops -> Stages] /\ call' \in [Ops -> Call] /\ held' \in [Ops -> Held]
          /\ pc'[p] = "policy" /\ call'[p] = c /\ OthersRest(p)
          /\ UNCHANGED <<env, traces, verdicts, intents, sessions>>
      <3> HIDE DEF c
      <3> QED BY <2>1, <2>2, BeginsTyped DEF TypeInv
    <2>4. HoldsRows(p)'
      BY <2>3 DEF HoldsRows, env
    <2> QED BY <2>3, <2>4, RowlessTyped
  <1> QED BY <1>1, <1>2

LEMMA EndingTyped ==
  ASSUME TypeInv, NEW p \in Ops, Ends(p),
         UNCHANGED <<env, traces, verdicts, intents, sessions>>
  PROVE  TypeInv'
  <1>1. HoldsRows(p)'
    BY EndTyped DEF HoldsRows, TypeInv
  <1> QED BY <1>1, EndTyped, RowlessTyped DEF TypeInv

LEMMA EvaluatePolicyTyped ==
  ASSUME TypeInv, NEW p \in Ops, EvaluatePolicy(p)
  PROVE  TypeInv' /\ Grown
  <1> DEFINE c == SelectedCondition(p)
             row == [cond |-> c, policy |-> PolicyState(conds[c]), blocked |-> conds[c].blocked]
             ids == Holding(Len(traces) + 1, 0, 0)
  <1>0. TypeOK /\ HoldsRows(p) /\ pc[p] = "policy"
    BY DEF TypeInv, CallsHoldRows, EvaluatePolicy
  <1>1. CASE ~Evaluable(c)
    <2>1. Ends(p) /\ UNCHANGED <<env, traces, verdicts, intents, sessions>>
      BY <1>1 DEF EvaluatePolicy
    <2> QED BY <2>1, EndingTyped DEF Grown, env
  <1>2. CASE Evaluable(c)
    <2>1. /\ traces' = Append(traces, row) /\ Moves(p, "risk", ids)
          /\ UNCHANGED <<env, verdicts, intents, sessions>>
      BY <1>2 DEF EvaluatePolicy
    <2>2. c \in DOMAIN conds /\ c \in Nat
      BY <1>0, <1>2 DEF SelectedCondition, Evaluable, HoldsRows, TypeOK
    <2>3. row \in Trace
      <3>1. conds[c] \in Condition
        BY <1>0, <2>2 DEF TypeOK
      <3> QED BY <2>2, <3>1, PolicyStateType DEF Trace, Condition
    <2>4. /\ traces' \in Seq(Trace) /\ DOMAIN traces' = DOMAIN traces \cup {Len(traces) + 1}
          /\ \A i \in DOMAIN traces : traces'[i] = traces[i]
          /\ traces'[Len(traces) + 1] = row
      <3> HIDE DEF row
      <3> QED BY <1>0, <2>1, <2>3, AppendRow DEF TypeOK
    <2>5. ids \in Held /\ "risk" \in Stages /\ ids.trace = Len(traces) + 1
      BY <1>0 DEF Holding, Held, Stages, TypeOK
    <2>6. Grown
      BY <2>1, <2>4 DEF Grown, env
    <2> HIDE DEF ids
    <2>7. /\ pc' \in [Ops -> Stages] /\ call' \in [Ops -> Call] /\ held' \in [Ops -> Held]
          /\ OthersRest(p)
      BY <1>0, <2>1, <2>5, MoveTyped
    <2>8. HoldsRows(p)'
      BY <1>0, <2>1, <2>4, <2>5, <2>6, MovingHolds DEF HoldsRows
    <2>9. References' /\ ReadyIsPriced'
      BY <2>1, <2>2, <2>4 DEF TypeInv, References, ReadyIsPriced, env
    <2>10. TypeOK'
      BY <1>0, <2>1, <2>4, <2>7 DEF TypeOK, env
    <2> QED BY <2>6, <2>7, <2>8, <2>9, <2>10, HoldersKeepRows DEF TypeInv
  <1> QED BY <1>1, <1>2

LEMMA EvaluateRiskTyped ==
  ASSUME TypeInv, NEW p \in Ops, EvaluateRisk(p)
  PROVE  TypeInv' /\ Grown
  <1> DEFINE t == held[p].trace
             row == RiskVerdict(t, traces[t], conds[traces[t].cond].lanes)
             stage == IF call[p].kind = "entry" THEN "intent" ELSE "close"
             ids == Holding(t, Len(verdicts) + 1, 0)
  <1>0. TypeOK /\ HoldsRows(p) /\ pc[p] = "risk" /\ References
    BY DEF TypeInv, CallsHoldRows, EvaluateRisk
  <1>1. t \in DOMAIN traces /\ t \in Nat /\ call[p].kind \in {"entry", "exit"}
    BY <1>0 DEF HoldsRows, TypeOK, Call
  <1>2. /\ verdicts' = Append(verdicts, row) /\ Moves(p, stage, ids)
        /\ UNCHANGED <<env, traces, intents, sessions>>
    BY DEF EvaluateRisk, SelectedTrace
  <1>3. row \in Verdict
    <2>1. traces[t] \in Trace /\ conds[traces[t].cond] \in Condition
      BY <1>0, <1>1 DEF References, TypeOK
    <2>2. conds[traces[t].cond].lanes \in LaneReadings
      BY <2>1 DEF Condition
    <2> QED BY <1>1, <2>1, <2>2, RiskVerdictType
  <1>4. row.trace = t
    BY DEF RiskVerdict
  <1>5. /\ verdicts' \in Seq(Verdict) /\ DOMAIN verdicts' = DOMAIN verdicts \cup {Len(verdicts) + 1}
        /\ \A i \in DOMAIN verdicts : verdicts'[i] = verdicts[i]
        /\ verdicts'[Len(verdicts) + 1] = row
    <2> HIDE DEF row
    <2> QED BY <1>0, <1>2, <1>3, AppendRow DEF TypeOK
  <1>6. ids \in Held /\ ids.trace = t /\ ids.verdict = Len(verdicts) + 1
    BY <1>0, <1>1 DEF Holding, Held, TypeOK
  <1>7. /\ stage \in Stages /\ stage \in {"intent", "close"}
        /\ stage = "intent" => call[p].kind = "entry"
        /\ stage = "close" => call[p].kind = "exit"
    BY <1>1 DEF Stages
  <1>8. Grown
    BY <1>2, <1>5 DEF Grown, env
  <1> HIDE DEF ids, row, stage
  <1>9. /\ pc' \in [Ops -> Stages] /\ call' \in [Ops -> Call] /\ held' \in [Ops -> Held]
        /\ OthersRest(p)
    BY <1>0, <1>2, <1>6, <1>7, MoveTyped
  <1>10. HoldsRows(p)'
    BY <1>0, <1>1, <1>2, <1>5, <1>6, <1>7, <1>8, MovingHolds DEF HoldsRows
  <1>11. References' /\ ReadyIsPriced'
    BY <1>1, <1>2, <1>4, <1>5 DEF TypeInv, References, ReadyIsPriced, env
  <1>12. TypeOK'
    BY <1>0, <1>2, <1>5, <1>9 DEF TypeOK, env
  <1> QED BY <1>8, <1>9, <1>10, <1>11, <1>12, HoldersKeepRows DEF TypeInv

LEMMA CreateIntentTyped ==
  ASSUME TypeInv, NEW p \in Ops, CreateIntent(p)
  PROVE  TypeInv' /\ Grown
  <1> DEFINE ready == IntentReady(verdicts[held[p].verdict], quotes[call[p].quote],
                                  call[p].started)
             row == [verdict |-> held[p].verdict, quote |-> call[p].quote,
                     state |-> IF ready THEN "ready" ELSE "rejected", at |-> call[p].started]
             ids == Holding(held[p].trace, held[p].verdict, Len(intents) + 1)
  <1>0. TypeOK /\ HoldsRows(p) /\ pc[p] = "intent" /\ References
    BY DEF TypeInv, CallsHoldRows, CreateIntent
  <1>1. /\ held[p].verdict \in DOMAIN verdicts /\ call[p].quote \in DOMAIN quotes
        /\ held[p].trace \in DOMAIN traces /\ call[p].kind = "entry"
    BY <1>0 DEF HoldsRows
  <1>2. /\ intents' = Append(intents, row) /\ Moves(p, "settle", ids)
        /\ UNCHANGED <<env, traces, verdicts, sessions>>
    BY DEF CreateIntent
  <1>3. row \in Intent /\ row.verdict \in DOMAIN verdicts /\ row.quote \in DOMAIN quotes
    BY <1>0, <1>1 DEF Intent, TypeOK, Call, Held
  <1>4. row.state = "ready" => quotes[row.quote].out_amt \notin {NoAmount, 0}
    BY DEF IntentReady, SpotBuyQuote
  <1>5. /\ intents' \in Seq(Intent) /\ DOMAIN intents' = DOMAIN intents \cup {Len(intents) + 1}
        /\ \A i \in DOMAIN intents : intents'[i] = intents[i]
        /\ intents'[Len(intents) + 1] = row
    <2> HIDE DEF row
    <2> QED BY <1>0, <1>2, <1>3, AppendRow DEF TypeOK
  <1>6. /\ ids \in Held /\ ids.trace = held[p].trace /\ ids.verdict = held[p].verdict
        /\ ids.intent = Len(intents) + 1
    BY <1>0 DEF Holding, Held, TypeOK
  <1>7. Grown
    BY <1>2, <1>5 DEF Grown, env
  <1> HIDE DEF ids, row
  <1>8. /\ pc' \in [Ops -> Stages] /\ call' \in [Ops -> Call] /\ held' \in [Ops -> Held]
        /\ OthersRest(p)
    BY <1>0, <1>2, <1>6, MoveTyped DEF Stages
  <1>9. HoldsRows(p)'
    BY <1>0, <1>1, <1>2, <1>5, <1>6, <1>7, MovingHolds DEF HoldsRows, Stages
  <1>10. References' /\ ReadyIsPriced'
    BY <1>2, <1>3, <1>4, <1>5 DEF TypeInv, References, ReadyIsPriced, env
  <1>11. TypeOK'
    BY <1>0, <1>2, <1>5, <1>8 DEF TypeOK, env
  <1> QED BY <1>7, <1>8, <1>9, <1>10, <1>11, HoldersKeepRows DEF TypeInv

LEMMA OpenedSessionType ==
  ASSUME TypeOK, References, NEW i \in DOMAIN intents, NEW at \in Nat,
         quotes[intents[i].quote].out_amt # NoAmount
  PROVE  OpenedSession(i, at) \in Session
  <1>1. intents[i] \in Intent /\ quotes[intents[i].quote] \in Quote /\ i \in Nat
    BY DEF TypeOK, References
  <1> QED BY <1>1 DEF OpenedSession, Session, Quote

LEMMA SkippedSessionType ==
  ASSUME TypeOK, References, NEW i \in DOMAIN intents, NEW at \in Nat
  PROVE  SkippedSession(i, at) \in Session
  <1>1. intents[i] \in Intent /\ quotes[intents[i].quote] \in Quote /\ i \in Nat
    BY DEF TypeOK, References
  <1> QED BY <1>1 DEF SkippedSession, Session, Quote

(* A settlement adds a session of its intent, or nothing. *)
LEMMA SettleEntryTyped ==
  ASSUME TypeInv, NEW p \in Ops, SettleEntry(p)
  PROVE  TypeInv' /\ Grown
  <1> DEFINE i == held[p].intent
             at == call[p].started
  <1>0. TypeOK /\ HoldsRows(p) /\ pc[p] = "settle" /\ References
    BY DEF TypeInv, CallsHoldRows, SettleEntry
  <1>1. i \in DOMAIN intents /\ at \in Nat
    BY <1>0 DEF HoldsRows, TypeOK, Call
  <1>2. Ends(p) /\ UNCHANGED <<env, traces, verdicts, intents>>
    BY DEF SettleEntry
  <1>3. CASE UNCHANGED sessions
    BY <1>2, <1>3, EndingTyped DEF Grown, env
  <1>4. ASSUME NEW row \in Session, row.intent = i, sessions' = Append(sessions, row)
        PROVE  TypeInv' /\ Grown
    <2>1. /\ sessions' \in Seq(Session) /\ DOMAIN sessions' = DOMAIN sessions \cup {Len(sessions) + 1}
          /\ \A s \in DOMAIN sessions : sessions'[s] = sessions[s]
          /\ sessions'[Len(sessions) + 1] = row
      BY <1>0, <1>4, AppendRow DEF TypeOK
    <2>2. Grown
      BY <1>2, <2>1 DEF Grown, env
    <2>3. /\ pc' \in [Ops -> Stages] /\ call' \in [Ops -> Call] /\ held' \in [Ops -> Held]
          /\ OthersRest(p) /\ HoldsRows(p)'
      BY <1>0, <1>2, EndTyped DEF HoldsRows
    <2>4. References' /\ ReadyIsPriced' /\ TypeOK'
      BY <1>0, <1>1, <1>2, <1>4, <2>1, <2>3 DEF TypeInv, References, ReadyIsPriced, TypeOK, env
    <2> QED BY <2>2, <2>3, <2>4, HoldersKeepRows DEF TypeInv
  <1>5. CASE sessions' = Append(sessions, SkippedSession(i, at))
    <2>1. SkippedSession(i, at) \in Session /\ SkippedSession(i, at).intent = i
      BY <1>0, <1>1, SkippedSessionType DEF SkippedSession
    <2> QED BY <1>4, <1>5, <2>1
  <1>6. CASE /\ FillAccepted(intents[i], quotes[intents[i].quote], at)
             /\ sessions' = Append(sessions, OpenedSession(i, at))
    <2>1. quotes[intents[i].quote].out_amt # NoAmount
      BY <1>1, <1>6 DEF FillAccepted, TypeInv, ReadyIsPriced
    <2>2. OpenedSession(i, at) \in Session /\ OpenedSession(i, at).intent = i
      BY <1>0, <1>1, <2>1, OpenedSessionType DEF OpenedSession
    <2> QED BY <1>4, <1>6, <2>2
  <1> QED BY <1>3, <1>5, <1>6 DEF SettleEntry

LEMMA CheckCloseTyped ==
  ASSUME TypeInv, NEW p \in Ops, CheckClose(p)
  PROVE  TypeInv'
  <1>0. /\ TypeOK /\ HoldsRows(p) /\ pc[p] = "close"
        /\ UNCHANGED <<env, traces, verdicts, intents, sessions>>
    BY DEF TypeInv, CallsHoldRows, CheckClose
  <1>1. CASE ~MayClose(p)
    BY <1>0, <1>1, EndingTyped DEF CheckClose
  <1>2. CASE MayClose(p)
    <2>1. Moves(p, "closing", held[p]) /\ "closing" \in Stages /\ held[p] \in Held
      BY <1>0, <1>2 DEF CheckClose, TypeOK, Stages
    <2>2. /\ pc' \in [Ops -> Stages] /\ call' \in [Ops -> Call] /\ held' \in [Ops -> Held]
          /\ pc'[p] = "closing" /\ call'[p] = call[p] /\ held'[p] = held[p] /\ OthersRest(p)
      BY <1>0, <2>1, MoveTyped
    <2>3. quotes[call[p].quote].out_amt # NoAmount
      BY <1>2 DEF MayClose, CloseAccepted
    <2>4. HoldsRows(p)'
      BY <1>0, <2>2, <2>3 DEF HoldsRows, env
    <2> QED BY <1>0, <2>2, <2>4, RowlessTyped
  <1> QED BY <1>1, <1>2

LEMMA ClosedSessionType ==
  ASSUME TypeOK, NEW s \in Session, NEW p \in Ops, HoldsRows(p), pc[p] = "closing"
  PROVE  ClosedSession(s, p) \in Session
  <1>1. /\ quotes[call[p].quote] \in Quote /\ quotes[call[p].quote].out_amt # NoAmount
        /\ call[p].started \in Nat /\ call[p].quote \in Nat /\ held[p].verdict \in Nat
    BY SMTT(30) DEF TypeOK, HoldsRows, Call, Held
  <1> QED BY <1>1 DEF ClosedSession, Session, Quote

LEMMA CommitCloseTyped ==
  ASSUME TypeInv, NEW p \in Ops, CommitClose(p)
  PROVE  TypeInv' /\ Grown
  <1> DEFINE s == call[p].session
             row == ClosedSession(sessions[s], p)
  <1>0. /\ TypeOK /\ HoldsRows(p) /\ pc[p] = "closing" /\ References
        /\ UNCHANGED <<env, traces, verdicts, intents>> /\ Ends(p)
    BY DEF TypeInv, CallsHoldRows, CommitClose
  <1>1. s \in DOMAIN sessions
    BY <1>0 DEF HoldsRows
  <1>2. row \in Session /\ row.intent = sessions[s].intent
    <2>1. sessions[s] \in Session
      BY <1>0, <1>1 DEF TypeOK
    <2> QED BY <1>0, <2>1, ClosedSessionType DEF ClosedSession
  <1>3. sessions' = [sessions EXCEPT ![s] = row]
    BY DEF CommitClose
  <1> HIDE DEF row
  <1>4. /\ sessions' \in Seq(Session) /\ DOMAIN sessions' = DOMAIN sessions
        /\ \A r \in DOMAIN sessions : sessions'[r] = IF r = s THEN row ELSE sessions[r]
    BY <1>0, <1>1, <1>2, <1>3 DEF TypeOK
  <1>5. Grown
    BY <1>0, <1>4 DEF Grown, env
  <1>6. /\ pc' \in [Ops -> Stages] /\ call' \in [Ops -> Call] /\ held' \in [Ops -> Held]
        /\ OthersRest(p) /\ HoldsRows(p)'
    BY <1>0, EndTyped DEF HoldsRows
  <1>7. References' /\ ReadyIsPriced' /\ TypeOK'
    BY <1>0, <1>1, <1>2, <1>4, <1>6 DEF TypeInv, References, ReadyIsPriced, TypeOK, env
  <1> QED BY <1>5, <1>6, <1>7, HoldersKeepRows DEF TypeInv

LEMMA TypeInvNext == TypeInv /\ [Next]_vars => TypeInv'
  <1> SUFFICES ASSUME TypeInv, [Next]_vars PROVE TypeInv'
    OBVIOUS
  <1>1. CASE Tick \/ ScoreCondition \/ CaptureQuote
    BY <1>1, EnvironmentTyped
  <1>2. ASSUME NEW p \in Ops, Begin(p) PROVE TypeInv'
    BY <1>2, BeginTyped
  <1>3. ASSUME NEW p \in Ops, Step(p) PROVE TypeInv'
    <2>1. CASE EvaluatePolicy(p) BY <2>1, EvaluatePolicyTyped
    <2>2. CASE EvaluateRisk(p) BY <2>2, EvaluateRiskTyped
    <2>3. CASE CreateIntent(p) BY <2>3, CreateIntentTyped
    <2>4. CASE SettleEntry(p) BY <2>4, SettleEntryTyped
    <2>5. CASE CheckClose(p) BY <2>5, CheckCloseTyped
    <2>6. CASE CommitClose(p) BY <2>6, CommitCloseTyped
    <2>7. CASE Crash(p) BY <2>7, EndingTyped DEF Crash
    <2> QED BY <1>3, <2>1, <2>2, <2>3, <2>4, <2>5, <2>6, <2>7 DEF Step
  <1>4. CASE UNCHANGED vars
    BY <1>4 DEF vars, TypeInv, TypeOK, References, CallsHoldRows, HoldsRows, ReadyIsPriced
  <1> QED BY <1>1, <1>2, <1>3, <1>4 DEF Next

(* Every row and every running call of the operator has its type, and every *)
(* id it holds is the id of a committed row, whatever interleaves or dies.  *)
THEOREM TypeCorrect == Spec => [](TypeOK /\ References)
  <1>1. Spec => []TypeInv
    BY TypeInvInit, TypeInvNext, PTL DEF Spec
  <1>2. TypeInv => TypeOK /\ References
    BY DEF TypeInv
  <1> QED BY <1>1, <1>2, PTL

-----------------------------------------------------------------------------
(* Provenance.  Each owner's row agrees with the rows it was derived from:  *)
(* the strengthening that makes FillProvenance inductive.                   *)

TraceEvidence(t) ==
  /\ conds[traces[t].cond].status = "success"
  /\ traces[t].policy = PolicyState(conds[traces[t].cond])
  /\ traces[t].blocked = conds[traces[t].cond].blocked

VerdictEvidence(v) ==
  LET t == verdicts[v].trace IN
    verdicts[v] = RiskVerdict(t, traces[t], conds[traces[t].cond].lanes)

IntentEvidence(i) ==
  intents[i].state = "ready" =>
    IntentReady(verdicts[intents[i].verdict], quotes[intents[i].quote], intents[i].at)

SessionEvidence(s) ==
  LET i == intents[sessions[s].intent] IN
    sessions[s].status # "skipped" =>
      /\ i.state = "ready" /\ sessions[s].openedAt = i.at
      /\ sessions[s].mint = quotes[i.quote].output
      /\ sessions[s].spent = quotes[i.quote].in_amt
      /\ sessions[s].bought = quotes[i.quote].out_amt

CallEvidence(p) ==
  /\ pc[p] = "settle" => intents[held[p].intent].at = call[p].started
  /\ pc[p] = "closing" => sessions[call[p].session].status # "skipped"

Evidence ==
  /\ \A t \in DOMAIN traces : TraceEvidence(t)
  /\ \A v \in DOMAIN verdicts : VerdictEvidence(v)
  /\ \A i \in DOMAIN intents : IntentEvidence(i)
  /\ \A s \in DOMAIN sessions : SessionEvidence(s)
  /\ \A p \in Ops : CallEvidence(p)

(* A verdict that allows a long entry was given on an unblocked long trace  *)
(* with every required lane eligible.                                       *)
LEMMA AllowedVerdict ==
  ASSUME NEW t, NEW trace \in Trace, NEW lanes,
         RiskVerdict(t, trace, lanes).risk = "allowed",
         RiskVerdict(t, trace, lanes).policy = "eligible_long"
  PROVE  trace.policy = "eligible_long" /\ lanes = "eligible" /\ ~trace.blocked
  <1>1. RiskState(trace, lanes) = "allowed" /\ trace.policy = "eligible_long"
    BY DEF RiskVerdict
  <1> QED BY <1>1 DEF RiskState

(* A long policy state was given to an unblocked long-friendly condition.   *)
LEMMA LongPolicy ==
  ASSUME NEW c \in Condition, PolicyState(c) = "eligible_long"
  PROVE  c.regime = "long_friendly" /\ ~c.blocked
  BY DEF PolicyState

(* What a quote is that an intent is ready on. *)
LEMMA SpotBuy ==
  ASSUME NEW q \in Quote, SpotBuyQuote(q)
  PROVE  /\ q.dir = "usdc_to_token" /\ q.input = USDC /\ q.output \in Tracked \ {USDC}
         /\ q.in_amt \in ConfiguredSizes /\ q.out_amt > 0
  BY DEF SpotBuyQuote, Quote, NoAmount

LEMMA FreshQuote ==
  ASSUME NEW q \in Quote, NEW at \in Nat, FreshAt(q, at)
  PROVE  q.at <= at /\ at <= q.at + MaxQuoteAge
  BY RulesAssumption DEF FreshAt, Quote

(* The chain of evidence from a session back to its condition run. *)
LEMMA EvidenceGivesProvenance == TypeInv /\ Evidence => FillProvenance
  <1> SUFFICES ASSUME TypeInv, Evidence, NEW s \in DOMAIN sessions,
                      sessions[s].status # "skipped"
               PROVE  BoughtWithAuthority(sessions[s])
    BY DEF FillProvenance
  <1> DEFINE i == sessions[s].intent
             v == intents[i].verdict
             t == verdicts[v].trace
             c == traces[t].cond
             q == intents[i].quote
  <1>1. /\ i \in DOMAIN intents /\ v \in DOMAIN verdicts /\ t \in DOMAIN traces
        /\ c \in DOMAIN conds /\ q \in DOMAIN quotes
    BY DEF TypeInv, References
  <1>2. /\ intents[i] \in Intent /\ quotes[q] \in Quote /\ sessions[s] \in Session
        /\ conds[c] \in Condition /\ traces[t] \in Trace
    BY <1>1 DEF TypeInv, TypeOK
  <1>3. /\ SessionEvidence(s) /\ IntentEvidence(i) /\ VerdictEvidence(v) /\ TraceEvidence(t)
    BY <1>1 DEF Evidence
  <1>4. IntentReady(verdicts[v], quotes[q], intents[i].at) /\ intents[i].state = "ready"
    BY <1>3 DEF SessionEvidence, IntentEvidence
  <1>5. verdicts[v].risk = "allowed" /\ verdicts[v].policy = "eligible_long"
    BY <1>4 DEF IntentReady, VerdictAuthorizes
  <1>6. traces[t].policy = "eligible_long" /\ conds[c].lanes = "eligible" /\ ~traces[t].blocked
    <2>1. verdicts[v] = RiskVerdict(t, traces[t], conds[c].lanes)
      BY <1>3 DEF VerdictEvidence
    <2> HIDE DEF i, v, t, c
    <2>2. /\ RiskVerdict(t, traces[t], conds[c].lanes).risk = "allowed"
          /\ RiskVerdict(t, traces[t], conds[c].lanes).policy = "eligible_long"
      BY <1>5, <2>1
    <2> QED BY <1>2, <2>2, AllowedVerdict
  <1>7. conds[c].status = "success" /\ conds[c].regime = "long_friendly" /\ ~conds[c].blocked
    BY <1>2, <1>3, <1>6, LongPolicy DEF TraceEvidence
  <1>8. SpotBuyQuote(quotes[q]) /\ FreshAt(quotes[q], intents[i].at)
    BY <1>4 DEF IntentReady
  <1>9. /\ sessions[s].openedAt = intents[i].at /\ sessions[s].mint = quotes[q].output
        /\ sessions[s].spent = quotes[q].in_amt /\ sessions[s].bought = quotes[q].out_amt
    BY <1>3 DEF SessionEvidence
  <1>10. /\ quotes[q].at <= sessions[s].openedAt
         /\ sessions[s].openedAt <= quotes[q].at + MaxQuoteAge
    <2>1. intents[i].at \in Nat
      BY <1>2 DEF Intent
    <2> HIDE DEF i, v, t, c, q
    <2> QED BY <1>2, <1>8, <1>9, <2>1, FreshQuote
  <1>11. /\ quotes[q].dir = "usdc_to_token" /\ quotes[q].input = USDC
         /\ sessions[s].mint \in Tracked \ {USDC} /\ sessions[s].spent \in ConfiguredSizes
         /\ sessions[s].bought > 0
    <2> HIDE DEF i, v, t, c, q
    <2> QED BY <1>2, <1>8, <1>9, SpotBuy
  <1> HIDE DEF i, v, t, c, q
  <1>12. /\ intents[i].state = "ready" /\ quotes[q].output = sessions[s].mint
    BY <1>4, <1>9
  <1> QED BY <1>5, <1>6, <1>7, <1>9, <1>10, <1>11, <1>12 DEF BoughtWithAuthority, i, v, t, c, q

LEMMA EvidenceInit == Init => Evidence
  BY DEF Init, Evidence, CallEvidence

(* Evidence on rows that are already there survives growth. *)
LEMMA EvidenceKept ==
  ASSUME TypeInv, Evidence, Grown
  PROVE  /\ \A t \in DOMAIN traces : TraceEvidence(t)'
         /\ \A v \in DOMAIN verdicts : VerdictEvidence(v)'
         /\ \A i \in DOMAIN intents : IntentEvidence(i)'
         /\ \A s \in DOMAIN sessions : sessions'[s] = sessions[s] => SessionEvidence(s)'
  <1>1. ASSUME NEW t \in DOMAIN traces PROVE TraceEvidence(t)'
    BY <1>1 DEF TypeInv, References, Evidence, Grown, TraceEvidence
  <1>2. ASSUME NEW v \in DOMAIN verdicts PROVE VerdictEvidence(v)'
    BY <1>2 DEF TypeInv, References, Evidence, Grown, VerdictEvidence
  <1>3. ASSUME NEW i \in DOMAIN intents PROVE IntentEvidence(i)'
    BY <1>3 DEF TypeInv, References, Evidence, Grown, IntentEvidence
  <1>4. ASSUME NEW s \in DOMAIN sessions, sessions'[s] = sessions[s] PROVE SessionEvidence(s)'
    <2>1. sessions[s].intent \in DOMAIN intents /\ intents[sessions[s].intent].quote \in DOMAIN quotes
      BY DEF TypeInv, References
    <2> QED BY <1>4, <2>1 DEF Evidence, Grown, SessionEvidence
  <1> QED BY <1>1, <1>2, <1>3, <1>4

(* What a process holds keeps its evidence while others step. *)
LEMMA CallEvidenceKept ==
  ASSUME TypeInv, Evidence, Grown, NEW p \in Ops, OthersRest(p), CallEvidence(p)',
         \A s \in DOMAIN sessions :
           sessions[s].status # "skipped" => sessions'[s].status # "skipped"
  PROVE  \A r \in Ops : CallEvidence(r)'
  <1> SUFFICES ASSUME NEW r \in Ops, r # p PROVE CallEvidence(r)'
    OBVIOUS
  <1>1. HoldsRows(r) /\ CallEvidence(r)
    BY DEF TypeInv, CallsHoldRows, Evidence
  <1>2. pc'[r] = pc[r] /\ call'[r] = call[r] /\ held'[r] = held[r]
    BY DEF OthersRest
  <1> QED BY <1>1, <1>2 DEF CallEvidence, HoldsRows, Grown

(* A step of one process that leaves the tables alone keeps all evidence.   *)
LEMMA RowlessEvidence ==
  ASSUME TypeInv, Evidence, NEW p \in Ops, OthersRest(p), CallEvidence(p)',
         UNCHANGED <<env, traces, verdicts, intents, sessions>>
  PROVE  Evidence'
  <1>1. Grown
    BY DEF Grown, env
  <1>2. \A r \in Ops : CallEvidence(r)'
    BY <1>1, CallEvidenceKept
  <1> QED BY <1>1, <1>2, EvidenceKept DEF Evidence

LEMMA EndingEvidence ==
  ASSUME TypeInv, Evidence, NEW p \in Ops, Ends(p),
         UNCHANGED <<env, traces, verdicts, intents, sessions>>
  PROVE  Evidence'
  BY EndTyped, RowlessEvidence DEF TypeInv, CallEvidence

LEMMA EnvironmentEvidence ==
  ASSUME TypeInv, Evidence, Tick \/ ScoreCondition \/ CaptureQuote
  PROVE  Evidence'
  <1>1. Grown
    BY EnvironmentTyped
  <1>2. UNCHANGED <<traces, verdicts, intents, sessions, op>>
    BY DEF Tick, ScoreCondition, CaptureQuote, op
  <1>3. \A r \in Ops : CallEvidence(r)'
    BY <1>2 DEF Evidence, CallEvidence, op
  <1> QED BY <1>1, <1>2, <1>3, EvidenceKept DEF Evidence

LEMMA BeginEvidence ==
  ASSUME TypeInv, Evidence, NEW p \in Ops, Begin(p)
  PROVE  Evidence'
  <1> PICK c : Begins(p, c)
    BY DEF Begin, StartEntry, StartExit
  <1>1. UNCHANGED <<env, traces, verdicts, intents, sessions>> /\ OthersRest(p) /\ pc'[p] = "policy"
    BY DEF Begins, OthersRest, TypeInv, TypeOK
  <1> QED BY <1>1, RowlessEvidence DEF CallEvidence

LEMMA EvaluatePolicyEvidence ==
  ASSUME TypeInv, Evidence, NEW p \in Ops, EvaluatePolicy(p)
  PROVE  Evidence'
  <1> DEFINE c == SelectedCondition(p)
             row == [cond |-> c, policy |-> PolicyState(conds[c]), blocked |-> conds[c].blocked]
  <1>0. TypeOK /\ UNCHANGED <<env, verdicts, intents, sessions>>
    BY DEF TypeInv, EvaluatePolicy
  <1>1. CASE ~Evaluable(c)
    BY <1>0, <1>1, EndingEvidence DEF EvaluatePolicy
  <1>2. CASE Evaluable(c)
    <2> PICK n : n = Len(traces) + 1
      OBVIOUS
    <2>1. traces' = Append(traces, row) /\ Moves(p, "risk", Holding(Len(traces) + 1, 0, 0))
      BY <1>2 DEF EvaluatePolicy
    <2>2. TypeInv' /\ Grown
      BY EvaluatePolicyTyped
    <2>3. DOMAIN traces' = DOMAIN traces \cup {n} /\ traces'[n] = row
      BY <1>0, <2>1 DEF TypeOK
    <2>4. TraceEvidence(n)'
      BY <1>0, <1>2, <2>3 DEF TraceEvidence, Evaluable, env
    <2>5. OthersRest(p) /\ pc'[p] = "risk"
      BY <1>0, <2>1 DEF Moves, OthersRest, TypeOK
    <2>6. \A r \in Ops : CallEvidence(r)'
      <3>1. CallEvidence(p)'
        BY <2>5 DEF CallEvidence
      <3> QED BY <1>0, <2>2, <2>5, <3>1, CallEvidenceKept
    <2> HIDE DEF row
    <2> QED BY <1>0, <2>2, <2>3, <2>4, <2>6, EvidenceKept DEF Evidence
  <1> QED BY <1>1, <1>2

LEMMA EvaluateRiskEvidence ==
  ASSUME TypeInv, Evidence, NEW p \in Ops, EvaluateRisk(p)
  PROVE  Evidence'
  <1> DEFINE t == held[p].trace
             row == RiskVerdict(t, traces[t], conds[traces[t].cond].lanes)
             stage == IF call[p].kind = "entry" THEN "intent" ELSE "close"
  <1>0. TypeOK /\ UNCHANGED <<env, traces, intents, sessions>>
    BY DEF TypeInv, EvaluateRisk
  <1>1. verdicts' = Append(verdicts, row) /\ Moves(p, stage, Holding(t, Len(verdicts) + 1, 0))
    BY DEF EvaluateRisk, SelectedTrace
  <1>2. Grown
    BY EvaluateRiskTyped
  <1> PICK n : n = Len(verdicts) + 1
    OBVIOUS
  <1>3. row.trace = t
    BY DEF RiskVerdict
  <1>4. DOMAIN verdicts' = DOMAIN verdicts \cup {n} /\ verdicts'[n] = row
    <2> HIDE DEF row
    <2> QED BY <1>0, <1>1 DEF TypeOK
  <1>5. VerdictEvidence(n)'
    BY <1>0, <1>3, <1>4 DEF VerdictEvidence, env
  <1>6. OthersRest(p) /\ pc'[p] \in {"intent", "close"}
    BY <1>0, <1>1 DEF Moves, OthersRest, TypeOK
  <1>7. \A r \in Ops : CallEvidence(r)'
    <2>1. CallEvidence(p)'
      BY <1>6 DEF CallEvidence
    <2> QED BY <1>0, <1>2, <1>6, <2>1, CallEvidenceKept
  <1> HIDE DEF row
  <1> QED BY <1>0, <1>2, <1>4, <1>5, <1>7, EvidenceKept DEF Evidence

LEMMA CreateIntentEvidence ==
  ASSUME TypeInv, Evidence, NEW p \in Ops, CreateIntent(p)
  PROVE  Evidence'
  <1> DEFINE ready == IntentReady(verdicts[held[p].verdict], quotes[call[p].quote],
                                  call[p].started)
             row == [verdict |-> held[p].verdict, quote |-> call[p].quote,
                     state |-> IF ready THEN "ready" ELSE "rejected", at |-> call[p].started]
  <1> PICK n : n = Len(intents) + 1
    OBVIOUS
  <1>0. TypeOK /\ UNCHANGED <<env, traces, verdicts, sessions>>
    BY DEF TypeInv, CreateIntent
  <1>1. intents' = Append(intents, row) /\ Moves(p, "settle", Holding(held[p].trace, held[p].verdict, n))
    BY DEF CreateIntent
  <1>2. Grown
    BY CreateIntentTyped
  <1>3. DOMAIN intents' = DOMAIN intents \cup {n} /\ intents'[n] = row
    <2> HIDE DEF row
    <2> QED BY <1>0, <1>1 DEF TypeOK
  <1>4. IntentEvidence(n)'
    BY <1>0, <1>3 DEF IntentEvidence, env
  <1>5. OthersRest(p) /\ pc'[p] = "settle" /\ call'[p] = call[p] /\ held'[p].intent = n
    BY <1>0, <1>1 DEF Moves, OthersRest, TypeOK, Holding
  <1>6. \A r \in Ops : CallEvidence(r)'
    <2>1. CallEvidence(p)'
      BY <1>3, <1>5 DEF CallEvidence
    <2> QED BY <1>0, <1>2, <1>5, <2>1, CallEvidenceKept
  <1> HIDE DEF row
  <1> QED BY <1>0, <1>2, <1>3, <1>4, <1>6, EvidenceKept DEF Evidence

LEMMA SettleEntryEvidence ==
  ASSUME TypeInv, Evidence, NEW p \in Ops, SettleEntry(p)
  PROVE  Evidence'
  <1> DEFINE i == held[p].intent
             at == call[p].started
  <1> PICK n : n = Len(sessions) + 1
    OBVIOUS
  <1>0. /\ TypeOK /\ HoldsRows(p) /\ pc[p] = "settle" /\ CallEvidence(p)
        /\ UNCHANGED <<env, traces, verdicts, intents>> /\ Ends(p)
    BY DEF TypeInv, CallsHoldRows, Evidence, SettleEntry
  <1>1. i \in DOMAIN intents /\ intents[i].at = at
    BY <1>0 DEF HoldsRows, CallEvidence
  <1>2. Grown
    BY SettleEntryTyped
  <1>3. CASE UNCHANGED sessions
    BY <1>0, <1>3, EndingEvidence
  <1>4. ASSUME NEW row, sessions' = Append(sessions, row), SessionEvidence(n)'
        PROVE  Evidence'
    <2>1. /\ DOMAIN sessions' = DOMAIN sessions \cup {n}
          /\ \A s \in DOMAIN sessions : sessions'[s] = sessions[s]
      BY <1>0, <1>4 DEF TypeOK
    <2>2. OthersRest(p) /\ CallEvidence(p)'
      BY <1>0, EndTyped DEF CallEvidence
    <2>3. \A r \in Ops : CallEvidence(r)'
      BY <1>2, <2>1, <2>2, CallEvidenceKept
    <2> QED BY <1>0, <1>2, <1>4, <2>1, <2>3, EvidenceKept DEF Evidence
  <1>5. CASE sessions' = Append(sessions, SkippedSession(i, at))
    <2>1. sessions'[n].status = "skipped"
      BY <1>0, <1>5 DEF TypeOK, SkippedSession
    <2> QED BY <1>4, <1>5, <2>1 DEF SessionEvidence
  <1>6. CASE /\ FillAccepted(intents[i], quotes[intents[i].quote], at)
             /\ sessions' = Append(sessions, OpenedSession(i, at))
    <2>1. sessions'[n] = OpenedSession(i, at)
      <3> DEFINE row == OpenedSession(i, at)
      <3> HIDE DEF row
      <3>1. sessions' = Append(sessions, row)
        BY <1>6 DEF row
      <3>2. sessions'[n] = row
        BY <1>0, <3>1 DEF TypeOK
      <3> QED BY <3>2 DEF row
    <2>2. SessionEvidence(n)'
      <3> PICK row : row = sessions'[n]
        OBVIOUS
      <3>1. /\ row.intent = i /\ row.openedAt = at /\ row.mint = quotes[intents[i].quote].output
            /\ row.spent = quotes[intents[i].quote].in_amt
            /\ row.bought = quotes[intents[i].quote].out_amt
        BY <2>1 DEF OpenedSession
      <3>2. intents[i].state = "ready" /\ intents' = intents /\ quotes' = quotes
        BY <1>0, <1>6 DEF FillAccepted, env
      <3> HIDE DEF i, at
      <3> QED BY <1>1, <3>1, <3>2 DEF SessionEvidence
    <2> QED BY <1>4, <1>6, <2>2
  <1> QED BY <1>3, <1>5, <1>6 DEF SettleEntry

LEMMA CheckCloseEvidence ==
  ASSUME TypeInv, Evidence, NEW p \in Ops, CheckClose(p)
  PROVE  Evidence'
  <1>0. TypeOK /\ UNCHANGED <<env, traces, verdicts, intents, sessions>>
    BY DEF TypeInv, CheckClose
  <1>1. CASE ~MayClose(p)
    BY <1>0, <1>1, EndingEvidence DEF CheckClose
  <1>2. CASE MayClose(p)
    <2>1. Moves(p, "closing", held[p]) /\ sessions[call[p].session].status = "open"
      BY <1>2 DEF CheckClose, MayClose
    <2>2. OthersRest(p) /\ CallEvidence(p)'
      BY <1>0, <2>1 DEF Moves, OthersRest, TypeOK, CallEvidence
    <2> QED BY <1>0, <2>2, RowlessEvidence
  <1> QED BY <1>1, <1>2

(* A close overwrites none of the columns that a session was opened with. *)
LEMMA CommitCloseEvidence ==
  ASSUME TypeInv, Evidence, NEW p \in Ops, CommitClose(p)
  PROVE  Evidence'
  <1> PICK s : s = call[p].session
    OBVIOUS
  <1> DEFINE row == ClosedSession(sessions[s], p)
  <1>0. /\ TypeOK /\ HoldsRows(p) /\ pc[p] = "closing" /\ CallEvidence(p)
        /\ UNCHANGED <<env, traces, verdicts, intents>> /\ Ends(p) /\ s \in DOMAIN sessions
    BY DEF TypeInv, CallsHoldRows, HoldsRows, Evidence, CommitClose
  <1>1. Grown
    BY CommitCloseTyped
  <1>2. /\ row.status = "closed" /\ row.intent = sessions[s].intent /\ row.mint = sessions[s].mint
        /\ row.openedAt = sessions[s].openedAt /\ row.spent = sessions[s].spent
        /\ row.bought = sessions[s].bought
    BY DEF ClosedSession
  <1>3. sessions' = [sessions EXCEPT ![s] = row]
    BY DEF CommitClose
  <1>4. SessionEvidence(s) /\ sessions[s].status # "skipped"
    BY <1>0 DEF Evidence, CallEvidence
  <1> HIDE DEF row
  <1>5. /\ DOMAIN sessions' = DOMAIN sessions /\ sessions'[s] = row
        /\ \A r \in DOMAIN sessions : r # s => sessions'[r] = sessions[r]
    BY <1>0, <1>3 DEF TypeOK
  <1>6. SessionEvidence(s)'
    BY <1>0, <1>2, <1>4, <1>5 DEF SessionEvidence, env
  <1>7. OthersRest(p) /\ CallEvidence(p)'
    BY <1>0, EndTyped DEF CallEvidence
  <1>8. \A r \in Ops : CallEvidence(r)'
    BY <1>1, <1>2, <1>4, <1>5, <1>7, CallEvidenceKept
  <1> QED BY <1>0, <1>1, <1>5, <1>6, <1>8, EvidenceKept DEF Evidence

LEMMA EvidenceNext == TypeInv /\ Evidence /\ [Next]_vars => Evidence'
  <1> SUFFICES ASSUME TypeInv, Evidence, [Next]_vars PROVE Evidence'
    OBVIOUS
  <1>1. CASE Tick \/ ScoreCondition \/ CaptureQuote
    BY <1>1, EnvironmentEvidence
  <1>2. ASSUME NEW p \in Ops, Begin(p) PROVE Evidence'
    BY <1>2, BeginEvidence
  <1>3. ASSUME NEW p \in Ops, Step(p) PROVE Evidence'
    <2>1. CASE EvaluatePolicy(p) BY <2>1, EvaluatePolicyEvidence
    <2>2. CASE EvaluateRisk(p) BY <2>2, EvaluateRiskEvidence
    <2>3. CASE CreateIntent(p) BY <2>3, CreateIntentEvidence
    <2>4. CASE SettleEntry(p) BY <2>4, SettleEntryEvidence
    <2>5. CASE CheckClose(p) BY <2>5, CheckCloseEvidence
    <2>6. CASE CommitClose(p) BY <2>6, CommitCloseEvidence
    <2>7. CASE Crash(p) BY <2>7, EndingEvidence DEF Crash
    <2> QED BY <1>3, <2>1, <2>2, <2>3, <2>4, <2>5, <2>6, <2>7 DEF Step
  <1>4. CASE UNCHANGED vars
    BY <1>4 DEF vars, Evidence, TraceEvidence, VerdictEvidence, IntentEvidence,
                SessionEvidence, CallEvidence
  <1> QED BY <1>1, <1>2, <1>3, <1>4 DEF Next

(* No position is ever bought without the whole chain of authority behind   *)
(* it, however many processes run cycles and wherever they crash.           *)
THEOREM FillsHaveProvenance == Spec => []FillProvenance
  <1>1. Init => TypeInv /\ Evidence
    BY TypeInvInit, EvidenceInit
  <1>2. TypeInv /\ Evidence /\ [Next]_vars => (TypeInv /\ Evidence)'
    BY TypeInvNext, EvidenceNext
  <1> QED BY <1>1, <1>2, EvidenceGivesProvenance, PTL DEF Spec

-----------------------------------------------------------------------------
(* What a call holds are the rows it wrote itself, one from the other.      *)
OwnRows(p) ==
  /\ pc[p] \in {"idle", "policy"} => held[p] = Holding(0, 0, 0)
  /\ held[p].trace # 0 => /\ held[p].trace \in DOMAIN traces
                          /\ call[p].pin # 0 => traces[held[p].trace].cond = call[p].pin
  /\ held[p].verdict # 0 => /\ held[p].verdict \in DOMAIN verdicts
                            /\ verdicts[held[p].verdict].trace = held[p].trace
  /\ held[p].intent # 0 => /\ held[p].intent \in DOMAIN intents
                           /\ intents[held[p].intent].verdict = held[p].verdict
                           /\ intents[held[p].intent].quote = call[p].quote

AllOwnRows == \A p \in Ops : OwnRows(p)

LEMMA OwnRowsGive == AllOwnRows => CycleReadsItsOwnRows
  BY DEF AllOwnRows, OwnRows, CycleReadsItsOwnRows

LEMMA OthersOwnRows ==
  ASSUME AllOwnRows, Grown, NEW p \in Ops, OthersRest(p), OwnRows(p)'
  PROVE  AllOwnRows'
  BY DEF AllOwnRows, OwnRows, Grown, OthersRest

LEMMA NothingHeld ==
  ASSUME NEW p \in Ops, held'[p] = Holding(0, 0, 0)
  PROVE  OwnRows(p)'
  BY DEF OwnRows, Holding

LEMMA EndingOwnRows ==
  ASSUME TypeInv, AllOwnRows, Grown, NEW p \in Ops, Ends(p)
  PROVE  AllOwnRows'
  BY EndTyped, NothingHeld, OthersOwnRows DEF TypeInv

LEMMA BeginOwnRows ==
  ASSUME TypeInv, AllOwnRows, NEW p \in Ops, Begin(p)
  PROVE  AllOwnRows'
  <1> PICK c : Begins(p, c)
    BY DEF Begin, StartEntry, StartExit
  <1>1. /\ UNCHANGED <<env, traces, verdicts, intents, sessions, held>> /\ OthersRest(p)
        /\ pc[p] = "idle"
    BY DEF Begins, OthersRest, TypeInv, TypeOK
  <1>2. held'[p] = Holding(0, 0, 0)
    BY <1>1 DEF AllOwnRows, OwnRows
  <1>3. Grown
    BY <1>1 DEF Grown, env
  <1> QED BY <1>1, <1>2, <1>3, NothingHeld, OthersOwnRows

LEMMA EvaluatePolicyOwnRows ==
  ASSUME TypeInv, AllOwnRows, NEW p \in Ops, EvaluatePolicy(p)
  PROVE  AllOwnRows'
  <1> DEFINE c == SelectedCondition(p)
             row == [cond |-> c, policy |-> PolicyState(conds[c]), blocked |-> conds[c].blocked]
  <1>1. Grown /\ TypeOK
    BY EvaluatePolicyTyped DEF TypeInv
  <1>2. CASE ~Evaluable(c)
    BY <1>1, <1>2, EndingOwnRows DEF EvaluatePolicy
  <1>3. CASE Evaluable(c)
    <2> PICK n \in Nat : n = Len(traces) + 1
      BY <1>1 DEF TypeOK
    <2>1. traces' = Append(traces, row) /\ Moves(p, "risk", Holding(n, 0, 0))
      BY <1>3 DEF EvaluatePolicy
    <2>2. n \in DOMAIN traces' /\ traces'[n] = row
      <3> HIDE DEF row
      <3> QED BY <1>1, <2>1 DEF TypeOK
    <2>3. call[p].pin # 0 => traces'[n].cond = call[p].pin
      BY <2>2 DEF SelectedCondition
    <2>4. OthersRest(p) /\ pc'[p] = "risk" /\ call'[p] = call[p] /\ held'[p] = Holding(n, 0, 0)
      BY <1>1, <2>1 DEF Moves, OthersRest, TypeOK
    <2>5. OwnRows(p)'
      BY <2>2, <2>3, <2>4 DEF OwnRows, Holding
    <2> QED BY <1>1, <2>4, <2>5, OthersOwnRows
  <1> QED BY <1>2, <1>3

LEMMA EvaluateRiskOwnRows ==
  ASSUME TypeInv, AllOwnRows, NEW p \in Ops, EvaluateRisk(p)
  PROVE  AllOwnRows'
  <1> DEFINE t == held[p].trace
             row == RiskVerdict(t, traces[t], conds[traces[t].cond].lanes)
             stage == IF call[p].kind = "entry" THEN "intent" ELSE "close"
  <1>1. Grown /\ TypeOK /\ OwnRows(p) /\ traces' = traces
    BY EvaluateRiskTyped DEF TypeInv, AllOwnRows, EvaluateRisk
  <1> PICK n \in Nat : n = Len(verdicts) + 1
    BY <1>1 DEF TypeOK
  <1>2. verdicts' = Append(verdicts, row) /\ Moves(p, stage, Holding(t, n, 0))
    BY DEF EvaluateRisk, SelectedTrace
  <1>3. row.trace = t
    BY DEF RiskVerdict
  <1>4. n \in DOMAIN verdicts' /\ verdicts'[n] = row
    <2> HIDE DEF row
    <2> QED BY <1>1, <1>2 DEF TypeOK
  <1>5. OthersRest(p) /\ pc'[p] \in {"intent", "close"} /\ call'[p] = call[p] /\ held'[p] = Holding(t, n, 0)
    BY <1>1, <1>2 DEF Moves, OthersRest, TypeOK
  <1>6. OwnRows(p)'
    <2> HIDE DEF row, stage
    <2> QED BY <1>1, <1>3, <1>4, <1>5 DEF OwnRows, Holding
  <1> QED BY <1>1, <1>5, <1>6, OthersOwnRows

LEMMA CreateIntentOwnRows ==
  ASSUME TypeInv, AllOwnRows, NEW p \in Ops, CreateIntent(p)
  PROVE  AllOwnRows'
  <1> DEFINE ready == IntentReady(verdicts[held[p].verdict], quotes[call[p].quote],
                                  call[p].started)
             row == [verdict |-> held[p].verdict, quote |-> call[p].quote,
                     state |-> IF ready THEN "ready" ELSE "rejected", at |-> call[p].started]
  <1>1. Grown /\ TypeOK /\ OwnRows(p) /\ traces' = traces /\ verdicts' = verdicts
    BY CreateIntentTyped DEF TypeInv, AllOwnRows, CreateIntent
  <1> PICK n \in Nat : n = Len(intents) + 1
    BY <1>1 DEF TypeOK
  <1>2. intents' = Append(intents, row) /\ Moves(p, "settle", Holding(held[p].trace, held[p].verdict, n))
    BY DEF CreateIntent
  <1>3. n \in DOMAIN intents' /\ intents'[n].verdict = held[p].verdict /\ intents'[n].quote = call[p].quote
    <2>1. n \in DOMAIN intents' /\ intents'[n] = row
      <3> HIDE DEF row
      <3> QED BY <1>1, <1>2 DEF TypeOK
    <2> QED BY <2>1
  <1>4. /\ OthersRest(p) /\ pc'[p] = "settle" /\ call'[p] = call[p]
        /\ held'[p] = Holding(held[p].trace, held[p].verdict, n)
    BY <1>1, <1>2 DEF Moves, OthersRest, TypeOK
  <1>5. OwnRows(p)'
    BY <1>1, <1>3, <1>4 DEF OwnRows, Holding
  <1> QED BY <1>1, <1>4, <1>5, OthersOwnRows

LEMMA CheckCloseOwnRows ==
  ASSUME TypeInv, AllOwnRows, NEW p \in Ops, CheckClose(p)
  PROVE  AllOwnRows'
  <1>1. TypeOK /\ OwnRows(p) /\ UNCHANGED <<env, traces, verdicts, intents, sessions>>
    BY DEF TypeInv, AllOwnRows, CheckClose
  <1>2. Grown
    BY <1>1 DEF Grown, env
  <1>3. CASE Ends(p)
    BY <1>2, <1>3, EndingOwnRows
  <1>4. CASE Moves(p, "closing", held[p])
    <2>1. OthersRest(p) /\ pc'[p] = "closing" /\ call'[p] = call[p] /\ held'[p] = held[p]
      BY <1>1, <1>4 DEF Moves, OthersRest, TypeOK
    <2>2. OwnRows(p)'
      BY <1>1, <2>1 DEF OwnRows
    <2> QED BY <1>2, <2>1, <2>2, OthersOwnRows
  <1> QED BY <1>3, <1>4 DEF CheckClose

LEMMA OwnRowsNext == TypeInv /\ AllOwnRows /\ [Next]_vars => AllOwnRows'
  <1> SUFFICES ASSUME TypeInv, AllOwnRows, [Next]_vars PROVE AllOwnRows'
    OBVIOUS
  <1>1. CASE Tick \/ ScoreCondition \/ CaptureQuote
    <2>1. UNCHANGED <<traces, verdicts, intents, op>>
      BY <1>1 DEF Tick, ScoreCondition, CaptureQuote, op
    <2> QED BY <2>1 DEF AllOwnRows, OwnRows, op
  <1>2. ASSUME NEW p \in Ops, Begin(p) PROVE AllOwnRows'
    BY <1>2, BeginOwnRows
  <1>3. ASSUME NEW p \in Ops, Step(p) PROVE AllOwnRows'
    <2>1. CASE EvaluatePolicy(p) \/ EvaluateRisk(p) \/ CreateIntent(p) \/ CheckClose(p)
      BY <2>1, EvaluatePolicyOwnRows, EvaluateRiskOwnRows, CreateIntentOwnRows, CheckCloseOwnRows
    <2>2. CASE SettleEntry(p)
      <3>1. Ends(p)
        BY <2>2 DEF SettleEntry
      <3> QED BY <2>2, <3>1, SettleEntryTyped, EndingOwnRows
    <2>3. CASE CommitClose(p)
      <3>1. Ends(p)
        BY <2>3 DEF CommitClose
      <3> QED BY <2>3, <3>1, CommitCloseTyped, EndingOwnRows
    <2>4. CASE Crash(p)
      <3>1. Ends(p) /\ Grown
        BY <2>4 DEF Crash, Grown, env
      <3> QED BY <3>1, EndingOwnRows
    <2> QED BY <1>3, <2>1, <2>2, <2>3, <2>4 DEF Step
  <1>4. CASE UNCHANGED vars
    BY <1>4 DEF vars, AllOwnRows, OwnRows
  <1> QED BY <1>1, <1>2, <1>3, <1>4 DEF Next

(* However calls interleave and crash, the verdict a call acts on is of the *)
(* trace it wrote itself, and that trace of the condition run the call was  *)
(* pinned to (PaperTradeOperator hands each owner the ids of its own rows). *)
THEOREM CyclesReadTheirOwnRows == Spec => []CycleReadsItsOwnRows
  <1>1. Init => AllOwnRows
    BY DEF Init, AllOwnRows, OwnRows, Holding
  <1> QED BY <1>1, TypeInvInit, TypeInvNext, OwnRowsNext, OwnRowsGive, PTL DEF Spec

-----------------------------------------------------------------------------
(* Exits.  With one process at most that runs close_cycle, what             *)
(* simulate_close checked still holds when it writes: no other call sells   *)
(* the session in between.                                                  *)

SingleCloser == \A p, r \in Closers : p = r

OpenBooks(s) ==
  /\ sessions[s].openedAt <= clock
  /\ sessions[s].status = "open" =>
       /\ sessions[s].qty = sessions[s].bought
       /\ sessions[s].sold = 0 /\ sessions[s].received = 0
       /\ sessions[s].ending = 0 /\ sessions[s].pnl = 0

(* A running exit started after its session was opened; one that is about   *)
(* to write has an open session and a quote that matches its position.      *)
ExitHolds(p) ==
  /\ pc[p] # "idle" => call[p].started <= clock
  /\ pc[p] # "idle" /\ call[p].kind = "exit" =>
       p \in Closers /\ sessions[call[p].session].openedAt <= call[p].started
  /\ pc[p] = "closing" => MayClose(p)

Exits ==
  /\ \A s \in DOMAIN sessions : OpenBooks(s)
  /\ \A s \in DOMAIN sessions : sessions[s].status = "closed" => SoldAsQuoted(sessions[s])
  /\ \A p \in Ops : ExitHolds(p)

LEMMA ExitsInit == Init => Exits
  BY DEF Init, Exits, ExitHolds

LEMMA ExitsStutter == Exits /\ UNCHANGED vars => Exits'
  BY DEF vars, Exits, OpenBooks, SoldAsQuoted, ExitHolds, MayClose

(* A step that changes no session and lets time only go forward keeps the   *)
(* books, and what the processes that rest hold.                            *)
LEMMA BooksKept ==
  ASSUME TypeInv, Exits, Grown, UNCHANGED sessions, clock' \in Nat, clock <= clock'
  PROVE  /\ \A s \in DOMAIN sessions' : OpenBooks(s)'
         /\ \A s \in DOMAIN sessions' :
              sessions'[s].status = "closed" => SoldAsQuoted(sessions[s])'
  <1>1. ASSUME NEW s \in DOMAIN sessions' PROVE OpenBooks(s)'
    <2>1. s \in DOMAIN sessions /\ sessions[s] \in Session /\ clock \in Nat
      BY DEF TypeInv, TypeOK
    <2> QED BY <2>1 DEF Exits, OpenBooks, Session
  <1>2. ASSUME NEW s \in DOMAIN sessions', sessions'[s].status = "closed"
        PROVE  SoldAsQuoted(sessions[s])'
    BY <1>2 DEF Exits, SoldAsQuoted, Grown
  <1> QED BY <1>1, <1>2

LEMMA ExitHoldsKept ==
  ASSUME TypeInv, Exits, Grown, NEW r \in Ops, clock' \in Nat, clock <= clock',
         pc'[r] = pc[r], call'[r] = call[r],
         pc[r] # "idle" /\ call[r].kind = "exit" =>
           sessions'[call[r].session] = sessions[call[r].session]
  PROVE  ExitHolds(r)'
  <1>1. HoldsRows(r) /\ ExitHolds(r) /\ call[r] \in Call /\ clock \in Nat
    BY DEF TypeInv, TypeOK, CallsHoldRows, Exits
  <1>2. CASE pc[r] = "idle"
    BY <1>2 DEF ExitHolds
  <1>3. CASE pc[r] # "idle"
    <2>1. call[r].quote \in DOMAIN quotes /\ quotes'[call[r].quote] = quotes[call[r].quote]
      BY <1>1, <1>3 DEF HoldsRows, Grown
    <2>2. pc[r] = "closing" => call[r].kind = "exit"
      BY <1>1 DEF HoldsRows
    <2>3. call'[r].started <= clock'
      BY <1>1, <1>3 DEF ExitHolds, Call
    <2>4. pc'[r] = "closing" => MayClose(r)'
      BY <1>1, <1>3, <2>1, <2>2 DEF ExitHolds, MayClose
    <2> QED BY <1>1, <1>3, <2>3, <2>4 DEF ExitHolds
  <1> QED BY <1>2, <1>3

(* A step of one process that changes no session. *)
LEMMA QuietExits ==
  ASSUME TypeInv, Exits, Grown, UNCHANGED <<sessions, clock>>,
         NEW p \in Ops, OthersRest(p), ExitHolds(p)'
  PROVE  Exits'
  <1>1. clock' \in Nat /\ clock <= clock'
    BY DEF TypeInv, TypeOK
  <1>2. ASSUME NEW r \in Ops, r # p PROVE ExitHolds(r)'
    BY <1>1, <1>2, ExitHoldsKept DEF OthersRest
  <1> QED BY <1>1, <1>2, BooksKept DEF Exits

LEMMA EndingExits ==
  ASSUME TypeInv, Exits, NEW p \in Ops, Ends(p),
         UNCHANGED <<env, traces, verdicts, intents, sessions>>
  PROVE  Exits'
  <1>1. Grown /\ UNCHANGED <<sessions, clock>>
    BY DEF Grown, env
  <1>2. OthersRest(p) /\ ExitHolds(p)'
    BY EndTyped DEF TypeInv, ExitHolds
  <1> QED BY <1>1, <1>2, QuietExits

(* A call that moves on, but not yet to its write, holds what it held. *)
LEMMA MovingExits ==
  ASSUME TypeInv, Exits, Grown, UNCHANGED <<sessions, clock>>, NEW p \in Ops,
         NEW stage, NEW ids, stage # "closing", pc[p] # "idle", Moves(p, stage, ids)
  PROVE  Exits'
  <1>1. OthersRest(p) /\ pc'[p] = stage /\ call'[p] = call[p]
    BY DEF TypeInv, TypeOK, Moves, OthersRest
  <1>2. ExitHolds(p)'
    BY <1>1 DEF Exits, ExitHolds
  <1> QED BY <1>1, <1>2, QuietExits

LEMMA EnvironmentExits ==
  ASSUME TypeInv, Exits, Tick \/ ScoreCondition \/ CaptureQuote
  PROVE  Exits'
  <1>1. Grown
    BY EnvironmentTyped
  <1>2. UNCHANGED <<sessions, op>> /\ clock' \in Nat /\ clock <= clock'
    BY DEF Tick, ScoreCondition, CaptureQuote, op, TypeInv, TypeOK
  <1>3. ASSUME NEW r \in Ops PROVE ExitHolds(r)'
    BY <1>1, <1>2, ExitHoldsKept DEF op
  <1> QED BY <1>1, <1>2, <1>3, BooksKept DEF Exits

LEMMA BeginExits ==
  ASSUME TypeInv, Exits, NEW p \in Ops, Begin(p)
  PROVE  Exits'
  <1> PICK q \in DOMAIN quotes, pin \in Pins \cap (DOMAIN conds \cup {0}) :
        StartEntry(p, q, pin) \/ \E s \in DOMAIN sessions : StartExit(p, s, q, pin)
    BY DEF Begin
  <1>0. clock \in Nat
    BY DEF TypeInv, TypeOK
  <1>1. ASSUME NEW c \in Call, Begins(p, c), c.started = clock,
               c.kind = "exit" => p \in Closers /\ sessions[c.session].openedAt <= clock
        PROVE  Exits'
    <2>1. /\ pc'[p] = "policy" /\ call'[p] = c /\ OthersRest(p)
          /\ UNCHANGED <<env, traces, verdicts, intents, sessions>>
      BY <1>1, BeginsTyped DEF TypeInv
    <2>2. Grown /\ UNCHANGED <<sessions, clock>>
      BY <2>1 DEF Grown, env
    <2>3. ExitHolds(p)'
      BY <1>0, <1>1, <2>1, <2>2 DEF ExitHolds
    <2> QED BY <2>1, <2>2, <2>3, QuietExits
  <1>2. CASE StartEntry(p, q, pin)
    <2> DEFINE c == [kind |-> "entry", quote |-> q, session |-> 0, pin |-> pin, started |-> clock]
    <2>1. c \in Call /\ c.started = clock /\ c.kind = "entry"
      BY <1>0, OperatorAssumption DEF Call, TypeInv, TypeOK
    <2>2. Begins(p, c)
      BY <1>2 DEF StartEntry
    <2> HIDE DEF c
    <2> QED BY <1>1, <2>1, <2>2
  <1>3. ASSUME NEW s \in DOMAIN sessions, StartExit(p, s, q, pin)
        PROVE  Exits'
    <2> DEFINE c == [kind |-> "exit", quote |-> q, session |-> s, pin |-> pin, started |-> clock]
    <2>1. c \in Call /\ c.started = clock /\ c.session = s
      BY SMTT(30), <1>0, OperatorAssumption DEF Call, TypeInv, TypeOK
    <2>2. Begins(p, c) /\ p \in Closers
      BY <1>3 DEF StartExit
    <2>3. sessions[s].openedAt <= clock
      BY DEF Exits, OpenBooks
    <2> HIDE DEF c
    <2> QED BY <1>1, <2>1, <2>2, <2>3
  <1> QED BY <1>2, <1>3

LEMMA CheckCloseExits ==
  ASSUME TypeInv, Exits, NEW p \in Ops, CheckClose(p)
  PROVE  Exits'
  <1>0. /\ TypeOK /\ pc[p] = "close" /\ ExitHolds(p)
        /\ UNCHANGED <<env, traces, verdicts, intents, sessions>>
    BY DEF TypeInv, Exits, CheckClose
  <1>1. CASE ~MayClose(p)
    BY <1>0, <1>1, EndingExits DEF CheckClose
  <1>2. CASE MayClose(p)
    <2>1. Moves(p, "closing", held[p])
      BY <1>2 DEF CheckClose
    <2>2. OthersRest(p) /\ pc'[p] = "closing" /\ call'[p] = call[p]
      BY <1>0, <2>1 DEF TypeOK, Moves, OthersRest
    <2>3. Grown /\ UNCHANGED <<sessions, clock>>
      BY <1>0 DEF Grown, env
    <2>4. ExitHolds(p)'
      BY <1>0, <1>2, <2>2 DEF ExitHolds, MayClose, env
    <2> QED BY <2>2, <2>3, <2>4, QuietExits
  <1> QED BY <1>1, <1>2

LEMMA SettleEntryExits ==
  ASSUME TypeInv, Exits, NEW p \in Ops, SettleEntry(p)
  PROVE  Exits'
  <1> PICK n : n = Len(sessions) + 1
    OBVIOUS
  <1> DEFINE i == held[p].intent
             at == call[p].started
  <1>0. /\ TypeOK /\ HoldsRows(p) /\ pc[p] = "settle" /\ ExitHolds(p)
        /\ UNCHANGED <<env, traces, verdicts, intents>> /\ Ends(p)
    BY DEF TypeInv, CallsHoldRows, Exits, SettleEntry
  <1>1. Grown /\ clock' = clock /\ clock \in Nat
    BY <1>0, SettleEntryTyped DEF env, TypeOK
  <1>2. at <= clock
    BY <1>0 DEF ExitHolds
  <1>3. CASE UNCHANGED sessions
    BY <1>0, <1>3, EndingExits
  <1>4. ASSUME NEW row, sessions' = Append(sessions, row), OpenBooks(n)', row.status # "closed"
        PROVE  Exits'
    <2>1. /\ DOMAIN sessions' = DOMAIN sessions \cup {n} /\ sessions'[n] = row
          /\ \A s \in DOMAIN sessions : sessions'[s] = sessions[s]
      BY <1>0, <1>4 DEF TypeOK
    <2>2. OthersRest(p) /\ ExitHolds(p)'
      BY <1>0, EndTyped DEF ExitHolds
    <2>3. ASSUME NEW r \in Ops, r # p PROVE ExitHolds(r)'
      <3>1. pc[r] # "idle" /\ call[r].kind = "exit" => call[r].session \in DOMAIN sessions
        BY DEF TypeInv, CallsHoldRows, HoldsRows
      <3> QED BY <1>1, <2>1, <2>2, <2>3, <3>1, ExitHoldsKept DEF OthersRest
    <2>4. ASSUME NEW s \in DOMAIN sessions' PROVE OpenBooks(s)'
      BY <1>1, <1>4, <2>1 DEF Exits, OpenBooks
    <2>5. ASSUME NEW s \in DOMAIN sessions', sessions'[s].status = "closed"
          PROVE  SoldAsQuoted(sessions[s])'
      BY <1>1, <1>4, <2>1, <2>5 DEF Exits, SoldAsQuoted, Grown
    <2> QED BY <2>2, <2>3, <2>4, <2>5 DEF Exits
  <1>5. CASE sessions' = Append(sessions, SkippedSession(i, at))
    <2> PICK row : row = SkippedSession(i, at)
      OBVIOUS
    <2>1. sessions'[n] = row /\ row.status = "skipped" /\ row.openedAt = at
      <3>1. sessions'[n] = row
        BY <1>0, <1>5 DEF TypeOK
      <3>2. row.status = "skipped" /\ row.openedAt = at
        BY DEF SkippedSession
      <3> QED BY <3>1, <3>2
    <2> QED BY <1>1, <1>2, <1>4, <1>5, <2>1 DEF OpenBooks
  <1>6. CASE sessions' = Append(sessions, OpenedSession(i, at))
    <2> PICK row : row = OpenedSession(i, at)
      OBVIOUS
    <2>1. sessions'[n] = row
      BY <1>0, <1>6 DEF TypeOK
    <2>2. /\ row.status = "open" /\ row.openedAt = at /\ row.qty = row.bought /\ row.sold = 0
          /\ row.received = 0 /\ row.ending = 0 /\ row.pnl = 0
      BY DEF OpenedSession
    <2> QED BY <1>1, <1>2, <1>4, <1>6, <2>1, <2>2 DEF OpenBooks
  <1> QED BY <1>3, <1>5, <1>6 DEF SettleEntry

(* The write of a close, on a session that is still as it was checked. *)
LEMMA CommitCloseExits ==
  ASSUME SingleCloser, TypeInv, Exits, NEW p \in Ops, CommitClose(p)
  PROVE  Exits'
  <1> PICK s : s = call[p].session
    OBVIOUS
  <1> PICK row : row = ClosedSession(sessions[s], p)
    OBVIOUS
  <1> PICK q : q = quotes[call[p].quote]
    OBVIOUS
  <1>0. /\ TypeOK /\ HoldsRows(p) /\ pc[p] = "closing" /\ call[p].kind = "exit" /\ ExitHolds(p)
        /\ UNCHANGED <<env, traces, verdicts, intents>> /\ Ends(p) /\ s \in DOMAIN sessions
    BY DEF TypeInv, CallsHoldRows, HoldsRows, Exits, CommitClose
  <1>1. Grown /\ clock' = clock /\ clock \in Nat
    BY <1>0, CommitCloseTyped DEF env, TypeOK
  <1>2. /\ p \in Closers /\ MayClose(p) /\ call[p].started <= clock
        /\ sessions[s].openedAt <= call[p].started
    BY <1>0 DEF ExitHolds
  <1>3. /\ sessions[s] \in Session /\ call[p].quote \in DOMAIN quotes /\ q \in Quote
        /\ held[p].verdict \in DOMAIN verdicts /\ call[p] \in Call
    BY <1>0 DEF HoldsRows, TypeOK
  <1>4. sessions[s].status = "open" /\ sessions[s].qty = sessions[s].bought
    BY <1>0, <1>2 DEF MayClose, Exits, OpenBooks
  <1>5. /\ row.status = "closed" /\ row.openedAt = sessions[s].openedAt
        /\ row.closedAt = call[p].started /\ row.mint = sessions[s].mint
        /\ row.bought = sessions[s].bought /\ row.qty = 0 /\ row.ending = q.out_amt
        /\ row.exitQuote = call[p].quote /\ row.exitVerdict = held[p].verdict
    BY DEF ClosedSession
  <1>6. /\ q.dir = "token_to_usdc" /\ q.input = sessions[s].mint /\ q.output = USDC
        /\ q.in_amt = sessions[s].bought /\ FreshAt(q, call[p].started)
    BY <1>2, <1>4 DEF MayClose, CloseAccepted, ExitQuoteMatches
  <1>7. q.at <= call[p].started /\ call[p].started <= q.at + MaxQuoteAge
    BY <1>3, <1>6, RulesAssumption DEF FreshAt, Quote, Call
  <1>8. sessions' = [sessions EXCEPT ![s] = row]
    BY DEF CommitClose
  <1>9. /\ DOMAIN sessions' = DOMAIN sessions /\ sessions'[s] = row
        /\ \A r \in DOMAIN sessions : r # s => sessions'[r] = sessions[r]
    BY <1>0, <1>8 DEF TypeOK
  <1>10. SoldAsQuoted(sessions[s])'
    <2>1. quotes' = quotes /\ verdicts' = verdicts
      BY <1>0 DEF env
    <2> QED BY <1>2, <1>3, <1>5, <1>6, <1>7, <1>9, <2>1 DEF SoldAsQuoted
  <1>11. OpenBooks(s)'
    BY <1>0, <1>1, <1>5, <1>9 DEF OpenBooks, Exits
  <1>12. ASSUME NEW z \in DOMAIN sessions, z # s
         PROVE  OpenBooks(z)' /\ (sessions'[z].status = "closed" => SoldAsQuoted(sessions[z])')
    <2>1. sessions'[z] = sessions[z]
      BY <1>9, <1>12
    <2> QED BY <1>1, <2>1 DEF Exits, OpenBooks, SoldAsQuoted, Grown
  <1>13. OthersRest(p) /\ ExitHolds(p)'
    BY <1>0, EndTyped DEF ExitHolds
  <1>14. ASSUME NEW r \in Ops, r # p PROVE ExitHolds(r)'
    <2>1. ~(pc[r] # "idle" /\ call[r].kind = "exit")
      BY <1>2, <1>14 DEF SingleCloser, Exits, ExitHolds
    <2> QED BY <1>1, <1>13, <1>14, <2>1, ExitHoldsKept DEF OthersRest
  <1> QED BY <1>9, <1>10, <1>11, <1>12, <1>13, <1>14 DEF Exits

LEMMA ExitsNext ==
  ASSUME SingleCloser
  PROVE  TypeInv /\ Exits /\ [Next]_vars => Exits'
  <1> SUFFICES ASSUME TypeInv, Exits, [Next]_vars PROVE Exits'
    OBVIOUS
  <1>1. CASE Tick \/ ScoreCondition \/ CaptureQuote
    BY <1>1, EnvironmentExits
  <1>2. ASSUME NEW p \in Ops, Begin(p) PROVE Exits'
    BY <1>2, BeginExits
  <1>3. ASSUME NEW p \in Ops, Step(p) PROVE Exits'
    <2>1. CASE EvaluatePolicy(p)
      <3>1. Grown /\ UNCHANGED <<sessions, clock>>
        BY <2>1, EvaluatePolicyTyped DEF EvaluatePolicy, env
      <3>2. CASE Evaluable(SelectedCondition(p))
        BY <2>1, <3>1, <3>2, MovingExits DEF EvaluatePolicy
      <3>3. CASE ~Evaluable(SelectedCondition(p))
        BY <2>1, <3>3, EndingExits DEF EvaluatePolicy
      <3> QED BY <3>2, <3>3
    <2>2. CASE EvaluateRisk(p)
      <3>1. Grown /\ UNCHANGED <<sessions, clock>>
        BY <2>2, EvaluateRiskTyped DEF EvaluateRisk, env
      <3> QED BY <2>2, <3>1, MovingExits DEF EvaluateRisk
    <2>3. CASE CreateIntent(p)
      <3>1. Grown /\ UNCHANGED <<sessions, clock>>
        BY <2>3, CreateIntentTyped DEF CreateIntent, env
      <3> QED BY <2>3, <3>1, MovingExits DEF CreateIntent
    <2>4. CASE SettleEntry(p) BY <2>4, SettleEntryExits
    <2>5. CASE CheckClose(p) BY <2>5, CheckCloseExits
    <2>6. CASE CommitClose(p) BY <2>6, CommitCloseExits
    <2>7. CASE Crash(p) BY <2>7, EndingExits DEF Crash
    <2> QED BY <1>3, <2>1, <2>2, <2>3, <2>4, <2>5, <2>6, <2>7 DEF Step
  <1>4. CASE UNCHANGED vars
    BY <1>4, ExitsStutter
  <1> QED BY <1>1, <1>2, <1>3, <1>4 DEF Next

LEMMA ExitsHold ==
  ASSUME SingleCloser
  PROVE  Spec => [](TypeInv /\ Evidence /\ Exits)
  <1>1. Init => TypeInv /\ Evidence /\ Exits
    BY TypeInvInit, EvidenceInit, ExitsInit
  <1>2. TypeInv /\ Evidence /\ Exits /\ [Next]_vars => (TypeInv /\ Evidence /\ Exits)'
    BY TypeInvNext, EvidenceNext, ExitsNext
  <1> QED BY <1>1, <1>2, PTL DEF Spec

(* With one process that closes, every closed session was sold as its exit  *)
(* quote says, in full, at a fresh quote, after it was opened.              *)
THEOREM ExitsHaveProvenance ==
  ASSUME SingleCloser
  PROVE  Spec => []ExitProvenance
  <1>1. Exits => ExitProvenance
    BY DEF Exits, ExitProvenance
  <1> QED BY <1>1, ExitsHold, PTL

-----------------------------------------------------------------------------
(* The refinement of PaperLedger. *)

LedgerOf == [s \in 1 .. Len(sessions) |-> LedgerEntry(sessions[s])]

LEMMA LedgerUnchanged ==
  ASSUME UNCHANGED sessions
  PROVE  LedgerOf' = LedgerOf
  BY DEF LedgerOf, LedgerEntry

(* Appending a session appends its entry. *)
LEMMA LedgerAppends ==
  ASSUME sessions \in Seq(Session), NEW row \in Session, sessions' = Append(sessions, row)
  PROVE  /\ LedgerOf' = Append(LedgerOf, LedgerEntry(row))
         /\ Len(LedgerOf') = Len(LedgerOf) + 1
         /\ LedgerOf'[Len(LedgerOf')] = LedgerEntry(row)
  <1>1. /\ Len(sessions') = Len(sessions) + 1 /\ Len(sessions) \in Nat
        /\ \A s \in 1 .. Len(sessions) : sessions'[s] = sessions[s]
        /\ sessions'[Len(sessions) + 1] = row
    OBVIOUS
  <1> DEFINE e(s) == LedgerEntry(sessions[s])
             f == LedgerEntry(row)
  <1>2. /\ LedgerOf = [s \in 1 .. Len(sessions) |-> e(s)]
        /\ LedgerOf' = [s \in 1 .. Len(sessions) + 1 |-> IF s <= Len(sessions) THEN e(s) ELSE f]
    BY <1>1 DEF LedgerOf, LedgerEntry
  <1> HIDE DEF e, f
  <1>3. Len(LedgerOf) = Len(sessions) /\ Len(LedgerOf') = Len(sessions) + 1
    BY <1>1, <1>2
  <1>4. LedgerOf' = Append(LedgerOf, f)
    BY <1>1, <1>2, <1>3
  <1>5. LedgerOf'[Len(LedgerOf')] = f
    BY <1>1, <1>2, <1>3
  <1> QED BY <1>3, <1>4, <1>5 DEF f

(* A settlement is a step of the ledger: it adds a skipped session, or one  *)
(* that bought something for some cash.                                     *)
LEMMA SettleEntryRefines ==
  ASSUME TypeInv, Evidence, NEW p \in Ops, SettleEntry(p)
  PROVE  Ledger!Next \/ UNCHANGED LedgerOf
  <1> DEFINE i == held[p].intent
             at == call[p].started
             q == quotes[intents[i].quote]
  <1>0. TypeOK /\ References /\ HoldsRows(p) /\ pc[p] = "settle"
    BY DEF TypeInv, CallsHoldRows, SettleEntry
  <1>1. i \in DOMAIN intents /\ at \in Nat /\ q \in Quote
    <2>1. i \in DOMAIN intents
      BY <1>0 DEF HoldsRows
    <2>2. call[p] \in Call
      BY <1>0 DEF TypeOK
    <2>3. at \in Nat
      BY <2>2 DEF Call
    <2>4. intents[i].quote \in DOMAIN quotes
      BY <1>0, <2>1 DEF References
    <2>5. q \in Quote
      BY <1>0, <2>4 DEF TypeOK
    <2> QED BY <2>1, <2>3, <2>5
  <1>2. CASE UNCHANGED sessions
    BY <1>2, LedgerUnchanged
  <1>3. ASSUME NEW row \in Session, sessions' = Append(sessions, row),
               \/ LedgerEntry(row) = Ledger!Skipped(LedgerEntry(row).spent)
               \/ /\ LedgerEntry(row).bought > 0 /\ LedgerEntry(row).spent > 0
                  /\ LedgerEntry(row) = Ledger!Bought(LedgerEntry(row).bought,
                                                      LedgerEntry(row).spent)
        PROVE  Ledger!Next
    <2>1. /\ LedgerOf' = Append(LedgerOf, LedgerEntry(row))
          /\ Len(LedgerOf') = Len(LedgerOf) + 1
          /\ LedgerOf'[Len(LedgerOf')] = LedgerEntry(row)
      BY <1>0, <1>3, LedgerAppends DEF TypeOK
    <2>2. Ledger!Settle <=> /\ Len(LedgerOf') = Len(LedgerOf) + 1
                            /\ LET entry == LedgerOf'[Len(LedgerOf')] IN
                                 /\ LedgerOf' = Append(LedgerOf, entry)
                                 /\ \/ entry = Ledger!Skipped(entry.spent)
                                    \/ /\ entry.bought > 0 /\ entry.spent > 0
                                       /\ entry = Ledger!Bought(entry.bought, entry.spent)
      BY DEF Ledger!Settle, LedgerOf
    <2> QED BY <1>3, <2>1, <2>2 DEF Ledger!Next
  <1>4. CASE sessions' = Append(sessions, SkippedSession(i, at))
    <2>1. SkippedSession(i, at) \in Session
      BY <1>0, <1>1, SkippedSessionType
    <2>2. LedgerEntry(SkippedSession(i, at))
            = Ledger!Skipped(LedgerEntry(SkippedSession(i, at)).spent)
      BY DEF LedgerEntry, SkippedSession, Ledger!Skipped
    <2> QED BY <1>3, <1>4, <2>1, <2>2
  <1>5. CASE /\ FillAccepted(intents[i], q, at)
             /\ sessions' = Append(sessions, OpenedSession(i, at))
    <2>1. intents[i].state = "ready" /\ IntentEvidence(i)
      BY <1>1, <1>5 DEF FillAccepted, Evidence
    <2>2. SpotBuyQuote(q)
      BY <2>1 DEF IntentEvidence, IntentReady
    <2>3. q.in_amt > 0 /\ q.out_amt > 0 /\ q.out_amt # NoAmount
      BY <1>1, <2>2, RulesAssumption DEF SpotBuyQuote, Quote, NoAmount
    <2>4. OpenedSession(i, at) \in Session
      BY <1>0, <1>1, <2>3, OpenedSessionType
    <2>5. /\ LedgerEntry(OpenedSession(i, at)) = Ledger!Bought(q.out_amt, q.in_amt)
          /\ LedgerEntry(OpenedSession(i, at)).bought = q.out_amt
          /\ LedgerEntry(OpenedSession(i, at)).spent = q.in_amt
      BY DEF LedgerEntry, OpenedSession, Ledger!Bought
    <2> HIDE DEF i, at
    <2> QED BY <1>3, <1>5, <2>3, <2>4, <2>5
  <1> QED BY <1>2, <1>4, <1>5 DEF SettleEntry

(* The write of a close is the sale of one open session in full. *)
LEMMA CommitCloseRefines ==
  ASSUME TypeInv, Exits, NEW p \in Ops, CommitClose(p)
  PROVE  Ledger!Next
  <1> PICK s : s = call[p].session
    OBVIOUS
  <1> PICK q : q = quotes[call[p].quote]
    OBVIOUS
  <1> PICK row : row = ClosedSession(sessions[s], p)
    OBVIOUS
  <1>0. TypeOK /\ HoldsRows(p) /\ pc[p] = "closing" /\ ExitHolds(p) /\ s \in DOMAIN sessions
    BY DEF TypeInv, CallsHoldRows, HoldsRows, Exits, CommitClose
  <1>1. /\ sessions[s] \in Session /\ q \in Quote /\ MayClose(p) /\ OpenBooks(s)
        /\ quotes[call[p].quote].out_amt # NoAmount
    BY <1>0 DEF HoldsRows, TypeOK, ExitHolds, Exits
  <1>2. /\ sessions[s].status = "open" /\ q.in_amt = sessions[s].bought
        /\ sessions[s].sold = 0 /\ sessions[s].received = 0 /\ q.out_amt \in Nat
    BY <1>1 DEF MayClose, CloseAccepted, ExitQuoteMatches, OpenBooks, Quote
  <1>3. LedgerEntry(row) = Ledger!Sold(LedgerEntry(sessions[s]), q.out_amt)
    BY SMTT(30), <1>1, <1>2 DEF ClosedSession, LedgerEntry, Ledger!Sold, Session, Quote
  <1>4. LedgerEntry(row).received = q.out_amt /\ LedgerEntry(sessions[s]).status = "open"
    BY <1>2, <1>3 DEF Ledger!Sold, LedgerEntry
  <1>5. /\ sessions' = [sessions EXCEPT ![s] = row] /\ Len(sessions') = Len(sessions)
        /\ s \in 1 .. Len(sessions) /\ Len(sessions) \in Nat
    BY <1>0 DEF CommitClose, TypeOK
  <1> DEFINE e(z) == LedgerEntry(sessions[z])
             f == LedgerEntry(row)
  <1>6. \A z \in 1 .. Len(sessions) : sessions'[z] = IF z = s THEN row ELSE sessions[z]
    BY <1>0, <1>5 DEF TypeOK
  <1>7. /\ LedgerOf = [z \in 1 .. Len(sessions) |-> e(z)]
        /\ LedgerOf' = [z \in 1 .. Len(sessions) |-> IF z = s THEN f ELSE e(z)]
    BY <1>5, <1>6 DEF LedgerOf, LedgerEntry
  <1>8. LedgerOf[s] = e(s) /\ LedgerOf'[s] = f
    <2> HIDE DEF e, f
    <2> QED BY <1>5, <1>7
  <1>9. /\ LedgerOf' = [LedgerOf EXCEPT ![s] = f] /\ Len(LedgerOf') = Len(LedgerOf)
        /\ s \in DOMAIN LedgerOf
    <2> HIDE DEF e, f
    <2> QED BY <1>5, <1>7
  <1>10. Ledger!Close(s) <=>
           /\ LedgerOf[s].status = "open" /\ Len(LedgerOf') = Len(LedgerOf)
           /\ LedgerOf' = [LedgerOf EXCEPT ![s] = Ledger!Sold(LedgerOf[s], LedgerOf'[s].received)]
    BY DEF Ledger!Close, LedgerOf
  <1>11. f = Ledger!Sold(e(s), f.received) /\ e(s).status = "open"
    BY <1>3, <1>4
  <1> HIDE DEF e, f
  <1>12. Ledger!Close(s)
    BY <1>8, <1>9, <1>10, <1>11
  <1>13. s \in DOMAIN LedgerOf => s \in DOMAIN [z \in 1 .. Len(sessions) |-> LedgerEntry(sessions[z])]
    BY DEF LedgerOf
  <1> QED BY <1>9, <1>12, <1>13 DEF Ledger!Next

LEMMA StepRefines ==
  TypeInv /\ Evidence /\ Exits /\ [Next]_vars => Ledger!Next \/ UNCHANGED LedgerOf
  <1> SUFFICES ASSUME TypeInv, Evidence, Exits, [Next]_vars
               PROVE  Ledger!Next \/ UNCHANGED LedgerOf
    OBVIOUS
  <1>1. CASE UNCHANGED sessions
    BY <1>1, LedgerUnchanged
  <1>2. CASE \E p \in Ops : SettleEntry(p) \/ CommitClose(p)
    BY <1>2, SettleEntryRefines, CommitCloseRefines
  <1>3. UNCHANGED sessions \/ \E p \in Ops : SettleEntry(p) \/ CommitClose(p)
    <2>1. ASSUME NEW p \in Ops, Begin(p) PROVE UNCHANGED sessions
      BY <2>1 DEF Begin, StartEntry, StartExit, Begins
    <2>2. ASSUME NEW p \in Ops, Step(p)
          PROVE  UNCHANGED sessions \/ SettleEntry(p) \/ CommitClose(p)
      BY <2>2 DEF Step, EvaluatePolicy, EvaluateRisk, CreateIntent, CheckClose, Crash
    <2> QED BY <2>1, <2>2 DEF Next, Tick, ScoreCondition, CaptureQuote, vars
  <1> QED BY <1>1, <1>2, <1>3

(* With one process that closes, the operator implements the ledger: every  *)
(* session is recorded once, sold at most once and then in full, with books *)
(* that add up, and a closed or skipped one never changes again.            *)
THEOREM OperatorImplementsLedger ==
  ASSUME SingleCloser
  PROVE  Spec => LedgerRefinement
  <1>1. Init => Ledger!Init
    BY DEF Init, Ledger!Init
  <1>2. TypeInv /\ Evidence /\ Exits /\ [Next]_vars
          => [Ledger!Next]_([s \in 1 .. Len(sessions) |-> LedgerEntry(sessions[s])])
    BY StepRefines DEF LedgerOf
  <1> QED BY <1>1, <1>2, ExitsHold, PTL DEF Spec, LedgerRefinement, Ledger!Spec
=============================================================================
