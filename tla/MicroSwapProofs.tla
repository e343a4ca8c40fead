---- MODULE MicroSwapProofs ----
(***************************************************************************)
(* Theorems of MicroSwap, for any number of runs and of the operator's     *)
(* commands, any amounts, caps and times to live.                          *)
(*                                                                         *)
(* The strengthening says where an authority comes from: an armed file is  *)
(* the last command written completely, and a run that passed the check    *)
(* names a command that was written no earlier than the last one before    *)
(* its start.                                                              *)
(***************************************************************************)
EXTENDS MicroSwap, TLAPS

Commands == [command : {"arm", "pause"}, state : ArmStates]
Consoles == [phase : {"idle", "passed", "writing"}, command : {"none", "arm", "pause"}, next : ArmStates]
Lines == [run : Runs, success : BOOLEAN]

(* What a run that passed the check of the arm state can show for it.      *)
Covered(r, i) ==
    /\ i >= run[r].seen
    /\ writes[i].command = "arm" /\ writes[i].state = run[r].file
    /\ run[r].at <= run[r].file.until
    /\ run[r].input = "USDC" => run[r].amount <= run[r].file.cap

Authorized(r) == \E i \in 1..Len(writes) : Covered(r, i)

Passed == {"checked", "signed", "answered"}

(* Where a run is that has sent its execution.                             *)
Ends == {"unanswered", "answered", "unrecorded", "done"}

ArmInv ==
    /\ armFile.kind = "armed" =>
         /\ Len(writes) \in 1..Len(writes)
         /\ writes[Len(writes)].command = "arm" /\ writes[Len(writes)].state = armFile
    /\ console.phase = "writing" =>
         /\ console.command \in {"arm", "pause"}
         /\ console.next.kind = "armed" => console.command = "arm"

AuthorityInv == \A r \in Runs : r \in landed \/ run[r].phase \in Passed => Authorized(r)

ChainInv ==
    /\ \A r \in landed : run[r].phase \in Ends
    /\ \A r \in Runs : run[r].phase = "answered" /\ Success(r) => r \in landed
    /\ \A r \in Runs : run[r].phase = "done" => \E i \in 1..Len(ledger) : ledger[i].run = r
    /\ \A i \in 1..Len(ledger) : ledger[i].success => ledger[i].run \in landed

IInv == TypeOK /\ ArmInv /\ AuthorityInv /\ ChainInv

-----------------------------------------------------------------------------
LEMMA AppendRow ==
  ASSUME NEW S, NEW rows \in Seq(S), NEW row \in S
  PROVE  /\ Append(rows, row) \in Seq(S)
         /\ Len(rows) \in Nat /\ Len(Append(rows, row)) = Len(rows) + 1
         /\ \A i \in 1..Len(rows) : i \in 1..(Len(rows) + 1) /\ Append(rows, row)[i] = rows[i]
         /\ Len(rows) + 1 \in 1..(Len(rows) + 1)
         /\ Append(rows, row)[Len(rows) + 1] = row
         /\ \A i \in 1..(Len(rows) + 1) : i \in 1..Len(rows) \/ i = Len(rows) + 1
  OBVIOUS

OthersRest(r) == \A q \in Runs \ {r} : run'[q] = run[q]
SameRequest(r) ==
    /\ run'[r].input = run[r].input /\ run'[r].amount = run[r].amount /\ run'[r].seen = run[r].seen
SameCheck(r) == run'[r].file = run[r].file /\ run'[r].at = run[r].at
SameAnswer(r) == run'[r].signature = run[r].signature /\ run'[r].success = run[r].success

LEMMA GoesTo ==
  ASSUME NEW r \in Runs, NEW phase \in Phases, run \in [Runs -> RunRecords], Go(r, phase)
  PROVE  /\ run' \in [Runs -> RunRecords] /\ OthersRest(r) /\ run'[r].phase = phase
         /\ SameRequest(r) /\ SameCheck(r) /\ SameAnswer(r)
  <1>1. run[r] \in RunRecords
    OBVIOUS
  <1>2. run'[r] = [run[r] EXCEPT !.phase = phase]
    BY DEF Go
  <1>3. /\ run'[r] \in RunRecords /\ run'[r].phase = phase
        /\ SameRequest(r) /\ SameCheck(r) /\ SameAnswer(r)
    BY <1>1, <1>2 DEF RunRecords, SameRequest, SameCheck, SameAnswer
  <1>4. OthersRest(r)
    BY DEF Go, OthersRest
  <1>5. run' \in [Runs -> RunRecords]
    BY <1>3 DEF Go
  <1> QED BY <1>3, <1>4, <1>5

LEMMA StartsRun ==
  ASSUME NEW r \in Runs, TypeOK, Start(r)
  PROVE  /\ run' \in [Runs -> RunRecords] /\ OthersRest(r)
         /\ run'[r].phase \in {"blocked", "started"} /\ run'[r].at = 0 /\ run'[r].seen = Len(writes)
  <1> PICK input \in Inputs, amount \in Amounts : run' = [run EXCEPT ![r] = Request(input, amount)]
    BY DEF Start
  <1>0. run \in [Runs -> RunRecords] /\ Len(writes) \in Nat
    BY DEF TypeOK
  <1>1. NoState \in ArmStates /\ amount \in Nat
    BY MicroAssumption DEF NoState, ArmStates
  <1>2. /\ Request(input, amount) \in RunRecords
        /\ Request(input, amount).phase \in {"blocked", "started"}
        /\ Request(input, amount).at = 0 /\ Request(input, amount).seen = Len(writes)
    BY <1>0, <1>1 DEF Request, RunRecords, Phases
  <1>3. /\ run'[r] \in RunRecords /\ run'[r].phase \in {"blocked", "started"}
        /\ run'[r].at = 0 /\ run'[r].seen = Len(writes)
    BY <1>0, <1>2
  <1>4. OthersRest(r)
    BY <1>0 DEF OthersRest
  <1>5. run' \in [Runs -> RunRecords]
    BY <1>0, <1>3
  <1> QED BY <1>3, <1>4, <1>5

LEMMA TakesTime ==
  ASSUME NEW r \in Runs, TypeOK, TakeTime(r)
  PROVE  /\ run' \in [Runs -> RunRecords] /\ OthersRest(r) /\ SameRequest(r)
         /\ run'[r].phase = "timed" /\ run'[r].at = clock
  <1>0. run \in [Runs -> RunRecords] /\ run[r] \in RunRecords /\ clock \in Nat
    BY DEF TypeOK
  <1>1. run' = [run EXCEPT ![r] = [@ EXCEPT !.phase = "timed", !.at = clock]]
    BY DEF TakeTime
  <1>2. run'[r] = [run[r] EXCEPT !.phase = "timed", !.at = clock]
    BY <1>0, <1>1
  <1>3. /\ run'[r] \in RunRecords /\ SameRequest(r)
        /\ run'[r].phase = "timed" /\ run'[r].at = clock
    BY <1>0, <1>2 DEF RunRecords, SameRequest, Phases
  <1>4. OthersRest(r)
    BY <1>0, <1>1 DEF OthersRest
  <1>5. run' \in [Runs -> RunRecords]
    BY <1>0, <1>1, <1>3
  <1> QED BY <1>3, <1>4, <1>5

LEMMA ChecksArm ==
  ASSUME NEW r \in Runs, TypeOK, CheckArm(r)
  PROVE  /\ run' \in [Runs -> RunRecords] /\ OthersRest(r) /\ SameRequest(r)
         /\ run'[r].phase = Verdict(r, armFile) /\ run'[r].file = armFile
         /\ run'[r].at = run[r].at
  <1>0. run \in [Runs -> RunRecords] /\ armFile \in ArmStates
    BY DEF TypeOK
  <1>1. run' = [run EXCEPT ![r] = [@ EXCEPT !.phase = Verdict(r, armFile), !.file = armFile]]
    BY DEF CheckArm
  <1>2. run[r] \in RunRecords /\ Verdict(r, armFile) \in Phases
    BY <1>0 DEF Verdict, Phases
  <1>3. run'[r] = [run[r] EXCEPT !.phase = Verdict(r, armFile), !.file = armFile]
    BY <1>0, <1>1
  <1>4. /\ run'[r] \in RunRecords /\ SameRequest(r)
        /\ run'[r].phase = Verdict(r, armFile) /\ run'[r].file = armFile
        /\ run'[r].at = run[r].at
    BY <1>0, <1>2, <1>3 DEF RunRecords, SameRequest
  <1>5. OthersRest(r)
    BY <1>0, <1>1 DEF OthersRest
  <1>6. run' \in [Runs -> RunRecords]
    BY <1>0, <1>1, <1>4
  <1> QED BY <1>4, <1>5, <1>6

LEMMA Executes ==
  ASSUME NEW r \in Runs, TypeOK, Execute(r)
  PROVE  /\ run' \in [Runs -> RunRecords] /\ OthersRest(r) /\ SameRequest(r) /\ SameCheck(r)
         /\ run'[r].phase \in {"answered", "unanswered"}
         /\ landed' \in {landed, landed \cup {r}}
         /\ run'[r].phase = "answered" /\ run'[r].success /\ run'[r].signature => r \in landed'
  <1> PICK lands \in BOOLEAN, answered \in BOOLEAN, signature \in BOOLEAN, success \in BOOLEAN :
          /\ answered /\ signature /\ success => lands
          /\ landed' = IF lands THEN landed \cup {r} ELSE landed
          /\ run' = [run EXCEPT ![r] = [@ EXCEPT !.phase = IF answered THEN "answered" ELSE "unanswered",
                                                 !.signature = signature, !.success = success]]
    BY DEF Execute
  <1>0. run \in [Runs -> RunRecords] /\ run[r] \in RunRecords
    BY DEF TypeOK
  <1> DEFINE next == IF answered THEN "answered" ELSE "unanswered"
  <1>1. run'[r] = [run[r] EXCEPT !.phase = next, !.signature = signature, !.success = success]
    BY <1>0
  <1>2. next \in Phases /\ next \in {"answered", "unanswered"} /\ (next = "answered" => answered)
    BY DEF Phases
  <1> HIDE DEF next
  <1>3. /\ run'[r] \in RunRecords /\ SameRequest(r) /\ SameCheck(r)
        /\ run'[r].phase = next /\ run'[r].signature = signature /\ run'[r].success = success
    BY <1>0, <1>1, <1>2 DEF RunRecords, SameRequest, SameCheck
  <1>4. OthersRest(r)
    BY <1>0 DEF OthersRest
  <1>5. run' \in [Runs -> RunRecords]
    BY <1>0, <1>3
  <1>6. run'[r].phase = "answered" /\ run'[r].success /\ run'[r].signature => r \in landed'
    BY <1>2, <1>3
  <1> QED BY <1>2, <1>3, <1>4, <1>5, <1>6

(* What a run shows for its authority it shows for good.                   *)
LEMMA StaysAuthorized ==
  ASSUME TypeOK, NEW r \in Runs, Authorized(r),
         run'[r].input = run[r].input, run'[r].amount = run[r].amount, run'[r].seen = run[r].seen,
         run'[r].file = run[r].file, run'[r].at = run[r].at,
         Len(writes) <= Len(writes)', Len(writes)' \in Nat, \A i \in 1..Len(writes) : writes'[i] = writes[i]
  PROVE  Authorized(r)'
  <1>1. PICK i \in 1..Len(writes) : Covered(r, i)
    BY DEF Authorized
  <1>2. i \in (1..Len(writes))' /\ writes'[i] = writes[i]
    BY DEF TypeOK
  <1>3. Covered(r, i)'
    BY <1>1, <1>2 DEF Covered
  <1> QED BY <1>2, <1>3 DEF Authorized

(* Steps that leave the runs, the commands and the ledger alone.           *)
LEMMA RestKeeps ==
  ASSUME TypeOK, AuthorityInv, ChainInv, run' = run, landed' = landed, ledger' = ledger, writes' = writes
  PROVE  AuthorityInv' /\ ChainInv'
  <1>1. AuthorityInv'
    <2> SUFFICES ASSUME NEW r \in Runs, r \in landed \/ run[r].phase \in Passed
                 PROVE  Authorized(r)'
      BY DEF AuthorityInv
    <2>1. Authorized(r)
      BY DEF AuthorityInv
    <2> QED BY <2>1 DEF Authorized, Covered
  <1>2. ChainInv'
    BY DEF ChainInv, Success
  <1> QED BY <1>1, <1>2

-----------------------------------------------------------------------------
(* The clock, the settings, the metrics and the operator's commands.       *)

LEMMA AroundSteps ==
  ASSUME IInv, NewMetrics \/ SetKillSwitch \/ Tick \/ ArmAfterReadiness \/ ConsoleDies
  PROVE  IInv'
  <1> USE DEF IInv
  <1>1. AuthorityInv' /\ ChainInv'
    BY RestKeeps DEF NewMetrics, SetKillSwitch, Tick, ArmAfterReadiness, ConsoleDies
  <1>2. CASE NewMetrics
    BY <1>1, <1>2 DEF NewMetrics, TypeOK, ArmInv
  <1>3. CASE SetKillSwitch
    BY <1>1, <1>3 DEF SetKillSwitch, TypeOK, ArmInv
  <1>4. CASE Tick
    <2>1. clock \in Nat /\ clock' = clock + 1 /\ clock' \in Nat
      BY <1>4 DEF Tick, TypeOK
    <2>2. \A r \in Runs : run[r].at \in Nat
      BY DEF TypeOK, RunRecords
    <2>3. TypeOK'
      BY <1>4, <2>1, <2>2 DEF Tick, TypeOK
    <2>4. ArmInv'
      BY <1>4 DEF Tick, ArmInv
    <2> QED BY <1>1, <2>3, <2>4
  <1>5. CASE ArmAfterReadiness \/ ConsoleDies
    <2>1. NoState \in ArmStates
      BY DEF NoState, ArmStates
    <2>2. console' \in Consoles /\ console'.phase # "writing"
      BY <1>5, <2>1 DEF ArmAfterReadiness, ConsoleDies, ConsoleIdle, Consoles
    <2>3. TypeOK' /\ ArmInv'
      BY <1>5, <2>2 DEF ArmAfterReadiness, ConsoleDies, TypeOK, ArmInv, Consoles
    <2> QED BY <1>1, <2>3
  <1> QED BY <1>2, <1>3, <1>4, <1>5

LEMMA WritesBegin ==
  ASSUME IInv, Arm \/ Pause
  PROVE  IInv'
  <1> USE DEF IInv
  <1>1. AuthorityInv' /\ ChainInv'
    BY RestKeeps DEF Arm, Pause, BeginWrite
  <1>2. Torn \in ArmStates /\ Torn.kind = "torn"
    BY DEF Torn, NoState, ArmStates
  <1>3. clock \in Nat
    BY DEF TypeOK
  <1>4. PICK command \in {"arm", "pause"}, state \in ArmStates :
          /\ BeginWrite(command, state)
          /\ state.kind = "armed" => command = "arm"
    <2>1. CASE Pause
      <3>1. PausedState \in ArmStates /\ PausedState.kind # "armed"
        BY DEF PausedState, NoState, ArmStates
      <3> QED BY <2>1, <3>1 DEF Pause
    <2>2. CASE Arm
      <3>1. PICK cap \in Caps, ttl \in Ttls : BeginWrite("arm", ArmedState(cap, ttl))
        BY <2>2 DEF Arm
      <3>2. cap \in Nat /\ ttl \in Nat
        BY MicroAssumption
      <3>3. ArmedState(cap, ttl) \in ArmStates
        BY <1>3, <3>2 DEF ArmedState, ArmStates
      <3> QED BY <3>1, <3>3
    <2> QED BY <2>1, <2>2
  <1>5. /\ console' = [phase |-> "writing", command |-> command, next |-> state]
        /\ armFile' = Torn
        /\ UNCHANGED <<clock, kill, metrics, packets, writes, run, landed, ledger>>
    BY <1>4 DEF BeginWrite
  <1>6. console' \in Consoles
    BY <1>5 DEF Consoles
  <1>7. TypeOK'
    BY <1>2, <1>5, <1>6 DEF TypeOK, Consoles
  <1>8. ArmInv'
    BY <1>2, <1>4, <1>5 DEF ArmInv
  <1> QED BY <1>1, <1>7, <1>8

LEMMA WriteEnds ==
  ASSUME IInv, EndWrite
  PROVE  IInv'
  <1> USE DEF IInv
  <1> DEFINE row == [command |-> console.command, state |-> console.next]
  <1>0. /\ console \in Consoles /\ console.phase = "writing"
        /\ writes' = Append(writes, row) /\ armFile' = console.next /\ console' = ConsoleIdle
        /\ UNCHANGED <<clock, kill, metrics, packets, run, landed, ledger>>
    BY DEF EndWrite, TypeOK, Consoles
  <1>1. /\ console.next \in ArmStates /\ console.command \in {"arm", "pause"}
        /\ console.next.kind = "armed" => console.command = "arm"
    BY <1>0 DEF ArmInv, Consoles
  <1>2. row \in Commands /\ row.command = console.command /\ row.state = console.next
    BY <1>1 DEF Commands
  <1>3. writes \in Seq(Commands)
    BY DEF TypeOK, Commands
  <1> HIDE DEF row
  <1>4. /\ writes' \in Seq(Commands)
        /\ Len(writes) \in Nat /\ Len(writes') = Len(writes) + 1
        /\ \A i \in 1..Len(writes) : writes'[i] = writes[i]
        /\ writes'[Len(writes')] = row
    BY <1>0, <1>2, <1>3, AppendRow
  <1>5. NoState \in ArmStates /\ ConsoleIdle \in Consoles /\ ConsoleIdle.phase = "idle"
    BY DEF NoState, ArmStates, ConsoleIdle, Consoles
  <1>6. \A r \in Runs : run[r].seen \in Nat
    BY DEF TypeOK, RunRecords
  <1>7. TypeOK'
    BY <1>0, <1>1, <1>4, <1>5, <1>6 DEF TypeOK, Commands, Consoles
  <1>8. ArmInv'
    BY <1>0, <1>1, <1>2, <1>4, <1>5 DEF ArmInv
  <1>9. AuthorityInv'
    <2> SUFFICES ASSUME NEW r \in Runs, r \in landed \/ run[r].phase \in Passed
                 PROVE  Authorized(r)'
      BY <1>0 DEF AuthorityInv
    <2>1. Authorized(r)
      BY DEF AuthorityInv
    <2>2. Len(writes) <= Len(writes') /\ Len(writes') \in Nat
      BY <1>4
    <2> QED BY <1>0, <1>4, <2>1, <2>2, StaysAuthorized
  <1>10. ChainInv'
    BY <1>0 DEF ChainInv, Success
  <1> QED BY <1>7, <1>8, <1>9, <1>10

-----------------------------------------------------------------------------
(* The runs.                                                               *)

(* A step of one run keeps the types, the arm state and the authority of   *)
(* the other runs.                                                         *)
LEMMA RunTypes ==
  ASSUME IInv, NEW r \in Runs, run' \in [Runs -> RunRecords], OthersRest(r),
         run'[r].at <= clock, run'[r].seen <= Len(writes),
         landed' \subseteq Runs, ledger' \in Seq(Lines),
         UNCHANGED <<clock, kill, metrics, packets, armFile, writes, console>>
  PROVE  TypeOK' /\ ArmInv'
  <1>1. \A q \in Runs : run'[q].at <= clock /\ run'[q].seen <= Len(writes)
    BY DEF IInv, TypeOK, OthersRest
  <1>2. TypeOK'
    BY <1>1 DEF IInv, TypeOK, Lines
  <1> QED BY <1>2 DEF IInv, ArmInv

LEMMA RunAuthority ==
  ASSUME IInv, NEW r \in Runs, run' \in [Runs -> RunRecords], OthersRest(r),
         landed' \in {landed, landed \cup {r}}, writes' = writes,
         (r \in landed' \/ run'[r].phase \in Passed) => Authorized(r)'
  PROVE  AuthorityInv'
  <1> SUFFICES ASSUME NEW q \in Runs, (q \in landed \/ run[q].phase \in Passed)'
               PROVE  Authorized(q)'
    BY DEF AuthorityInv
  <1>1. CASE q = r
    BY <1>1
  <1>2. CASE q # r
    <2>1. run'[q] = run[q] /\ (q \in landed \/ run[q].phase \in Passed)
      BY <1>2 DEF OthersRest
    <2>2. Authorized(q)
      BY <2>1 DEF IInv, AuthorityInv
    <2> QED BY <2>1, <2>2 DEF Authorized, Covered
  <1> QED BY <1>1, <1>2

LEMMA SameRun ==
  ASSUME NEW r \in Runs, SameRequest(r), SameCheck(r), Authorized(r), writes' = writes
  PROVE  Authorized(r)'
  BY DEF SameRequest, SameCheck, Authorized, Covered

(* Steps that change the phase only, and not into one that ends a swap.    *)
LEMMA PhaseSteps ==
  ASSUME IInv, NEW r \in Runs, CheckReadiness(r) \/ OrderAndSign(r) \/ RunDies(r)
  PROVE  IInv'
  <1> USE DEF IInv
  <1>1. PICK phase \in {"ready", "signed", "blocked", "raised", "unrecorded"} :
          /\ Go(r, phase)
          /\ phase = "signed" => run[r].phase = "checked"
          /\ run[r].phase = "answered" => phase = "unrecorded"
    BY DEF CheckReadiness, OrderAndSign, RunDies
  <1>2. /\ UNCHANGED <<clock, kill, metrics, packets, armFile, writes, console, landed, ledger>>
        /\ run[r].phase \in {"started", "ready", "timed", "checked", "signed", "answered"}
    BY DEF CheckReadiness, OrderAndSign, RunDies
  <1>3. phase \in Phases /\ run \in [Runs -> RunRecords]
    BY DEF Phases, TypeOK
  <1>4. /\ run' \in [Runs -> RunRecords] /\ OthersRest(r) /\ run'[r].phase = phase
        /\ SameRequest(r) /\ SameCheck(r) /\ SameAnswer(r)
    BY <1>1, <1>3, GoesTo
  <1>5. /\ run'[r].at <= clock /\ run'[r].seen <= Len(writes)
        /\ landed' \subseteq Runs /\ ledger' \in Seq(Lines)
    BY <1>2, <1>4 DEF TypeOK, SameRequest, SameCheck, Lines
  <1>6. TypeOK' /\ ArmInv'
    BY <1>2, <1>4, <1>5, RunTypes
  <1>7. ASSUME r \in landed' \/ run'[r].phase \in Passed  PROVE Authorized(r)'
    <2>1. r \in landed \/ run[r].phase \in Passed
      BY <1>1, <1>2, <1>4, <1>7 DEF Passed
    <2>2. Authorized(r)
      BY <2>1 DEF AuthorityInv
    <2> QED BY <1>2, <1>4, <2>2, SameRun
  <1>8. AuthorityInv'
    BY <1>2, <1>4, <1>7, RunAuthority
  <1>9. ChainInv'
    <2>1. \A q \in landed' : run'[q].phase \in Ends
      BY <1>1, <1>2, <1>4 DEF ChainInv, OthersRest, TypeOK, Ends
    <2>2. \A q \in Runs : run'[q].phase = "answered" /\ Success(q)' => q \in landed'
      BY <1>1, <1>2, <1>4 DEF ChainInv, OthersRest, Success
    <2>3. \A q \in Runs : run'[q].phase = "done" => \E i \in 1..Len(ledger') : ledger'[i].run = q
      BY <1>1, <1>2, <1>4 DEF ChainInv, OthersRest
    <2>4. \A i \in 1..Len(ledger') : ledger'[i].success => ledger'[i].run \in landed'
      BY <1>2 DEF ChainInv
    <2> QED BY <2>1, <2>2, <2>3, <2>4 DEF ChainInv
  <1> QED BY <1>6, <1>8, <1>9

(* Steps that take a run no further than the check.                        *)
LEMMA ChainRests ==
  ASSUME IInv, NEW r \in Runs, OthersRest(r), r \notin landed,
         run'[r].phase \notin {"answered", "done"}, landed' = landed, ledger' = ledger
  PROVE  ChainInv'
  <1> USE DEF IInv
  <1>1. \A q \in landed' : run'[q].phase \in Ends
    BY DEF ChainInv, OthersRest, TypeOK
  <1>2. \A q \in Runs : run'[q].phase = "answered" /\ Success(q)' => q \in landed'
    BY DEF ChainInv, OthersRest, Success
  <1>3. \A q \in Runs : run'[q].phase = "done" => \E i \in 1..Len(ledger') : ledger'[i].run = q
    BY DEF ChainInv, OthersRest
  <1>4. \A i \in 1..Len(ledger') : ledger'[i].success => ledger'[i].run \in landed'
    BY DEF ChainInv
  <1> QED BY <1>1, <1>2, <1>3, <1>4 DEF ChainInv

LEMMA StartStep ==
  ASSUME IInv, NEW r \in Runs, Start(r)
  PROVE  IInv'
  <1> USE DEF IInv
  <1>1. /\ run' \in [Runs -> RunRecords] /\ OthersRest(r)
        /\ run'[r].phase \in {"blocked", "started"} /\ run'[r].at = 0 /\ run'[r].seen = Len(writes)
    BY StartsRun
  <1>2. /\ UNCHANGED <<clock, kill, metrics, packets, armFile, writes, console, landed, ledger>>
        /\ run[r].phase = "new"
    BY DEF Start
  <1>3. r \notin landed
    BY <1>2 DEF ChainInv, Ends
  <1>4. /\ run'[r].at <= clock /\ run'[r].seen <= Len(writes)
        /\ landed' \subseteq Runs /\ ledger' \in Seq(Lines)
    BY <1>1, <1>2 DEF TypeOK, Lines
  <1>5. TypeOK' /\ ArmInv'
    BY <1>1, <1>2, <1>4, RunTypes
  <1>6. ~(r \in landed' \/ run'[r].phase \in Passed)
    BY <1>1, <1>2, <1>3 DEF Passed
  <1>7. AuthorityInv'
    BY <1>1, <1>2, <1>6, RunAuthority
  <1>8. run'[r].phase \notin {"answered", "done"}
    BY <1>1
  <1>9. ChainInv'
    BY <1>1, <1>2, <1>3, <1>8, ChainRests
  <1> QED BY <1>5, <1>7, <1>9

LEMMA TimeStep ==
  ASSUME IInv, NEW r \in Runs, TakeTime(r)
  PROVE  IInv'
  <1> USE DEF IInv
  <1>1. /\ run' \in [Runs -> RunRecords] /\ OthersRest(r) /\ SameRequest(r)
        /\ run'[r].phase = "timed" /\ run'[r].at = clock
    BY TakesTime
  <1>2. /\ UNCHANGED <<clock, kill, metrics, packets, armFile, writes, console, landed, ledger>>
        /\ run[r].phase = "ready"
    BY DEF TakeTime
  <1>3. r \notin landed
    BY <1>2 DEF ChainInv, Ends
  <1>4. /\ run'[r].at <= clock /\ run'[r].seen <= Len(writes)
        /\ landed' \subseteq Runs /\ ledger' \in Seq(Lines)
    BY <1>1, <1>2 DEF TypeOK, SameRequest, Lines
  <1>5. TypeOK' /\ ArmInv'
    BY <1>1, <1>2, <1>4, RunTypes
  <1>6. ~(r \in landed' \/ run'[r].phase \in Passed)
    BY <1>1, <1>2, <1>3 DEF Passed
  <1>7. AuthorityInv'
    BY <1>1, <1>2, <1>6, RunAuthority
  <1>8. run'[r].phase \notin {"answered", "done"}
    BY <1>1
  <1>9. ChainInv'
    BY <1>1, <1>2, <1>3, <1>8, ChainRests
  <1> QED BY <1>5, <1>7, <1>9

LEMMA CheckStep ==
  ASSUME IInv, NEW r \in Runs, CheckArm(r)
  PROVE  IInv'
  <1> USE DEF IInv
  <1>1. /\ run' \in [Runs -> RunRecords] /\ OthersRest(r) /\ SameRequest(r)
        /\ run'[r].phase = Verdict(r, armFile) /\ run'[r].file = armFile
        /\ run'[r].at = run[r].at
    BY ChecksArm
  <1>2. /\ UNCHANGED <<clock, kill, metrics, packets, armFile, writes, console, landed, ledger>>
        /\ run[r].phase = "timed"
    BY DEF CheckArm
  <1>3. r \notin landed
    BY <1>2 DEF ChainInv, Ends
  <1>4. Verdict(r, armFile) \in {"raised", "checked", "blocked"}
    BY DEF Verdict
  <1>5. /\ run'[r].at <= clock /\ run'[r].seen <= Len(writes)
        /\ landed' \subseteq Runs /\ ledger' \in Seq(Lines)
    BY <1>1, <1>2 DEF TypeOK, SameRequest, Lines
  <1>6. TypeOK' /\ ArmInv'
    BY <1>1, <1>2, <1>5, RunTypes
  <1>7. ASSUME r \in landed' \/ run'[r].phase \in Passed  PROVE Authorized(r)'
    <2>1. Verdict(r, armFile) = "checked"
      BY <1>1, <1>2, <1>3, <1>4, <1>7 DEF Passed
    <2>2. armFile.kind = "armed" /\ run[r].at <= armFile.until /\ (run[r].input = "USDC" => run[r].amount <= armFile.cap)
      BY <2>1 DEF Verdict, Armed, WithinCap
    <2>3. /\ Len(writes) \in 1..Len(writes)
          /\ writes[Len(writes)].command = "arm" /\ writes[Len(writes)].state = armFile
      BY <2>2 DEF ArmInv
    <2>4. Len(writes) >= run[r].seen
      BY DEF TypeOK, RunRecords
    <2>5. Covered(r, Len(writes))'
      BY <1>1, <1>2, <2>2, <2>3, <2>4 DEF Covered, SameRequest
    <2> QED BY <1>2, <2>3, <2>5 DEF Authorized
  <1>8. AuthorityInv'
    BY <1>1, <1>2, <1>7, RunAuthority
  <1>9. run'[r].phase \notin {"answered", "done"}
    BY <1>1, <1>4
  <1>10. ChainInv'
    BY <1>1, <1>2, <1>3, <1>9, ChainRests
  <1> QED BY <1>6, <1>8, <1>10

LEMMA ExecuteStep ==
  ASSUME IInv, NEW r \in Runs, Execute(r)
  PROVE  IInv'
  <1> USE DEF IInv
  <1>1. /\ run' \in [Runs -> RunRecords] /\ OthersRest(r) /\ SameRequest(r) /\ SameCheck(r)
        /\ run'[r].phase \in {"answered", "unanswered"}
        /\ landed' \in {landed, landed \cup {r}}
        /\ run'[r].phase = "answered" /\ run'[r].success /\ run'[r].signature => r \in landed'
    BY Executes
  <1>2. /\ UNCHANGED <<clock, kill, metrics, packets, armFile, writes, console, ledger>>
        /\ run[r].phase = "signed"
    BY DEF Execute
  <1>3. /\ run'[r].at <= clock /\ run'[r].seen <= Len(writes)
        /\ landed' \subseteq Runs /\ ledger' \in Seq(Lines)
    BY <1>1, <1>2 DEF TypeOK, SameRequest, SameCheck, Lines
  <1>4. TypeOK' /\ ArmInv'
    BY <1>1, <1>2, <1>3, RunTypes
  <1>5. Authorized(r)'
    BY <1>1, <1>2, SameRun DEF AuthorityInv, Passed
  <1>6. AuthorityInv'
    BY <1>1, <1>2, <1>5, RunAuthority
  <1>7. ChainInv'
    <2>1. \A q \in landed' : run'[q].phase \in Ends
      BY <1>1 DEF ChainInv, OthersRest, TypeOK, Ends
    <2>2. \A q \in Runs : run'[q].phase = "answered" /\ Success(q)' => q \in landed'
      BY <1>1 DEF ChainInv, OthersRest, Success
    <2>3. \A q \in Runs : run'[q].phase = "done" => \E i \in 1..Len(ledger') : ledger'[i].run = q
      BY <1>1, <1>2 DEF ChainInv, OthersRest
    <2>4. \A i \in 1..Len(ledger') : ledger'[i].success => ledger'[i].run \in landed'
      BY <1>1, <1>2 DEF ChainInv
    <2> QED BY <2>1, <2>2, <2>3, <2>4 DEF ChainInv
  <1> QED BY <1>4, <1>6, <1>7

LEMMA LedgerStep ==
  ASSUME IInv, NEW r \in Runs, AppendLedger(r)
  PROVE  IInv'
  <1> USE DEF IInv
  <1> DEFINE line == [run |-> r, success |-> Success(r)]
  <1>1. /\ UNCHANGED <<clock, kill, metrics, packets, armFile, writes, console, landed>>
        /\ run[r].phase = "answered" /\ Go(r, "done") /\ ledger' = Append(ledger, line)
    BY DEF AppendLedger
  <1>2. "done" \in Phases /\ run \in [Runs -> RunRecords]
    BY DEF Phases, TypeOK
  <1>3. /\ run' \in [Runs -> RunRecords] /\ OthersRest(r) /\ run'[r].phase = "done"
        /\ SameRequest(r) /\ SameCheck(r) /\ SameAnswer(r)
    BY <1>1, <1>2, GoesTo
  <1>4. run[r].success \in BOOLEAN /\ run[r].signature \in BOOLEAN
    BY <1>2 DEF RunRecords
  <1>5. line \in Lines /\ line.run = r /\ (line.success => r \in landed)
    BY <1>1, <1>4 DEF Lines, Success, ChainInv
  <1>6. ledger \in Seq(Lines)
    BY DEF TypeOK, Lines
  <1> HIDE DEF line
  <1>7. /\ ledger' \in Seq(Lines) /\ Len(ledger) \in Nat /\ Len(ledger') = Len(ledger) + 1
        /\ \A i \in 1..Len(ledger) : i \in 1..(Len(ledger) + 1) /\ ledger'[i] = ledger[i]
        /\ Len(ledger) + 1 \in 1..(Len(ledger) + 1) /\ ledger'[Len(ledger) + 1] = line
        /\ \A i \in 1..(Len(ledger) + 1) : i \in 1..Len(ledger) \/ i = Len(ledger) + 1
    BY <1>1, <1>5, <1>6, AppendRow
  <1>8. run'[r].at <= clock /\ run'[r].seen <= Len(writes) /\ landed' \subseteq Runs
    BY <1>1, <1>3 DEF TypeOK, SameRequest, SameCheck
  <1>9. TypeOK' /\ ArmInv'
    BY <1>1, <1>3, <1>7, <1>8, RunTypes
  <1>10. Authorized(r)'
    BY <1>1, <1>3, SameRun DEF AuthorityInv, Passed
  <1>11. AuthorityInv'
    BY <1>1, <1>3, <1>10, RunAuthority
  <1>12. ChainInv'
    <2>1. \A q \in landed' : run'[q].phase \in Ends
      BY <1>1, <1>3 DEF ChainInv, OthersRest, TypeOK, Ends
    <2>2. \A q \in Runs : run'[q].phase = "answered" /\ Success(q)' => q \in landed'
      BY <1>1, <1>3 DEF ChainInv, OthersRest, Success
    <2>3. \A q \in Runs : run'[q].phase = "done" => \E i \in 1..Len(ledger') : ledger'[i].run = q
      <3> SUFFICES ASSUME NEW q \in Runs, run'[q].phase = "done"
                   PROVE  \E i \in 1..Len(ledger') : ledger'[i].run = q
        OBVIOUS
      <3>1. CASE q = r
        BY <1>5, <1>7, <3>1
      <3>2. CASE q # r
        <4>1. run[q].phase = "done"
          BY <1>3, <3>2 DEF OthersRest
        <4>2. PICK i \in 1..Len(ledger) : ledger[i].run = q
          BY <4>1 DEF ChainInv
        <4> QED BY <1>7, <4>2
      <3> QED BY <3>1, <3>2
    <2>4. \A i \in 1..Len(ledger') : ledger'[i].success => ledger'[i].run \in landed'
      <3> SUFFICES ASSUME NEW i \in 1..Len(ledger'), ledger'[i].success
                   PROVE  ledger'[i].run \in landed'
        OBVIOUS
      <3>1. CASE i \in 1..Len(ledger)
        BY <1>1, <1>7, <3>1 DEF ChainInv
      <3>2. CASE i = Len(ledger) + 1
        BY <1>1, <1>5, <1>7, <3>2
      <3> QED BY <1>7, <3>1, <3>2
    <2> QED BY <2>1, <2>2, <2>3, <2>4 DEF ChainInv
  <1> QED BY <1>9, <1>11, <1>12

-----------------------------------------------------------------------------
LEMMA InitIInv == Init => IInv
  <1> SUFFICES ASSUME Init PROVE IInv
    OBVIOUS
  <1> USE DEF Init
  <1>1. NoState \in ArmStates /\ NoState.kind = "none"
    BY DEF NoState, ArmStates
  <1>2. ConsoleIdle \in Consoles /\ ConsoleIdle.phase = "idle"
    BY <1>1 DEF ConsoleIdle, Consoles
  <1>3. New \in RunRecords /\ New.phase = "new" /\ New.at = 0 /\ New.seen = 0
    BY <1>1 DEF New, RunRecords, Inputs, Phases
  <1>4. Len(writes) = 0 /\ Len(ledger) = 0 /\ writes \in Seq(Commands) /\ ledger \in Seq(Lines)
    OBVIOUS
  <1>5. TypeOK
    BY <1>1, <1>2, <1>3, <1>4 DEF TypeOK, Commands, Lines, Consoles
  <1>6. ArmInv
    BY <1>1, <1>2 DEF ArmInv
  <1>7. AuthorityInv /\ ChainInv
    BY <1>3, <1>4 DEF AuthorityInv, ChainInv, Passed
  <1> QED BY <1>5, <1>6, <1>7 DEF IInv

LEMMA NextIInv == IInv /\ [Next]_vars => IInv'
  <1> SUFFICES ASSUME IInv, [Next]_vars PROVE IInv'
    OBVIOUS
  <1>1. CASE NewMetrics \/ SetKillSwitch \/ Tick \/ ArmAfterReadiness \/ ConsoleDies
    BY <1>1, AroundSteps
  <1>2. CASE Arm \/ Pause
    BY <1>2, WritesBegin
  <1>3. CASE EndWrite
    BY <1>3, WriteEnds
  <1>4. CASE \E r \in Runs : ExecuteSwap(r)
    <2> PICK r \in Runs : ExecuteSwap(r)
      BY <1>4
    <2>1. CASE Start(r)
      BY <2>1, StartStep
    <2>2. CASE CheckReadiness(r) \/ OrderAndSign(r) \/ RunDies(r)
      BY <2>2, PhaseSteps
    <2>3. CASE TakeTime(r)
      BY <2>3, TimeStep
    <2>4. CASE CheckArm(r)
      BY <2>4, CheckStep
    <2>5. CASE Execute(r)
      BY <2>5, ExecuteStep
    <2>6. CASE AppendLedger(r)
      BY <2>6, LedgerStep
    <2> QED BY <2>1, <2>2, <2>3, <2>4, <2>5, <2>6 DEF ExecuteSwap
  <1>5. CASE UNCHANGED vars
    <2>1. AuthorityInv' /\ ChainInv'
      BY <1>5, RestKeeps DEF IInv, vars
    <2> QED BY <1>5, <2>1 DEF IInv, TypeOK, ArmInv, vars
  <1> QED BY <1>1, <1>2, <1>3, <1>4, <1>5 DEF Next

LEMMA AlwaysIInv == Spec => []IInv
  BY InitIInv, NextIInv, PTL DEF Spec

(* Arm states, commands, runs and ledger lines are well formed whatever    *)
(* writers and runs do (arm_state.py, jupiter_micro.py).                   *)
THEOREM TypeCorrect == Spec => []TypeOK
  <1>1. IInv => TypeOK
    BY DEF IInv
  <1> QED BY <1>1, AlwaysIInv, PTL

(* However many runs race the operator, no swap lands that was not checked *)
(* against a complete arming that covers it and had not expired when the   *)
(* check began (execute_swap).                                             *)
THEOREM SwapsAreArmed == Spec => []SwapsWereArmed
  <1>1. IInv => SwapsWereArmed
    <2> SUFFICES ASSUME IInv, NEW r \in landed
                 PROVE  /\ \E i \in 1..Len(writes) : writes[i].state = run[r].file
                        /\ run[r].at <= run[r].file.until
                        /\ run[r].input = "USDC" => run[r].amount <= run[r].file.cap
      BY DEF SwapsWereArmed
    <2>1. PICK i \in 1..Len(writes) : Covered(r, i)
      BY DEF IInv, TypeOK, AuthorityInv, Authorized
    <2> QED BY <2>1 DEF Covered
  <1> QED BY <1>1, AlwaysIInv, PTL

(* A run that starts after a pause was written lands no swap unless the    *)
(* operator arms again (arm_state.py, pause).                              *)
THEOREM PausesStopSwaps == Spec => []PauseStopsLaterSwaps
  <1>1. IInv => PauseStopsLaterSwaps
    <2> SUFFICES ASSUME IInv, NEW r \in landed
                 PROVE  \E i \in 1..Len(writes) :
                          i >= run[r].seen /\ writes[i] = [command |-> "arm", state |-> run[r].file]
      BY DEF PauseStopsLaterSwaps
    <2>1. PICK i \in 1..Len(writes) : Covered(r, i)
      BY DEF IInv, TypeOK, AuthorityInv, Authorized
    <2>2. writes \in Seq(Commands)
      BY DEF IInv, TypeOK, Commands
    <2>3. writes[i] \in Commands
      BY <2>2
    <2>4. writes[i] = [command |-> "arm", state |-> run[r].file]
      BY <2>1, <2>3 DEF Covered, Commands
    <2> QED BY <2>1, <2>4 DEF Covered
  <1> QED BY <1>1, AlwaysIInv, PTL

(* The ledger has no success that is not on the chain.  Every swap on the  *)
(* chain has a line, unless its run never read an answer, or has the line  *)
(* still to write, or ended between its answer and the line                *)
(* (_append_ledger).                                                       *)
THEOREM LedgerAgrees == Spec => []LedgerMatchesChain
  <1>1. IInv => LedgerMatchesChain
    BY DEF IInv, TypeOK, ChainInv, LedgerMatchesChain, Ends
  <1> QED BY <1>1, AlwaysIInv, PTL
====
