---- MODULE MicroSwap ----
(***************************************************************************)
(* The gated micro-live swap of live_execution/: the expiring arm state    *)
(* the operator writes, and executor runs that check it, order a swap,     *)
(* have it signed outside and send it for execution.                       *)
(*                                                                         *)
(* Every run is a process of its own at the command line; the arm state is *)
(* a file they share, written in place.  Jupiter and the chain answer as   *)
(* they like: an execution may land although its answer is lost.           *)
(***************************************************************************)
EXTENDS Integers, Sequences

CONSTANTS
    Runs,       \* executions of d5 micro-live execute
    Amounts,    \* amounts a run may ask for,
    Caps,       \* and an arming may allow
    Ttls,       \* --ttl-minutes
    MaxClock,   \* minutes,
    MaxMetrics, \* new metrics packets,
    MaxWrites   \* armings and pauses: bounds of the exploration

ASSUME MicroAssumption ==
    /\ Amounts \subseteq Nat /\ Caps \subseteq Nat /\ Ttls \subseteq Nat
    /\ MaxClock \in Nat /\ MaxMetrics \in Nat /\ MaxWrites \in Nat

VARIABLES
    clock,    \* utcnow, in minutes
    kill,     \* MICRO_LIVE_KILL_SWITCH, read when a process starts
    metrics,  \* latest_metrics.json: "missing", "weak" or "strong"
    packets,  \* how many packets were written
    armFile,  \* micro_live_arm_state.json
    writes,   \* history: the commands that wrote it completely, in order
    console,  \* the operator's arm or pause command
    run,      \* per run: where it is and what it read
    landed,   \* runs whose swap the chain executed
    ledger    \* lines of micro_live_ledger.jsonl, in order

vars == <<clock, kill, metrics, packets, armFile, writes, console, run, landed, ledger>>

Inputs == {"USDC", "SOL"}

NoState == [kind |-> "none", until |-> 0, cap |-> 0]
Torn == [NoState EXCEPT !.kind = "torn"]

ConsoleIdle == [phase |-> "idle", command |-> "none", next |-> NoState]

New == [phase |-> "new", input |-> "USDC", amount |-> 0, seen |-> 0, file |-> NoState, at |-> 0,
        signature |-> FALSE, success |-> FALSE]

Init ==
    /\ clock = 0
    /\ kill \in BOOLEAN
    /\ metrics \in {"missing", "weak", "strong"}
    /\ packets = 0
    /\ armFile = NoState
    /\ writes = <<>>
    /\ console = ConsoleIdle
    /\ run = [r \in Runs |-> New]
    /\ landed = {}
    /\ ledger = <<>>

-----------------------------------------------------------------------------
(* Readiness, and the operator's commands.                                 *)

(* Every threshold is met; without a packet none is.                       *)
ReadinessPassed == metrics = "strong"

NewMetrics ==
    /\ packets < MaxMetrics
    /\ packets' = packets + 1
    /\ metrics' \in {"weak", "strong"}
    /\ UNCHANGED <<clock, kill, armFile, writes, console, run, landed, ledger>>

SetKillSwitch ==
    /\ kill' = ~kill
    /\ UNCHANGED <<clock, metrics, packets, armFile, writes, console, run, landed, ledger>>

(* arm: readiness is read, then the state is put together and written.     *)
ArmAfterReadiness ==
    /\ console.phase = "idle" /\ Len(writes) < MaxWrites
    /\ ReadinessPassed
    /\ console' = [ConsoleIdle EXCEPT !.phase = "passed"]
    /\ UNCHANGED <<clock, kill, metrics, packets, armFile, writes, run, landed, ledger>>

ArmedBackwards(cap, ttl) == [kind |-> "armed", until |-> clock - ttl, cap |-> cap]
ArmedState(cap, ttl) == [kind |-> "armed", until |-> clock + ttl, cap |-> cap]

PausedKeepsArmed == [NoState EXCEPT !.kind = "armed", !.until = clock]
PausedState == [NoState EXCEPT !.kind = "paused"]

(* write_bytes truncates the file and then fills it.                       *)
BeginWrite(command, state) ==
    /\ armFile' = Torn
    /\ console' = [phase |-> "writing", command |-> command, next |-> state]
    /\ UNCHANGED <<clock, kill, metrics, packets, writes, run, landed, ledger>>

Arm ==
    /\ console.phase = "passed"
    /\ \E cap \in Caps, ttl \in Ttls : BeginWrite("arm", ArmedState(cap, ttl))

Pause ==
    /\ console.phase = "idle" /\ Len(writes) < MaxWrites
    /\ BeginWrite("pause", PausedState)

EndWrite ==
    /\ console.phase = "writing"
    /\ armFile' = console.next
    /\ writes' = Append(writes, [command |-> console.command, state |-> console.next])
    /\ console' = ConsoleIdle
    /\ UNCHANGED <<clock, kill, metrics, packets, run, landed, ledger>>

(* The command dies and may leave a file no run can parse.                 *)
ConsoleDies ==
    /\ console.phase # "idle"
    /\ console' = ConsoleIdle
    /\ UNCHANGED <<clock, kill, metrics, packets, armFile, writes, run, landed, ledger>>

-----------------------------------------------------------------------------
(* One run of execute_swap.                                                *)

Go(r, phase) == run' = [run EXCEPT ![r].phase = phase]

(* The kill switch is a setting: it is read once, at the start.            *)
Request(input, amount) ==
    [phase |-> IF kill THEN "blocked" ELSE "started", input |-> input, amount |-> amount,
     seen |-> Len(writes), file |-> NoState, at |-> 0, signature |-> FALSE, success |-> FALSE]

Start(r) ==
    /\ run[r].phase = "new"
    /\ \E input \in Inputs, amount \in Amounts : run' = [run EXCEPT ![r] = Request(input, amount)]
    /\ UNCHANGED <<clock, kill, metrics, packets, armFile, writes, console, landed, ledger>>

CheckReadiness(r) ==
    /\ run[r].phase = "started"
    /\ Go(r, IF ReadinessPassed THEN "ready" ELSE "blocked")
    /\ UNCHANGED <<clock, kill, metrics, packets, armFile, writes, console, landed, ledger>>

(* status takes the time before it reads the file.                         *)
TakeTime(r) ==
    /\ run[r].phase = "ready"
    /\ run' = [run EXCEPT ![r] = [@ EXCEPT !.phase = "timed", !.at = clock]]
    /\ UNCHANGED <<clock, kill, metrics, packets, armFile, writes, console, landed, ledger>>

ArmedForever(r, file) == file.kind = "armed"

(* status: what the file says, unless it has expired.                      *)
Armed(r, file) == file.kind = "armed" /\ run[r].at <= file.until

(* Only an input in USDC is held against the cap.                          *)
WithinCap(r, file) == run[r].input = "USDC" => run[r].amount <= file.cap

(* A torn file cannot be parsed: the run ends with the exception.          *)
Verdict(r, file) ==
    IF file.kind = "torn" THEN "raised"
    ELSE IF Armed(r, file) /\ WithinCap(r, file) THEN "checked" ELSE "blocked"

CheckArm(r) ==
    /\ run[r].phase = "timed"
    /\ run' = [run EXCEPT ![r] = [@ EXCEPT !.phase = Verdict(r, armFile), !.file = armFile]]
    /\ UNCHANGED <<clock, kill, metrics, packets, armFile, writes, console, landed, ledger>>

(* No signer key, no transaction in the order, or an error of the order    *)
(* or of the signer.  Nothing is checked again after the awaits.           *)
OrderAndSign(r) ==
    /\ run[r].phase = "checked"
    /\ \E phase \in {"signed", "blocked", "raised"} : Go(r, phase)
    /\ UNCHANGED <<clock, kill, metrics, packets, armFile, writes, console, landed, ledger>>

(* The execution is sent.  A success with a signature has landed; any      *)
(* other answer, or none before the timeout, says nothing about the chain. *)
Execute(r) ==
    /\ run[r].phase = "signed"
    /\ \E lands, answered, signature, success \in BOOLEAN :
          /\ answered /\ signature /\ success => lands
          /\ landed' = IF lands THEN landed \cup {r} ELSE landed
          /\ run' = [run EXCEPT ![r] = [@ EXCEPT !.phase = IF answered THEN "answered"
                                                           ELSE "unanswered",
                                                 !.signature = signature, !.success = success]]
    /\ UNCHANGED <<clock, kill, metrics, packets, armFile, writes, console, ledger>>

SuccessByStatus(r) == run[r].success
Success(r) == run[r].success /\ run[r].signature

AppendLedger(r) ==
    /\ run[r].phase = "answered"
    /\ ledger' = Append(ledger, [run |-> r, success |-> Success(r)])
    /\ Go(r, "done")
    /\ UNCHANGED <<clock, kill, metrics, packets, armFile, writes, console, landed>>

(* The process dies, perhaps between the answer and the line of the ledger.*)
RunDies(r) ==
    /\ run[r].phase \in {"started", "ready", "timed", "checked", "signed", "answered"}
    /\ Go(r, IF run[r].phase = "answered" THEN "unrecorded" ELSE "raised")
    /\ UNCHANGED <<clock, kill, metrics, packets, armFile, writes, console, landed, ledger>>

ExecuteSwap(r) ==
    \/ Start(r) \/ CheckReadiness(r) \/ TakeTime(r) \/ CheckArm(r) \/ OrderAndSign(r)
    \/ Execute(r) \/ AppendLedger(r) \/ RunDies(r)

Tick ==
    /\ clock < MaxClock
    /\ clock' = clock + 1
    /\ UNCHANGED <<kill, metrics, packets, armFile, writes, console, run, landed, ledger>>

Next ==
    \/ NewMetrics \/ SetKillSwitch \/ Tick
    \/ ArmAfterReadiness \/ Arm \/ Pause \/ EndWrite \/ ConsoleDies
    \/ \E r \in Runs : ExecuteSwap(r)

Spec == Init /\ [][Next]_vars

-----------------------------------------------------------------------------
ArmStates == [kind : {"none", "torn", "armed", "paused"}, until : Nat, cap : Nat]
Phases == {"new", "started", "ready", "timed", "checked", "signed", "answered", "done",
           "blocked", "raised", "unanswered", "unrecorded"}
RunRecords == [phase : Phases, input : Inputs, amount : Nat, seen : Nat, file : ArmStates,
               at : Nat, signature : BOOLEAN, success : BOOLEAN]

(* Every variable is of its type, and the time of a run is not ahead.      *)
TypeOK ==
    /\ clock \in Nat /\ kill \in BOOLEAN /\ packets \in Nat
    /\ metrics \in {"missing", "weak", "strong"}
    /\ armFile \in ArmStates
    /\ writes \in Seq([command : {"arm", "pause"}, state : ArmStates])
    /\ console \in [phase : {"idle", "passed", "writing"},
                   command : {"none", "arm", "pause"}, next : ArmStates]
    /\ run \in [Runs -> RunRecords]
    /\ landed \subseteq Runs
    /\ ledger \in Seq([run : Runs, success : BOOLEAN])
    /\ \A r \in Runs : run[r].at <= clock /\ run[r].seen <= Len(writes)

(* Whatever landed on the chain was checked against an armed state of the  *)
(* operator: completely written, not expired when the check began, and     *)
(* with a cap that covers a USDC input - however late the reading of the   *)
(* file, the order, the signature and the execution came                   *)
(* (jupiter_micro.py, execute_swap; arm_state.py, status).                 *)
SwapsWereArmed ==
    \A r \in landed :
       LET file == run[r].file IN
           /\ \E i \in 1..Len(writes) : writes[i].state = file
           /\ run[r].at <= file.until
           /\ run[r].input = "USDC" => run[r].amount <= file.cap

(* A pause stops every swap that starts after it: what landed ran under    *)
(* the last command before its start, or a later one, and that command was *)
(* an arming (arm_state.py, pause and status).                             *)
PauseStopsLaterSwaps ==
    \A r \in landed :
       \E i \in 1..Len(writes) :
          i >= run[r].seen /\ writes[i] = [command |-> "arm", state |-> run[r].file]

(* The ledger does not invent a swap.  It misses one only if its run never *)
(* read an answer - an error, a timeout, a death while it waited - or if   *)
(* the run has its answer and the line is still to come, or ended in       *)
(* between (jupiter_micro.py:91-106, _append_ledger).  A run that goes on  *)
(* after its answer leaves a line, whatever the answer was.                *)
LedgerMatchesChain ==
    /\ \A i \in 1..Len(ledger) : ledger[i].success => ledger[i].run \in landed
    /\ \A r \in landed : run[r].phase \in {"unanswered", "answered", "unrecorded"}
                         \/ \E i \in 1..Len(ledger) : ledger[i].run = r
====
