---------------------------- MODULE PaperLedger -----------------------------
(***************************************************************************)
(* What settlement promises of the paper sessions it owns, whoever drives   *)
(* it.  A session is recorded once, filled or skipped.  A filled one is     *)
(* open until it is sold once, in full, and its books then say what was     *)
(* spent and what was received.  Closed and skipped sessions never change.  *)
(*                                                                          *)
(* Each action names the amounts of a step by the row the step writes, so   *)
(* that TLC can decide whether a given step is one of this module's.        *)
(***************************************************************************)
EXTENDS Integers, Sequences

VARIABLE ledger

Entry == [status: {"open", "closed", "skipped"}, bought: Nat, sold: Nat,
          spent: Nat, received: Nat, ending: Nat, pnl: Int]

Skipped(cash) ==
  [status |-> "skipped", bought |-> 0, sold |-> 0, spent |-> cash,
   received |-> 0, ending |-> cash, pnl |-> 0]

Bought(qty, cash) ==
  [status |-> "open", bought |-> qty, sold |-> 0, spent |-> cash,
   received |-> 0, ending |-> 0, pnl |-> 0]

Sold(entry, cash) ==
  [status |-> "closed", bought |-> entry.bought, sold |-> entry.bought,
   spent |-> entry.spent, received |-> cash, ending |-> cash,
   pnl |-> cash - entry.spent]

Init == ledger = << >>

(* A settlement attempt adds one session, which bought something for some   *)
(* cash or did not buy at all.                                              *)
Settle ==
  /\ Len(ledger') = Len(ledger) + 1
  /\ LET entry == ledger'[Len(ledger')] IN
       /\ ledger' = Append(ledger, entry)
       /\ \/ entry = Skipped(entry.spent)
          \/ /\ entry.bought > 0 /\ entry.spent > 0
             /\ entry = Bought(entry.bought, entry.spent)

(* The sale of all of one open session. *)
Close(s) ==
  /\ ledger[s].status = "open"
  /\ Len(ledger') = Len(ledger)
  /\ ledger' = [ledger EXCEPT ![s] = Sold(ledger[s], ledger'[s].received)]

Next == Settle \/ \E s \in DOMAIN ledger : Close(s)

Spec == Init /\ [][Next]_ledger
=============================================================================
