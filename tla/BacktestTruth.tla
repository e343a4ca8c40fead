--------------------------- MODULE BacktestTruth ----------------------------
(***************************************************************************)
(* BacktestTruthOwner: the book of one replayed session, and what its three *)
(* calls do to it, each in one commit.  Amounts are integers; a fill's      *)
(* amounts and fee are exact and the part of the cost basis that a sale     *)
(* takes out is rounded.  A book has the position of one mint: the only     *)
(* caller in src trades SOL.                                                *)
(***************************************************************************)
EXTENDS Integers, Sequences

(* backtest_fill_v1 and backtest_session_report_v1.  A report is read back   *)
(* for its cash.                                                             *)
FillRow == [at: Nat, side: {"buy", "sell"}, usdc: Nat, tokens: Nat, fee: Nat]
ReportRow == [at: Nat, type: {"session_snapshot", "session_close"}, cash: Int, realized: Int]

(* backtest_session_v1 and its backtest_position_v1; no row is no holding.   *)
Book == [status: {"open", "closed"}, feeBps: Nat, starting: Nat,
         tokens: Int, basis: Int, realized: Int,
         fills: Seq(FillRow), reports: Seq(ReportRow)]

(* open_spot_session. *)
NewBook(starting, feeBps) ==
  [status |-> "open", feeBps |-> feeBps, starting |-> starting,
   tokens |-> 0, basis |-> 0, realized |-> 0, fills |-> << >>, reports |-> << >>]

(* _current_cash: the latest report's, and before the first the starting cash. *)
CurrentCash(book) ==
  IF book.reports = << >> THEN book.starting
  ELSE book.reports[Len(book.reports)].cash

(* _compute_fee_usdc: both sides pay on their USDC amount. *)
FeeOf(book, usdc) == (usdc * book.feeBps) \div 10000

FillTime(book) == IF book.fills = << >> THEN -1 ELSE book.fills[Len(book.fills)].at

(* record_fill's own checks: an open session, an event after the last fill's, *)
(* positive amounts.                                                          *)
Recordable(book, at, usdc, tokens) ==
  /\ book.status = "open"
  /\ FillTime(book) < at
  /\ usdc > 0 /\ tokens > 0

BuyAccepted(book, at, usdc, tokens) ==
  /\ Recordable(book, at, usdc, tokens)
  /\ usdc + FeeOf(book, usdc) <= CurrentCash(book)

SellAccepted(book, at, usdc, tokens) ==
  /\ Recordable(book, at, usdc, tokens)
  /\ 0 < book.tokens /\ tokens <= book.tokens

Snapshot(at, cash, realized) ==
  [at |-> at, type |-> "session_snapshot", cash |-> cash, realized |-> realized]

(* The fee of a buy is part of what the position cost. *)
Bought(book, at, usdc, tokens) ==
  LET fee == FeeOf(book, usdc) IN
  [book EXCEPT
     !.tokens = @ + tokens,
     !.basis = @ + usdc + fee,
     !.fills = Append(@, [at |-> at, side |-> "buy", usdc |-> usdc, tokens |-> tokens,
                          fee |-> fee]),
     !.reports = Append(@, Snapshot(at, CurrentCash(book) - usdc - fee, book.realized))]

(* The share of the basis that the sold tokens cost: all of it for all of them. *)
CostPortion(book, tokens) == (book.basis * tokens) \div book.tokens

(* Mutant: the fee of a sale is left out of its result. *)
SoldGross(book, at, usdc, tokens) ==
  LET fee == FeeOf(book, usdc)
      realized == book.realized + usdc - CostPortion(book, tokens)
  IN
  [book EXCEPT
     !.tokens = @ - tokens,
     !.basis = @ - CostPortion(book, tokens),
     !.realized = realized,
     !.fills = Append(@, [at |-> at, side |-> "sell", usdc |-> usdc, tokens |-> tokens,
                          fee |-> fee]),
     !.reports = Append(@, Snapshot(at, CurrentCash(book) + usdc - fee, realized))]

Sold(book, at, usdc, tokens) ==
  LET fee == FeeOf(book, usdc)
      realized == book.realized + usdc - fee - CostPortion(book, tokens)
  IN
  [book EXCEPT
     !.tokens = @ - tokens,
     !.basis = @ - CostPortion(book, tokens),
     !.realized = realized,
     !.fills = Append(@, [at |-> at, side |-> "sell", usdc |-> usdc, tokens |-> tokens,
                          fee |-> fee]),
     !.reports = Append(@, Snapshot(at, CurrentCash(book) + usdc - fee, realized))]

(* close_session without marks: refused while tokens are held. *)
CloseAccepted(book) == book.status = "open" /\ book.tokens <= 0

Closed(book, at) ==
  [book EXCEPT
     !.status = "closed",
     !.reports = Append(@, [at |-> at, type |-> "session_close", cash |-> CurrentCash(book),
                            realized |-> book.realized])]
=============================================================================
