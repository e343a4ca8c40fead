---- MODULE WalkForwardProofs ----
(***************************************************************************)
(* Theorems of WalkForward, for any windows, profiles, prices, fees and    *)
(* scores, and any number of trades, sessions and deaths.                  *)
(***************************************************************************)
EXTENDS WalkForward, TLAPS, FiniteSetTheorems

(* What is held follows from the fills: nothing, or what the last one bought. *)
Holds(tokens, fills) ==
  IF Len(fills) % 2 = 0 THEN tokens = 0
  ELSE tokens = fills[Len(fills)].tokens /\ tokens > 0

(* TradesInTurn of one book, its trades in first .. last. *)
Turn(i, row, before, first, last, stop) ==
  /\ first <= row.at /\ row.at <= last
  /\ row.side = IF i % 2 = 1 THEN "buy" ELSE "sell"
  /\ i > 1 => before.at < row.at
  /\ i % 2 = 0 => row.tokens = before.tokens /\ row.at - before.at <= stop

InTurn(fills, first, last, stop) ==
  \A i \in 1 .. Len(fills) : Turn(i, fills[i], fills[i - 1], first, last, stop)

(* What a book keeps to, said of its fields. *)
Sound(bps, starting, cash, tokens, basis, realized) ==
  /\ bps <= 10000 /\ cash + basis - realized = starting
  /\ cash >= 0 /\ tokens >= 0 /\ basis >= 0 /\ (tokens = 0 => basis = 0)

BookInv(book, first, last, stop) ==
  /\ book \in Book
  /\ Sound(book.feeBps, book.starting, CurrentCash(book), book.tokens, book.basis,
           book.realized)
  /\ Holds(book.tokens, book.fills) /\ InTurn(book.fills, first, last, stop)

SessionInv(s) ==
  BookInv(sessions[s].book, FirstBar(sessions[s].window), WindowEnds[sessions[s].window],
          revisions[sessions[s].revision].profile.timeStop)

BooksInv == \A s \in DOMAIN sessions : SessionInv(s)

(* Where the run is. *)
Opened == {"open", "replay", "settle", "close", "review"}
Replaying == {"replay", "settle", "close", "review"}

WalkInv ==
  /\ walk.stage # "off" => walk.run >= 1 /\ walk.window \in 1 .. Len(WindowEnds) + 1
  /\ walk.stage \in Opened => walk.window \in Windows /\ walk.revision \in DOMAIN revisions
  /\ walk.stage \in Replaying =>
       /\ sessions # << >> /\ sessions[Current].run = walk.run
       /\ sessions[Current].window = walk.window /\ sessions[Current].revision = walk.revision

(* The history reaches as far as the run. *)
HistoryInv ==
  /\ walk.stage \in {"window", "open"} /\ walk.window > 1 =>
       WindowEnds[walk.window - 1] <= Len(history)
  /\ walk.stage = "replay" =>
       FirstBar(walk.window) <= walk.bar /\ walk.bar <= LastBar + 1 /\ walk.bar <= Len(history) + 1
  /\ walk.stage \in {"settle", "close", "review"} => LastBar <= Len(history)

(* What the run remembers of its position is what the book says. *)
Position(book, bar, entry, cost, stop) ==
  /\ book.status = "open" /\ FillTime(book) < bar
  /\ entry = 0 <=> book.tokens = 0
  /\ entry # 0 => FillTime(book) = entry /\ cost > 0 /\ bar - entry <= stop

PositionInv ==
  /\ walk.stage \in {"replay", "settle"} =>
       Position(CurrentBook, walk.bar, walk.entry, walk.cost, LoadedProfile.timeStop)
  /\ walk.stage = "settle" => walk.entry # 0 /\ walk.bar = LastBar + 1
  /\ walk.stage = "close" => CurrentBook.status = "open" /\ CurrentBook.tokens = 0
  /\ walk.stage = "review" => CurrentBook.status = "closed" /\ CurrentBook.tokens = 0

(* The windows that the run in progress has opened. *)
Begun == IF walk.stage \in Replaying THEN walk.window ELSE walk.window - 1

Finished(s) == sessions[s].book.status = "closed" /\ sessions[s].book.tokens = 0

LadderInv ==
  /\ CompletedLadder
  /\ \A s \in DOMAIN sessions : sessions[s].run <= walk.run
  /\ walk.stage # "off" =>
       /\ walk.run \notin ladders
       /\ \A w \in 1 .. Begun : \E s \in DOMAIN sessions :
            sessions[s].run = walk.run /\ sessions[s].window = w
       /\ \A s \in DOMAIN sessions : sessions[s].run = walk.run =>
            /\ sessions[s].window <= Begun
            /\ Finished(s) \/ (walk.stage \in Replaying /\ s = Current)
            /\ \A t \in DOMAIN sessions : sessions[t].run = walk.run /\ s < t =>
                 sessions[s].window < sessions[t].window

(* From the load to the close of a window the profile it was loaded with is *)
(* the active one, and its book has taught nothing yet.                     *)
LessonInv ==
  /\ LessonsInOrder /\ revisions[1].source = 0
  /\ walk.stage \in Opened \ {"review"} => walk.revision = Len(revisions)
  /\ walk.stage \in Replaying =>
       /\ \A r \in DOMAIN revisions : revisions[r].source # Current
       /\ \A r \in walk.revision + 1 .. Len(revisions) : revisions[r].source = 0

IInv ==
  /\ TypeOK /\ WalkInv /\ HistoryInv /\ BooksInv
  /\ PositionInv /\ LadderInv /\ LessonInv

-----------------------------------------------------------------------------
(* The arithmetic of a book. *)

LEMMA AppendRow ==
  ASSUME NEW S, NEW rows \in Seq(S), NEW row \in S
  PROVE  /\ Append(rows, row) \in Seq(S)
         /\ Len(rows) \in Nat /\ Len(Append(rows, row)) = Len(rows) + 1
         /\ DOMAIN rows = 1 .. Len(rows) /\ DOMAIN Append(rows, row) = 1 .. Len(rows) + 1
         /\ \A i \in 1 .. Len(rows) : Append(rows, row)[i] = rows[i]
         /\ Append(rows, row)[Len(rows) + 1] = row
  OBVIOUS

(* A fee is no more than the amount it is taken of. *)
LEMMA FeeBound ==
  ASSUME NEW usdc \in Nat, NEW bps \in Nat, bps <= 10000
  PROVE  /\ (usdc * bps) \div 10000 \in Nat
         /\ (usdc * bps) \div 10000 <= usdc
  <1>1. 0 <= usdc * bps /\ usdc * bps <= usdc * 10000
    OBVIOUS
  <1> DEFINE n == usdc * bps
  <1>2. n \in Nat /\ n <= usdc * 10000
    BY <1>1
  <1> HIDE DEF n
  <1>3. n \div 10000 \in Nat /\ n \div 10000 <= usdc
    BY <1>2
  <1> QED BY <1>3 DEF n

(* All of a position costs all of its basis. *)
LEMMA WholeBasis ==
  ASSUME NEW basis \in Int, NEW tokens \in Nat \ {0}
  PROVE  (basis * tokens) \div tokens = basis
  OBVIOUS

LEMMA EvenOdd ==
  ASSUME NEW n \in Nat
  PROVE  /\ n % 2 = 0 => (n + 1) % 2 = 1
         /\ n % 2 # 0 => n % 2 = 1 /\ (n + 1) % 2 = 0 /\ n >= 1
  OBVIOUS

LEMMA TurnOfNext ==
  ASSUME NEW n \in Nat, NEW i, i = n + 1,
         NEW row, NEW before, NEW first, NEW last, NEW stop,
         first <= row.at, row.at <= last,
         row.side = IF n % 2 = 0 THEN "buy" ELSE "sell",
         n # 0 => before.at < row.at,
         n % 2 # 0 => row.tokens = before.tokens /\ row.at - before.at <= stop
  PROVE  Turn(i, row, before, first, last, stop)
  <1>1. CASE n % 2 = 0
    <2>1. i % 2 = 1 /\ i % 2 # 0 /\ (i > 1 => n # 0)
      BY <1>1, EvenOdd
    <2> QED BY <1>1, <2>1 DEF Turn
  <1>2. CASE n % 2 # 0
    <2>1. i % 2 = 0 /\ i % 2 # 1 /\ n # 0
      BY <1>2, EvenOdd
    <2> QED BY <1>2, <2>1 DEF Turn
  <1> QED BY <1>1, <1>2

(* Of a first trade nothing is said that came before it. *)
LEMMA TurnOfFirst ==
  ASSUME NEW row, NEW before, NEW other, NEW first, NEW last, NEW stop,
         Turn(1, row, before, first, last, stop)
  PROVE  Turn(1, row, other, first, last, stop)
  BY DEF Turn

(* A fill later than the others keeps the trades in turn. *)
LEMMA NextTurn ==
  ASSUME NEW first \in Int, NEW last \in Int, NEW stop \in Int,
         NEW fills \in Seq(FillRow), NEW row \in FillRow,
         InTurn(fills, first, last, stop), first <= row.at, row.at <= last,
         row.side = IF Len(fills) % 2 = 0 THEN "buy" ELSE "sell",
         fills # << >> => fills[Len(fills)].at < row.at,
         Len(fills) % 2 # 0 => /\ row.tokens = fills[Len(fills)].tokens
                               /\ row.at - fills[Len(fills)].at <= stop
  PROVE  InTurn(Append(fills, row), first, last, stop)
  <1> DEFINE next == Append(fills, row)
             n == Len(fills)
  <1>1. /\ n \in Nat /\ Len(next) = n + 1
        /\ \A i \in 1 .. n : next[i] = fills[i]
        /\ next[n + 1] = row
    BY AppendRow
  <1>2. n # 0 => fills # << >> /\ next[n] = fills[n]
    BY <1>1
  <1> HIDE DEF next
  <1>3. ASSUME NEW i \in 1 .. n
        PROVE  Turn(i, next[i], next[i - 1], first, last, stop)
    <2>1. Turn(i, fills[i], fills[i - 1], first, last, stop)
      BY DEF InTurn
    <2>2. next[i] = fills[i]
      BY <1>1
    <2>3. CASE i = 1
      BY <2>1, <2>2, <2>3, TurnOfFirst
    <2>4. CASE i # 1
      <3>1. i - 1 \in 1 .. n
        BY <1>1, <2>4
      <3>2. next[i - 1] = fills[i - 1]
        BY <1>1, <3>1
      <3> QED BY <2>1, <2>2, <3>2
    <2> QED BY <2>3, <2>4
  <1>4. ASSUME NEW i, i = n + 1
        PROVE  Turn(i, next[i], next[i - 1], first, last, stop)
    <2>1. i - 1 = n /\ next[i] = row
      BY <1>1, <1>4
    <2>2. n # 0 => next[n].at < row.at
      BY <1>2
    <2>3. n % 2 # 0 => n # 0
      BY <1>1, EvenOdd
    <2>4. n % 2 # 0 => row.tokens = next[n].tokens /\ row.at - next[n].at <= stop
      BY <1>2, <2>3
    <2> DEFINE before == next[n]
    <2> HIDE DEF before
    <2>5. /\ n # 0 => before.at < row.at
          /\ n % 2 # 0 => row.tokens = before.tokens /\ row.at - before.at <= stop
          /\ row.side = IF n % 2 = 0 THEN "buy" ELSE "sell"
      BY <2>2, <2>4 DEF before
    <2> HIDE DEF n
    <2>6. Turn(i, row, before, first, last, stop)
      BY <1>1, <1>4, <2>5, TurnOfNext
    <2> QED BY <2>1, <2>6 DEF before
  <1>5. ASSUME NEW i \in 1 .. Len(next)
        PROVE  Turn(i, next[i], next[i - 1], first, last, stop)
    <2>1. i \in 1 .. n \/ i = n + 1
      BY <1>1
    <2> HIDE DEF n
    <2> QED BY <1>3, <1>4, <2>1
  <1> QED BY <1>5 DEF InTurn, next

LEMMA LastRow ==
  ASSUME NEW S, NEW rows \in Seq(S), NEW row \in S
  PROVE  /\ Append(rows, row) # << >> /\ Append(rows, row)[Len(Append(rows, row))] = row
         /\ rows # << >> => rows[Len(rows)] \in S
         /\ Len(rows) \in Nat /\ Len(Append(rows, row)) = Len(rows) + 1
         /\ Len(rows) % 2 # 0 => rows # << >>
  <1>1. /\ Len(rows) \in Nat /\ Len(Append(rows, row)) = Len(rows) + 1
        /\ Append(rows, row)[Len(rows) + 1] = row
    BY AppendRow
  <1>2. Append(rows, row) # << >>
    <2> DEFINE more == Append(rows, row)
    <2>1. Len(more) # 0
      BY <1>1
    <2> HIDE DEF more
    <2>2. more # << >>
      BY <2>1
    <2> QED BY <2>2 DEF more
  <1>3. rows # << >> => rows[Len(rows)] \in S
    OBVIOUS
  <1>4. Len(rows) % 2 # 0 => rows # << >>
    <2>1. Len(rows) % 2 # 0 => Len(rows) >= 1
      BY <1>1, EvenOdd
    <2>2. rows = << >> => ~(Len(rows) >= 1)
      OBVIOUS
    <2> QED BY <2>1, <2>2, Zenon
  <1> QED BY <1>1, <1>2, <1>3, <1>4

LEMMA BookTyped ==
  ASSUME NEW book \in Book
  PROVE  /\ book.status \in {"open", "closed"} /\ book.feeBps \in Nat /\ book.starting \in Nat
         /\ book.tokens \in Int /\ book.basis \in Int /\ book.realized \in Int
         /\ book.fills \in Seq(FillRow) /\ book.reports \in Seq(ReportRow)
  BY DEF Book

LEMMA CashTyped ==
  ASSUME NEW book \in Book
  PROVE  CurrentCash(book) \in Int
  <1> DEFINE rows == book.reports
             last == rows[Len(rows)]
  <1>1. rows \in Seq(ReportRow) /\ book.starting \in Nat
    BY BookTyped
  <1>2. rows # << >> => last \in ReportRow
    BY <1>1
  <1>3. last \in ReportRow => last.cash \in Int
    BY DEF ReportRow
  <1>4. CurrentCash(book) = IF rows = << >> THEN book.starting ELSE last.cash
    BY DEF CurrentCash
  <1> HIDE DEF rows, last
  <1> QED BY <1>1, <1>2, <1>3, <1>4

(* The latest cash and the latest fill after another report and another fill. *)
LEMMA CashAfter ==
  ASSUME NEW rows \in Seq(ReportRow), NEW report \in ReportRow, NEW next,
         next.reports = Append(rows, report)
  PROVE  CurrentCash(next) = report.cash
  <1>1. Append(rows, report) # << >> /\ Append(rows, report)[Len(Append(rows, report))] = report
    BY LastRow
  <1> QED BY <1>1 DEF CurrentCash

LEMMA FillAfter ==
  ASSUME NEW rows \in Seq(FillRow), NEW row \in FillRow, NEW next,
         next.fills = Append(rows, row)
  PROVE  FillTime(next) = row.at
  <1>1. Append(rows, row) # << >> /\ Append(rows, row)[Len(Append(rows, row))] = row
    BY LastRow
  <1> QED BY <1>1 DEF FillTime

(* Whether something is held says how many fills there were. *)
LEMMA HoldsParity ==
  ASSUME NEW tokens \in Int, NEW fills, Holds(tokens, fills)
  PROVE  /\ tokens = 0 => Len(fills) % 2 = 0
         /\ tokens > 0 => Len(fills) % 2 # 0 /\ tokens = fills[Len(fills)].tokens
  <1>1. CASE Len(fills) % 2 = 0
    BY <1>1 DEF Holds
  <1>2. CASE Len(fills) % 2 # 0
    <2>1. tokens = fills[Len(fills)].tokens /\ tokens > 0
      BY <1>2 DEF Holds
    <2> QED BY <1>2, <2>1
  <1> QED BY <1>1, <1>2

LEMMA NewBookInv ==
  ASSUME NEW starting \in Nat, NEW bps \in Nat, bps <= 10000, NEW first, NEW last, NEW stop
  PROVE  /\ BookInv(NewBook(starting, bps), first, last, stop)
         /\ NewBook(starting, bps).status = "open" /\ NewBook(starting, bps).tokens = 0
         /\ FillTime(NewBook(starting, bps)) = -1
  <1> DEFINE book == NewBook(starting, bps)
  <1>1. /\ book.fills = << >> /\ book.reports = << >> /\ book.tokens = 0 /\ book.basis = 0
        /\ book.realized = 0 /\ book.starting = starting /\ book.feeBps = bps
        /\ book.status = "open"
    BY DEF NewBook
  <1>2. book \in Book
    <2>1. << >> \in Seq(FillRow) /\ << >> \in Seq(ReportRow)
      OBVIOUS
    <2> DEFINE none == << >>
    <2> HIDE DEF none
    <2>2. none \in Seq(FillRow) /\ none \in Seq(ReportRow)
      BY <2>1 DEF none
    <2>3. [status |-> "open", feeBps |-> bps, starting |-> starting, tokens |-> 0, basis |-> 0,
           realized |-> 0, fills |-> none, reports |-> none] \in Book
      BY <2>2 DEF Book
    <2> QED BY <2>3 DEF NewBook, none
  <1> HIDE DEF book
  <1>3. CurrentCash(book) = starting
    BY <1>1 DEF CurrentCash
  <1>4. Sound(bps, starting, starting, 0, 0, 0)
    BY DEF Sound
  <1>5. Len(<< >>) = 0 /\ Holds(0, << >>)
    BY DEF Holds
  <1>6. InTurn(<< >>, first, last, stop)
    BY DEF InTurn
  <1>7. FillTime(book) = -1
    BY <1>1 DEF FillTime
  <1> QED BY <1>1, <1>2, <1>3, <1>4, <1>5, <1>6, <1>7 DEF BookInv, book

LEMMA BookParts ==
  ASSUME NEW book, NEW first, NEW last, NEW stop, BookInv(book, first, last, stop)
  PROVE  /\ book \in Book /\ book.feeBps \in Nat /\ book.starting \in Nat
         /\ book.status \in {"open", "closed"}
         /\ book.tokens \in Int /\ book.basis \in Int /\ book.realized \in Int
         /\ book.fills \in Seq(FillRow) /\ book.reports \in Seq(ReportRow)
         /\ CurrentCash(book) \in Int
         /\ Sound(book.feeBps, book.starting, CurrentCash(book), book.tokens, book.basis,
                  book.realized)
         /\ Holds(book.tokens, book.fills) /\ InTurn(book.fills, first, last, stop)
  <1>1. book \in Book
    BY DEF BookInv
  <1> QED BY <1>1, BookTyped, CashTyped DEF BookInv

LEMMA FeeTyped ==
  ASSUME NEW book, book.feeBps \in Nat, book.feeBps <= 10000, NEW usdc \in Nat
  PROVE  FeeOf(book, usdc) \in Nat /\ FeeOf(book, usdc) <= usdc
  <1> DEFINE bps == book.feeBps
  <1>1. bps \in Nat /\ bps <= 10000
    OBVIOUS
  <1> HIDE DEF bps
  <1>2. (usdc * bps) \div 10000 \in Nat /\ (usdc * bps) \div 10000 <= usdc
    BY <1>1, FeeBound
  <1> QED BY <1>2 DEF FeeOf, bps

(* An accepted purchase, said of the fields. *)
LEMMA SoundBought ==
  ASSUME NEW bps \in Nat, NEW starting \in Nat, NEW cash \in Int, NEW tokens \in Int,
         NEW basis \in Int, NEW realized \in Int,
         Sound(bps, starting, cash, tokens, basis, realized),
         NEW usdc \in Int, NEW more \in Int, usdc > 0, more > 0,
         NEW fee \in Nat, usdc + fee <= cash
  PROVE  Sound(bps, starting, cash - usdc - fee, tokens + more, basis + usdc + fee, realized)
  BY DEF Sound

(* The sale of all that is held. *)
LEMMA SoundSold ==
  ASSUME NEW bps \in Nat, NEW starting \in Nat, NEW cash \in Int, NEW tokens \in Int,
         NEW basis \in Int, NEW realized \in Int,
         Sound(bps, starting, cash, tokens, basis, realized),
         NEW usdc \in Int, NEW fee \in Nat, fee <= usdc
  PROVE  Sound(bps, starting, cash + usdc - fee, 0, 0, realized + usdc - fee - basis)
  BY DEF Sound

LEMMA BoughtInv ==
  ASSUME NEW first \in Int, NEW last \in Int, NEW stop \in Int,
         NEW book, BookInv(book, first, last, stop),
         NEW at \in Nat, NEW usdc \in Int, NEW tokens \in Int,
         book.tokens = 0, BuyAccepted(book, at, usdc, tokens), first <= at, at <= last
  PROVE  /\ BookInv(Bought(book, at, usdc, tokens), first, last, stop)
         /\ Bought(book, at, usdc, tokens).tokens > 0
         /\ FillTime(Bought(book, at, usdc, tokens)) = at
         /\ Bought(book, at, usdc, tokens).status = "open"
         /\ usdc > 0
  <1> DEFINE fee == FeeOf(book, usdc)
             cash == CurrentCash(book) - usdc - fee
             basis == book.basis + usdc + fee
             held == book.tokens + tokens
             row == [at |-> at, side |-> "buy", usdc |-> usdc, tokens |-> tokens, fee |-> fee]
             report == Snapshot(at, cash, book.realized)
             fills == Append(book.fills, row)
             reports == Append(book.reports, report)
             next == Bought(book, at, usdc, tokens)
  <1>1. /\ book \in Book /\ book.feeBps \in Nat /\ book.starting \in Nat
        /\ book.status \in {"open", "closed"}
        /\ book.tokens \in Int /\ book.basis \in Int /\ book.realized \in Int
        /\ book.fills \in Seq(FillRow) /\ book.reports \in Seq(ReportRow)
        /\ CurrentCash(book) \in Int
        /\ Sound(book.feeBps, book.starting, CurrentCash(book), book.tokens, book.basis,
                 book.realized)
        /\ Holds(book.tokens, book.fills) /\ InTurn(book.fills, first, last, stop)
    BY BookParts
  <1>2. /\ usdc > 0 /\ tokens > 0 /\ book.status = "open" /\ FillTime(book) < at
        /\ usdc + fee <= CurrentCash(book)
    BY DEF BuyAccepted, Recordable
  <1>3. fee \in Nat /\ Sound(book.feeBps, book.starting, cash, held, basis, book.realized)
    <2> DEFINE bps == book.feeBps
               starting == book.starting
               cash0 == CurrentCash(book)
               tokens0 == book.tokens
               basis0 == book.basis
               realized == book.realized
    <2>1. /\ bps \in Nat /\ starting \in Nat /\ cash0 \in Int /\ tokens0 \in Int
          /\ basis0 \in Int /\ realized \in Int
          /\ Sound(bps, starting, cash0, tokens0, basis0, realized)
          /\ usdc + fee <= cash0 /\ fee \in Nat
      <3>1. book.feeBps \in Nat /\ book.feeBps <= 10000
        BY <1>1 DEF Sound
      <3>2. fee \in Nat
        BY <1>2, <3>1, FeeTyped
      <3> QED BY <1>1, <1>2, <3>2
    <2> HIDE DEF bps, starting, cash0, tokens0, basis0, realized, fee
    <2>2. Sound(bps, starting, cash0 - usdc - fee, tokens0 + tokens, basis0 + usdc + fee,
                realized)
      BY <1>2, <2>1, SoundBought
    <2> QED BY <2>1, <2>2 DEF bps, starting, cash0, tokens0, basis0, realized
  <1>4. held = tokens /\ held \in Int
    OBVIOUS
  <1>5. cash \in Int /\ basis \in Int
    <2> DEFINE cash0 == CurrentCash(book)
               basis0 == book.basis
    <2>1. cash0 \in Int /\ basis0 \in Int /\ fee \in Nat
      BY <1>1, <1>3, Zenon
    <2> HIDE DEF cash0, basis0, fee
    <2>2. cash0 - usdc - fee \in Int /\ basis0 + usdc + fee \in Int
      BY <2>1
    <2> QED BY <2>2 DEF cash0, basis0
  <1>6. next = [book EXCEPT !.tokens = held, !.basis = basis, !.fills = fills,
                            !.reports = reports]
    BY <1>1 DEF Bought, Book
  <1> HIDE DEF fee, cash, basis, held, next
  <1>7. row \in FillRow /\ row.at = at /\ row.side = "buy" /\ row.tokens = tokens
    BY <1>2, <1>3 DEF FillRow
  <1>8. report \in ReportRow /\ report.cash = cash
    BY <1>1, <1>5 DEF ReportRow, Snapshot
  <1> HIDE DEF row, report
  <1>9. fills \in Seq(FillRow) /\ reports \in Seq(ReportRow)
    BY <1>1, <1>7, <1>8, AppendRow
  <1>10. Len(book.fills) % 2 = 0
    BY <1>1, HoldsParity
  <1>11. /\ fills[Len(fills)] = row /\ Len(fills) = Len(book.fills) + 1
         /\ Len(book.fills) \in Nat
    BY <1>1, <1>7, LastRow
  <1>12. Holds(tokens, fills)
    <2> DEFINE n == Len(book.fills)
               m == Len(fills)
    <2>1. n \in Nat /\ n % 2 = 0 /\ m = n + 1
      BY <1>10, <1>11
    <2> HIDE DEF n, m
    <2>2. m % 2 # 0
      BY <2>1
    <2>4. Len(fills) % 2 # 0
      BY <2>2 DEF m
    <2>3. tokens = fills[Len(fills)].tokens
      BY <1>7, <1>11
    <2> QED BY <1>2, <2>3, <2>4 DEF Holds
  <1>13. book.fills # << >> => book.fills[Len(book.fills)].at < at
    BY <1>2 DEF FillTime
  <1>14. InTurn(fills, first, last, stop)
    BY <1>1, <1>7, <1>10, <1>13, NextTurn
  <1> HIDE DEF fills, reports
  <1>15. /\ next \in Book /\ next.status = book.status /\ next.tokens = held
         /\ next.basis = basis /\ next.realized = book.realized /\ next.fills = fills
         /\ next.reports = reports /\ next.starting = book.starting
         /\ next.feeBps = book.feeBps
    <2>1. book \in Book /\ held \in Int /\ basis \in Int
      BY <1>1, <1>4, <1>5
    <2> QED BY <1>6, <1>9, <2>1 DEF Book
  <1>16. CurrentCash(next) = cash
    BY <1>1, <1>8, <1>15, CashAfter DEF reports
  <1>17. FillTime(next) = at
    BY <1>1, <1>7, <1>15, FillAfter DEF fills
  <1>18. BookInv(next, first, last, stop)
    BY <1>3, <1>4, <1>12, <1>14, <1>15, <1>16 DEF BookInv
  <1> QED BY <1>2, <1>4, <1>15, <1>17, <1>18 DEF next

LEMMA SoldInv ==
  ASSUME NEW first \in Int, NEW last \in Int, NEW stop \in Int,
         NEW book, BookInv(book, first, last, stop),
         NEW at \in Nat, NEW usdc \in Int,
         SellAccepted(book, at, usdc, book.tokens), first <= at, at <= last,
         at - FillTime(book) <= stop
  PROVE  /\ BookInv(Sold(book, at, usdc, book.tokens), first, last, stop)
         /\ Sold(book, at, usdc, book.tokens).tokens = 0
         /\ FillTime(Sold(book, at, usdc, book.tokens)) = at
         /\ Sold(book, at, usdc, book.tokens).status = "open"
  <1> DEFINE fee == FeeOf(book, usdc)
             cost == CostPortion(book, book.tokens)
             cash == CurrentCash(book) + usdc - fee
             basis == book.basis - cost
             held == book.tokens - book.tokens
             realized == book.realized + usdc - fee - cost
             row == [at |-> at, side |-> "sell", usdc |-> usdc, tokens |-> book.tokens,
                     fee |-> fee]
             report == Snapshot(at, cash, realized)
             fills == Append(book.fills, row)
             reports == Append(book.reports, report)
             next == Sold(book, at, usdc, book.tokens)
  <1>1. /\ book \in Book /\ book.feeBps \in Nat /\ book.starting \in Nat
        /\ book.status \in {"open", "closed"}
        /\ book.tokens \in Int /\ book.basis \in Int /\ book.realized \in Int
        /\ book.fills \in Seq(FillRow) /\ book.reports \in Seq(ReportRow)
        /\ CurrentCash(book) \in Int
        /\ Sound(book.feeBps, book.starting, CurrentCash(book), book.tokens, book.basis,
                 book.realized)
        /\ Holds(book.tokens, book.fills) /\ InTurn(book.fills, first, last, stop)
    BY BookParts
  <1>2. usdc > 0 /\ book.tokens > 0 /\ book.status = "open" /\ FillTime(book) < at
    BY DEF SellAccepted, Recordable
  <1>3. /\ fee \in Nat /\ cost = book.basis
        /\ Sound(book.feeBps, book.starting, cash, 0, 0,
                 book.realized + usdc - fee - cost)
    <2> DEFINE bps == book.feeBps
               starting == book.starting
               cash0 == CurrentCash(book)
               tokens0 == book.tokens
               basis0 == book.basis
               realized0 == book.realized
    <2>1. /\ bps \in Nat /\ starting \in Nat /\ cash0 \in Int /\ tokens0 \in Int
          /\ basis0 \in Int /\ realized0 \in Int /\ tokens0 > 0
          /\ Sound(bps, starting, cash0, tokens0, basis0, realized0)
          /\ fee \in Nat /\ fee <= usdc /\ cost = (basis0 * tokens0) \div tokens0
      <3>1. book.feeBps \in Nat /\ book.feeBps <= 10000
        BY <1>1 DEF Sound
      <3>2. fee \in Nat /\ fee <= usdc
        BY <1>2, <3>1, FeeTyped
      <3> QED BY <1>1, <1>2, <3>2 DEF CostPortion
    <2> HIDE DEF bps, starting, cash0, tokens0, basis0, realized0, fee, cost
    <2>2. cost = basis0
      BY <2>1, WholeBasis
    <2>3. Sound(bps, starting, cash0 + usdc - fee, 0, 0, realized0 + usdc - fee - basis0)
      BY <2>1, SoundSold
    <2> QED BY <2>1, <2>2, <2>3 DEF bps, starting, cash0, tokens0, basis0, realized0
  <1>4. next = [book EXCEPT !.tokens = held, !.basis = basis, !.realized = realized,
                            !.fills = fills, !.reports = reports]
    BY <1>1 DEF Sold, Book
  <1> HIDE DEF fee, cost, next
  <1>5. held = 0 /\ basis = 0
    <2> DEFINE tokens0 == book.tokens
               basis0 == book.basis
    <2>1. tokens0 \in Int /\ basis0 \in Int /\ cost = basis0
      BY <1>1, <1>3
    <2> HIDE DEF tokens0, basis0
    <2>2. tokens0 - tokens0 = 0 /\ basis0 - cost = 0
      BY <2>1
    <2> QED BY <2>2 DEF tokens0, basis0
  <1>6. cash \in Int /\ realized \in Int
    <2> DEFINE cash0 == CurrentCash(book)
               realized0 == book.realized
               basis0 == book.basis
    <2>1. /\ cash0 \in Int /\ realized0 \in Int /\ basis0 \in Int
          /\ fee \in Nat /\ cost = basis0
      BY <1>1, <1>3
    <2> HIDE DEF cash0, realized0, basis0
    <2>2. cash0 + usdc - fee \in Int /\ realized0 + usdc - fee - cost \in Int
      BY <2>1
    <2> QED BY <2>2 DEF cash0, realized0
  <1>7. Sound(book.feeBps, book.starting, cash, 0, 0, realized)
    BY <1>3
  <1> HIDE DEF cash, basis, held, realized
  <1>8. row \in FillRow /\ row.at = at /\ row.side = "sell" /\ row.tokens = book.tokens
    <2>1. usdc \in Nat /\ fee \in Nat
      BY <1>2, <1>3
    <2> DEFINE tokens0 == book.tokens
    <2>2. tokens0 \in Nat
      BY <1>1, <1>2
    <2> HIDE DEF tokens0, fee
    <2>3. [at |-> at, side |-> "sell", usdc |-> usdc, tokens |-> tokens0, fee |-> fee]
            \in FillRow
      BY <2>1, <2>2 DEF FillRow
    <2> QED BY <2>3 DEF tokens0
  <1>9. report \in ReportRow /\ report.cash = cash
    BY <1>6 DEF ReportRow, Snapshot
  <1> HIDE DEF row, report
  <1>10. fills \in Seq(FillRow) /\ reports \in Seq(ReportRow)
    BY <1>1, <1>8, <1>9, AppendRow
  <1>11. Len(book.fills) % 2 # 0 /\ book.tokens = book.fills[Len(book.fills)].tokens
    BY <1>1, <1>2, HoldsParity
  <1>12. /\ Len(fills) = Len(book.fills) + 1 /\ Len(book.fills) \in Nat
         /\ book.fills # << >>
    <2>1. row \in FillRow /\ book.fills \in Seq(FillRow) /\ Len(book.fills) % 2 # 0
      BY <1>1, <1>8, <1>11
    <2> QED BY <2>1, LastRow, Zenon
  <1>13. Holds(0, fills)
    <2>1. Len(fills) % 2 = 0
      BY <1>11, <1>12, EvenOdd
    <2> QED BY <2>1 DEF Holds
  <1>14. FillTime(book) = book.fills[Len(book.fills)].at
    BY <1>12 DEF FillTime
  <1>15. /\ book.fills[Len(book.fills)].at < at
         /\ at - book.fills[Len(book.fills)].at <= stop
    BY <1>2, <1>14
  <1>16. InTurn(fills, first, last, stop)
    BY <1>1, <1>8, <1>11, <1>15, NextTurn
  <1> HIDE DEF fills, reports
  <1>17. /\ next \in Book /\ next.status = book.status /\ next.tokens = held
         /\ next.basis = basis /\ next.realized = realized /\ next.fills = fills
         /\ next.reports = reports /\ next.starting = book.starting
         /\ next.feeBps = book.feeBps
    <2>1. book \in Book /\ held \in Int /\ basis \in Int /\ realized \in Int
      BY <1>1, <1>5, <1>6
    <2> QED BY <1>4, <1>10, <2>1 DEF Book
  <1>18. CurrentCash(next) = cash
    BY <1>1, <1>9, <1>17, CashAfter DEF reports
  <1>19. FillTime(next) = at
    BY <1>1, <1>8, <1>17, FillAfter DEF fills
  <1>20. BookInv(next, first, last, stop)
    BY <1>5, <1>7, <1>13, <1>16, <1>17, <1>18 DEF BookInv
  <1> QED BY <1>2, <1>5, <1>17, <1>19, <1>20 DEF next

LEMMA ClosedInv ==
  ASSUME NEW first, NEW last, NEW stop, NEW book, BookInv(book, first, last, stop),
         NEW at \in Nat
  PROVE  /\ BookInv(Closed(book, at), first, last, stop)
         /\ Closed(book, at).tokens = book.tokens /\ Closed(book, at).status = "closed"
  <1> DEFINE cash == CurrentCash(book)
             report == [at |-> at, type |-> "session_close", cash |-> cash,
                        realized |-> book.realized]
             reports == Append(book.reports, report)
             next == Closed(book, at)
  <1>1. /\ book \in Book /\ book.feeBps \in Nat /\ book.starting \in Nat
        /\ book.status \in {"open", "closed"}
        /\ book.tokens \in Int /\ book.basis \in Int /\ book.realized \in Int
        /\ book.fills \in Seq(FillRow) /\ book.reports \in Seq(ReportRow)
        /\ cash \in Int
        /\ Sound(book.feeBps, book.starting, cash, book.tokens, book.basis, book.realized)
        /\ Holds(book.tokens, book.fills) /\ InTurn(book.fills, first, last, stop)
    BY BookParts
  <1>2. next = [book EXCEPT !.status = "closed", !.reports = reports]
    BY <1>1 DEF Closed, Book
  <1> HIDE DEF cash, next
  <1>3. report \in ReportRow /\ report.cash = cash
    BY <1>1 DEF ReportRow
  <1> HIDE DEF report
  <1>4. reports \in Seq(ReportRow)
    BY <1>1, <1>3, AppendRow
  <1> HIDE DEF reports
  <1>5. /\ next \in Book /\ next.status = "closed" /\ next.tokens = book.tokens
        /\ next.basis = book.basis /\ next.realized = book.realized
        /\ next.fills = book.fills
        /\ next.reports = reports /\ next.starting = book.starting
        /\ next.feeBps = book.feeBps
    <2>1. book \in Book
      BY <1>1
    <2> QED BY <1>2, <1>4, <2>1 DEF Book
  <1>6. CurrentCash(next) = cash
    BY <1>1, <1>3, <1>5, CashAfter DEF reports
  <1>7. BookInv(next, first, last, stop)
    BY <1>1, <1>5, <1>6 DEF BookInv
  <1> QED BY <1>5, <1>7 DEF next

-----------------------------------------------------------------------------
(* The constants, and what the type invariant gives. *)

LEMMA WindowFacts ==
  /\ Len(WindowEnds) \in Nat /\ Windows = 1 .. Len(WindowEnds)
  /\ \A w \in Windows : /\ WindowEnds[w] \in Nat \ {0} /\ FirstBar(w) \in Nat \ {0}
                        /\ FirstBar(w) <= WindowEnds[w]
                        /\ w > 1 => w - 1 \in Windows /\ FirstBar(w) = WindowEnds[w - 1] + 1
                        /\ w = 1 => FirstBar(w) = 1
  <1>1. WindowEnds \in Seq(Nat \ {0})
    BY WalkForwardAssumption
  <1>2. /\ Len(WindowEnds) \in Nat /\ Windows = 1 .. Len(WindowEnds)
        /\ \A w \in Windows : WindowEnds[w] \in Nat \ {0}
    BY <1>1 DEF Windows
  <1>3. ASSUME NEW w \in Windows
        PROVE  /\ FirstBar(w) \in Nat \ {0} /\ FirstBar(w) <= WindowEnds[w]
               /\ w > 1 => w - 1 \in Windows /\ FirstBar(w) = WindowEnds[w - 1] + 1
               /\ w = 1 => FirstBar(w) = 1
    <2>1. CASE w = 1
      <3>1. WindowEnds[w] \in Nat \ {0}
        BY <1>2
      <3> QED BY <2>1, <3>1 DEF FirstBar
    <2>2. CASE w # 1
      <3>1. w \in Nat /\ w > 1 /\ w - 1 \in Windows /\ w - 1 < w
        BY <1>2, <2>2
      <3>2. WindowEnds[w - 1] < WindowEnds[w]
        BY <3>1, WalkForwardAssumption DEF Windows
      <3>3. WindowEnds[w - 1] \in Nat \ {0} /\ WindowEnds[w] \in Nat \ {0}
        BY <1>2, <3>1
      <3>4. FirstBar(w) = WindowEnds[w - 1] + 1
        BY <2>2 DEF FirstBar
      <3> DEFINE a == WindowEnds[w - 1]
                 b == WindowEnds[w]
      <3>5. a \in Nat \ {0} /\ b \in Nat \ {0} /\ a < b /\ FirstBar(w) = a + 1
        BY <3>2, <3>3, <3>4
      <3> HIDE DEF a, b
      <3>6. FirstBar(w) \in Nat \ {0} /\ FirstBar(w) <= b
        BY <3>5
      <3> QED BY <2>2, <3>1, <3>4, <3>6 DEF b
    <2> QED BY <2>1, <2>2
  <1> QED BY <1>2, <1>3

LEMMA ProfileTyped ==
  ASSUME NEW profile \in Profile
  PROVE  profile.timeStop \in Nat /\ profile.timeStop >= 4
  <1>1. /\ profile.timeStop \in 4 .. InitialProfile.timeStop
        /\ InitialProfile.timeStop \in Nat
    BY WalkForwardAssumption DEF Profile
  <1> QED BY <1>1

(* No patch takes a profile out of its bounds. *)
LEMMA PatchedType ==
  ASSUME NEW loaded \in Profile, NEW active \in Profile, NEW reason
  PROVE  Patched(loaded, active, reason) \in Profile
  <1>1. /\ loaded.conf \in 55 .. 95
        /\ loaded.cooldown \in InitialProfile.cooldown .. 12
        /\ loaded.timeStop \in 4 .. InitialProfile.timeStop
        /\ active.cooldown \in InitialProfile.cooldown .. 12
        /\ active.timeStop \in 4 .. InitialProfile.timeStop
        /\ InitialProfile.cooldown \in Nat /\ InitialProfile.timeStop \in Nat
    BY WalkForwardAssumption DEF Profile
  <1>2. InitialProfile.cooldown <= 12
    BY <1>1
  <1>3. /\ AtMost(95, loaded.conf + 5) \in 55 .. 95
        /\ AtMost(90, loaded.conf + 2) \in 55 .. 95
        /\ AtLeast(55, loaded.conf - 2) \in 55 .. 95
        /\ AtMost(12, loaded.cooldown + 1) \in InitialProfile.cooldown .. 12
        /\ ShorterHold(loaded.timeStop) \in 4 .. InitialProfile.timeStop
    BY <1>1, <1>2 DEF AtMost, AtLeast, ShorterHold
  <1> QED BY <1>1, <1>3 DEF Patched, Profile

LEMMA WalkTyped ==
  ASSUME TypeOK
  PROVE  /\ walk \in Walk /\ walk.stage \in Stages /\ walk.run \in Nat /\ walk.window \in Nat
         /\ walk.revision \in Nat /\ walk.bar \in Nat /\ walk.entry \in Nat
         /\ walk.cost \in Nat /\ walk.reason \in CloseReasons
         /\ walk.revision \in 0 .. Len(revisions)
  BY DEF TypeOK, Walk

LEMMA TablesTyped ==
  ASSUME TypeOK
  PROVE  /\ Len(history) \in Nat /\ DOMAIN history = 1 .. Len(history)
         /\ Len(revisions) \in Nat \ {0} /\ DOMAIN revisions = 1 .. Len(revisions)
         /\ Len(sessions) \in Nat /\ DOMAIN sessions = 1 .. Len(sessions)
         /\ \A r \in DOMAIN revisions :
              /\ revisions[r] \in Revision /\ revisions[r].profile \in Profile
              /\ revisions[r].source \in Nat /\ revisions[r].profile.timeStop \in Nat
         /\ \A s \in DOMAIN sessions :
              /\ sessions[s] \in Session /\ sessions[s].run \in Nat
              /\ sessions[s].window \in Windows /\ sessions[s].revision \in DOMAIN revisions
              /\ sessions[s].book \in Book
         /\ sessions # << >> => Current \in DOMAIN sessions
  <1>1. /\ history \in Seq(Bars) /\ revisions \in Seq(Revision) /\ revisions # << >>
        /\ sessions \in Seq(Session)
        /\ \A s \in DOMAIN sessions : sessions[s].revision \in DOMAIN revisions
    BY DEF TypeOK
  <1>2. /\ Len(history) \in Nat /\ DOMAIN history = 1 .. Len(history)
        /\ Len(revisions) \in Nat \ {0} /\ DOMAIN revisions = 1 .. Len(revisions)
        /\ Len(sessions) \in Nat /\ DOMAIN sessions = 1 .. Len(sessions)
        /\ sessions # << >> => Len(sessions) \in DOMAIN sessions
    BY <1>1
  <1>3. ASSUME NEW r \in DOMAIN revisions
        PROVE  /\ revisions[r] \in Revision /\ revisions[r].profile \in Profile
               /\ revisions[r].source \in Nat /\ revisions[r].profile.timeStop \in Nat
    <2>1. revisions[r] \in Revision
      BY <1>1
    <2>2. revisions[r].profile \in Profile /\ revisions[r].source \in Nat
      BY <2>1 DEF Revision
    <2> QED BY <2>1, <2>2, ProfileTyped
  <1>4. ASSUME NEW s \in DOMAIN sessions
        PROVE  /\ sessions[s] \in Session /\ sessions[s].run \in Nat
               /\ sessions[s].window \in Windows /\ sessions[s].book \in Book
    <2>1. sessions[s] \in Session
      BY <1>1
    <2> QED BY <2>1 DEF Session
  <1> QED BY <1>1, <1>2, <1>3, <1>4 DEF Current

-----------------------------------------------------------------------------
(* What a step leaves alone. *)

(* Every row of the two tables stays, but for what a book holds. *)
RevisionsKept ==
  /\ Len(revisions) <= Len(revisions')
  /\ \A r \in DOMAIN revisions : r \in DOMAIN revisions' /\ revisions'[r] = revisions[r]

SessionsKept ==
  /\ sessions' \in Seq(Session)
  /\ \A s \in DOMAIN sessions :
       /\ s \in DOMAIN sessions' /\ sessions'[s].run = sessions[s].run
       /\ sessions'[s].window = sessions[s].window
       /\ sessions'[s].revision = sessions[s].revision

(* A step inside a window: at most the book of the current session changes. *)
BookStep ==
  /\ SessionsKept /\ Len(sessions') = Len(sessions)
  /\ \A s \in DOMAIN sessions : s # Current => sessions'[s].book = sessions[s].book

LEMMA RevisionsAppended ==
  ASSUME TypeOK, NEW row \in Revision, revisions' = Append(revisions, row)
  PROVE  /\ RevisionsKept /\ revisions' \in Seq(Revision) /\ revisions' # << >>
         /\ Len(revisions') = Len(revisions) + 1 /\ revisions'[Len(revisions) + 1] = row
         /\ DOMAIN revisions' = 1 .. Len(revisions) + 1
  <1>1. revisions \in Seq(Revision)
    BY DEF TypeOK
  <1>2. /\ revisions' \in Seq(Revision) /\ Len(revisions) \in Nat
        /\ Len(revisions') = Len(revisions) + 1
        /\ DOMAIN revisions = 1 .. Len(revisions)
        /\ DOMAIN revisions' = 1 .. Len(revisions) + 1
        /\ \A i \in 1 .. Len(revisions) : revisions'[i] = revisions[i]
        /\ revisions'[Len(revisions) + 1] = row
    BY <1>1, AppendRow
  <1>3. RevisionsKept
    BY <1>2 DEF RevisionsKept
  <1>4. revisions' # << >>
    BY <1>2
  <1> QED BY <1>2, <1>3, <1>4

LEMMA RevisionsStay ==
  ASSUME TypeOK, UNCHANGED revisions
  PROVE  RevisionsKept
  BY TablesTyped DEF RevisionsKept

LEMMA BooksKept ==
  ASSUME TypeOK, BooksInv, RevisionsKept, UNCHANGED sessions
  PROVE  BooksInv'
  <1> SUFFICES ASSUME NEW s \in DOMAIN sessions PROVE SessionInv(s)'
    BY DEF BooksInv
  <1>1. SessionInv(s)
    BY DEF BooksInv
  <1>2. sessions[s].revision \in DOMAIN revisions
    BY TablesTyped
  <1>3. revisions'[sessions[s].revision] = revisions[sessions[s].revision]
    BY <1>2 DEF RevisionsKept
  <1> QED BY <1>1, <1>3 DEF SessionInv

(* What the book of the current session owes to its window. *)
CurrentInv(book) ==
  BookInv(book, FirstBar(sessions[Current].window), WindowEnds[sessions[Current].window],
          revisions[sessions[Current].revision].profile.timeStop)

LEMMA BookReplaced ==
  ASSUME TypeOK, BooksInv, sessions # << >>, UNCHANGED revisions,
         NEW book, BookBecomes(book), CurrentInv(book)
  PROVE  BookStep /\ BooksInv' /\ CurrentBook' = book /\ sessions' # << >>
  <1>1. /\ Current \in DOMAIN sessions /\ sessions \in Seq(Session)
        /\ Len(sessions) \in Nat /\ DOMAIN sessions = 1 .. Len(sessions)
        /\ \A s \in DOMAIN sessions : sessions[s] \in Session
    BY TablesTyped DEF TypeOK
  <1>2. book \in Book
    BY DEF CurrentInv, BookInv
  <1> DEFINE row == [sessions[Current] EXCEPT !.book = book]
  <1>3. sessions' = [sessions EXCEPT ![Current] = row]
    BY DEF BookBecomes
  <1>4. /\ row \in Session /\ row.book = book /\ row.run = sessions[Current].run
        /\ row.window = sessions[Current].window /\ row.revision = sessions[Current].revision
    BY <1>1, <1>2 DEF Session
  <1> HIDE DEF row
  <1>5. /\ sessions' \in Seq(Session) /\ Len(sessions') = Len(sessions)
        /\ DOMAIN sessions' = DOMAIN sessions /\ sessions'[Current] = row
        /\ \A s \in DOMAIN sessions : s # Current => sessions'[s] = sessions[s]
    BY <1>1, <1>3, <1>4
  <1>6. SessionsKept
    <2> SUFFICES ASSUME NEW s \in DOMAIN sessions
                 PROVE  /\ sessions'[s].run = sessions[s].run
                        /\ sessions'[s].window = sessions[s].window
                        /\ sessions'[s].revision = sessions[s].revision
      BY <1>5 DEF SessionsKept
    <2>1. CASE s = Current
      BY <1>4, <1>5, <2>1
    <2>2. CASE s # Current
      BY <1>5, <2>2
    <2> QED BY <2>1, <2>2
  <1>7. BookStep
    BY <1>5, <1>6 DEF BookStep
  <1>8. CurrentBook' = book
    BY <1>4, <1>5 DEF CurrentBook, Current
  <1>9. ASSUME NEW s \in DOMAIN sessions PROVE SessionInv(s)'
    <2>1. CASE s = Current
      <3>1. sessions'[s].book = book
        BY <1>4, <1>5, <2>1
      <3>2. /\ sessions'[s].window = sessions[Current].window
            /\ sessions'[s].revision = sessions[Current].revision
        BY <1>4, <1>5, <2>1
      <3> QED BY <3>1, <3>2 DEF CurrentInv, SessionInv
    <2>2. CASE s # Current
      <3>1. sessions'[s] = sessions[s] /\ SessionInv(s)
        BY <1>5, <2>2 DEF BooksInv
      <3> QED BY <3>1 DEF SessionInv
    <2> QED BY <2>1, <2>2
  <1>10. BooksInv'
    BY <1>5, <1>9 DEF BooksInv
  <1>11. sessions' # << >>
    BY <1>1, <1>5
  <1> QED BY <1>7, <1>8, <1>10, <1>11

LEMMA BookStays ==
  ASSUME TypeOK, BooksInv, UNCHANGED <<sessions, revisions>>
  PROVE  BookStep /\ BooksInv' /\ UNCHANGED CurrentBook
  <1>1. BooksInv'
    BY RevisionsStay, BooksKept
  <1>2. BookStep
    BY TablesTyped DEF BookStep, SessionsKept, TypeOK
  <1> QED BY <1>1, <1>2 DEF CurrentBook, Current

-----------------------------------------------------------------------------
(* CompletedLadder and LessonsInOrder, a run and a revision at a time. *)

Mine(r) == {s \in DOMAIN sessions : sessions[s].run = r}

Completed(r) ==
  /\ {sessions[s].window : s \in Mine(r)} = Windows
  /\ \A s, t \in Mine(r) : s < t => sessions[s].window < sessions[t].window
  /\ \A s \in Mine(r) : Finished(s)

LEMMA LaddersSplit == CompletedLadder <=> \A r \in ladders : Completed(r)
  BY DEF CompletedLadder, Completed, Mine, Finished

(* A run keeps its ladder while its own books stay as they are. *)
LEMMA CompletedKept ==
  ASSUME SessionsKept, NEW r, Completed(r),
         \A s \in DOMAIN sessions' : s \in DOMAIN sessions \/ sessions'[s].run # r,
         \A s \in DOMAIN sessions : sessions[s].run = r => sessions'[s].book = sessions[s].book
  PROVE  Completed(r)'
  <1>1. Mine(r)' = Mine(r)
    BY DEF Mine, SessionsKept
  <1>2. ASSUME NEW s \in Mine(r)
        PROVE  sessions'[s].window = sessions[s].window /\ sessions'[s].book = sessions[s].book
    BY DEF Mine, SessionsKept
  <1>3. {sessions'[s].window : s \in Mine(r)} = {sessions[s].window : s \in Mine(r)}
    BY <1>2
  <1>4. {sessions[s].window : s \in Mine(r)}' = Windows
    BY <1>1, <1>3 DEF Completed
  <1>5. \A s, t \in Mine(r) : s < t => sessions'[s].window < sessions'[t].window
    BY <1>2 DEF Completed
  <1>6. \A s \in Mine(r) : Finished(s)'
    BY <1>2 DEF Completed, Finished
  <1> QED BY <1>1, <1>4, <1>5, <1>6 DEF Completed

LearntBefore ==
  \A s \in DOMAIN sessions : \A r \in 2 .. Len(revisions) :
    revisions[r].source \in 1 .. s - 1 => r <= sessions[s].revision

Lesson(r, s) ==
  /\ s \in DOMAIN sessions /\ sessions[s].book.status = "closed"
  /\ sessions[s].revision < r
  /\ \A q \in sessions[s].revision + 1 .. r - 1 : revisions[q].source = 0
  /\ \E reason \in Reasons : revisions[r].profile =
       Patched(revisions[sessions[s].revision].profile, revisions[r - 1].profile, reason)
  /\ \A q \in 2 .. Len(revisions) : revisions[q].source = s => q = r

Lessons ==
  \A r \in 2 .. Len(revisions) : \A s : s = revisions[r].source /\ s # 0 => Lesson(r, s)

LEMMA LessonsSplit == LessonsInOrder <=> LearntBefore /\ Lessons
  <1>1. ASSUME LessonsInOrder PROVE LearntBefore /\ Lessons
    BY <1>1, Zenon DEF LessonsInOrder, LearntBefore, Lessons, Lesson
  <1>2. ASSUME LearntBefore, Lessons PROVE LessonsInOrder
    <2>1. \A r \in 2 .. Len(revisions) : revisions[r].source # 0 =>
            Lesson(r, revisions[r].source)
      BY <1>2 DEF Lessons
    <2> QED BY <1>2, <2>1, Zenon DEF LessonsInOrder, LearntBefore, Lesson
  <1> QED BY <1>1, <1>2

(* A lesson stays drawn while its session stays closed and teaches nothing else. *)
LEMMA LessonKept ==
  ASSUME TypeOK, TypeOK', SessionsKept, RevisionsKept,
         NEW r \in 2 .. Len(revisions), NEW s \in Nat, Lesson(r, s),
         sessions'[s].book.status = sessions[s].book.status,
         \A q \in DOMAIN revisions' : q \in DOMAIN revisions \/ revisions'[q].source # s
  PROVE  Lesson(r, s)'
  <1>1. /\ Len(revisions) \in Nat /\ DOMAIN revisions = 1 .. Len(revisions)
        /\ Len(revisions') \in Nat /\ DOMAIN revisions' = 1 .. Len(revisions')
        /\ s \in DOMAIN sessions /\ sessions[s].revision \in DOMAIN revisions
    BY TablesTyped DEF Lesson, TypeOK
  <1>2. /\ s \in DOMAIN sessions' /\ sessions'[s].book.status = "closed"
        /\ sessions'[s].revision = sessions[s].revision
    BY DEF Lesson, SessionsKept
  <1>3. \A q \in 1 .. Len(revisions) : revisions'[q] = revisions[q]
    BY <1>1 DEF RevisionsKept
  <1> DEFINE loaded == sessions[s].revision
  <1>4. /\ loaded \in 1 .. Len(revisions) /\ loaded < r
        /\ \A q \in loaded + 1 .. r - 1 : revisions[q].source = 0
    BY <1>1 DEF Lesson
  <1> HIDE DEF loaded
  <1>5. \A q \in loaded + 1 .. r - 1 : revisions'[q].source = 0
    BY <1>1, <1>3, <1>4
  <1>6. PICK reason \in Reasons : revisions[r].profile =
          Patched(revisions[loaded].profile, revisions[r - 1].profile, reason)
    BY DEF Lesson, loaded
  <1>7. revisions'[r].profile =
          Patched(revisions'[loaded].profile, revisions'[r - 1].profile, reason)
    <2>1. /\ revisions'[r] = revisions[r] /\ revisions'[loaded] = revisions[loaded]
          /\ revisions'[r - 1] = revisions[r - 1]
      BY <1>1, <1>3, <1>4
    <2> QED BY <1>6, <2>1
  <1>8. \A q \in 2 .. Len(revisions') : revisions'[q].source = s => q = r
    <2> SUFFICES ASSUME NEW q \in 2 .. Len(revisions'), revisions'[q].source = s
                 PROVE  q = r
      OBVIOUS
    <2>1. q \in 2 .. Len(revisions)
      BY <1>1
    <2>2. revisions[q].source = s
      BY <1>1, <1>3, <2>1
    <2> QED BY <2>1, <2>2 DEF Lesson
  <1> QED BY <1>2, <1>4, <1>5, <1>7, <1>8 DEF Lesson, loaded

-----------------------------------------------------------------------------
(* The steps from the first bar of a window to the close of its book. *)

InWindow ==
  /\ BookStep /\ UNCHANGED <<revisions, ladders>>
  /\ walk.stage \in Replaying \ {"review"} /\ walk'.stage \in Replaying
  /\ walk'.run = walk.run /\ walk'.window = walk.window /\ walk'.revision = walk.revision

LEMMA InWindowTyped ==
  ASSUME TypeOK, InWindow, history' \in Seq(Bars), walk' \in Walk
  PROVE  TypeOK'
  <1>1. /\ sessions' \in Seq(Session) /\ Len(sessions') = Len(sessions)
        /\ UNCHANGED <<revisions, ladders>>
        /\ walk'.run = walk.run /\ walk'.revision = walk.revision
        /\ \A s \in DOMAIN sessions : sessions'[s].revision = sessions[s].revision
    BY DEF InWindow, BookStep, SessionsKept
  <1>2. /\ revisions \in Seq(Revision) /\ revisions # << >> /\ ladders \subseteq 1 .. walk.run
        /\ walk.revision \in 0 .. Len(revisions) /\ sessions \in Seq(Session)
        /\ \A s \in DOMAIN sessions : sessions[s].revision \in DOMAIN revisions
    BY DEF TypeOK
  <1>3. DOMAIN sessions' = DOMAIN sessions
    BY <1>1, <1>2
  <1>4. \A s \in DOMAIN sessions' : sessions'[s].revision \in DOMAIN revisions
    BY <1>1, <1>2, <1>3
  <1> QED BY <1>1, <1>2, <1>4 DEF TypeOK

LEMMA InWindowWalk ==
  ASSUME TypeOK, WalkInv, InWindow
  PROVE  WalkInv' /\ walk.window \in Windows /\ Current' = Current /\ Current \in DOMAIN sessions
  <1>1. /\ walk.stage # "off" /\ walk.stage \in Opened /\ walk.stage \in Replaying
        /\ walk'.stage \in Replaying /\ UNCHANGED revisions
        /\ walk'.run = walk.run /\ walk'.window = walk.window /\ walk'.revision = walk.revision
    BY DEF InWindow, Opened, Replaying
  <1>2. /\ walk.run >= 1 /\ walk.window \in 1 .. Len(WindowEnds) + 1
        /\ walk.window \in Windows /\ walk.revision \in DOMAIN revisions
        /\ sessions # << >> /\ sessions[Current].run = walk.run
        /\ sessions[Current].window = walk.window /\ sessions[Current].revision = walk.revision
    BY <1>1 DEF WalkInv
  <1>3. Current \in DOMAIN sessions /\ sessions \in Seq(Session)
    BY <1>2, TablesTyped DEF TypeOK
  <1>4. /\ sessions' \in Seq(Session) /\ Len(sessions') = Len(sessions) /\ Current' = Current
        /\ sessions'[Current].run = walk.run /\ sessions'[Current].window = walk.window
        /\ sessions'[Current].revision = walk.revision
    BY <1>2, <1>3 DEF InWindow, BookStep, SessionsKept, Current
  <1>5. sessions' # << >>
    BY <1>2, <1>3, <1>4
  <1> QED BY <1>1, <1>2, <1>3, <1>4, <1>5 DEF WalkInv

LEMMA InWindowLadder ==
  ASSUME TypeOK, WalkInv, LadderInv, InWindow
  PROVE  LadderInv'
  <1>1. /\ SessionsKept /\ DOMAIN sessions' = DOMAIN sessions /\ UNCHANGED ladders
        /\ \A s \in DOMAIN sessions : s # Current => sessions'[s].book = sessions[s].book
    BY DEF InWindow, BookStep, SessionsKept, TypeOK
  <1>2. /\ walk.stage # "off" /\ walk'.stage # "off" /\ walk.stage \in Replaying
        /\ walk'.stage \in Replaying /\ walk'.run = walk.run /\ walk'.window = walk.window
    BY DEF InWindow, Replaying
  <1>3. Current' = Current /\ Current \in DOMAIN sessions /\ sessions[Current].run = walk.run
    BY <1>2, InWindowWalk DEF WalkInv
  <1>4. Begun' = Begun
    BY <1>2 DEF Begun
  <1>5. walk.run \notin ladders
    BY <1>2 DEF LadderInv
  <1>6. ASSUME NEW r \in ladders PROVE Completed(r)'
    <2>1. Completed(r)
      BY LaddersSplit DEF LadderInv
    <2> QED BY <1>1, <1>3, <1>5, <2>1, CompletedKept
  <1>7. CompletedLadder'
    <2>1. (\A r \in ladders : Completed(r))'
      BY <1>1, <1>6
    <2> QED BY <2>1, LaddersSplit, PTL
  <1>8. /\ \A s \in DOMAIN sessions' : sessions'[s].run <= walk'.run
        /\ \A w \in 1 .. Begun' : \E s \in DOMAIN sessions' :
             sessions'[s].run = walk'.run /\ sessions'[s].window = w
    BY <1>1, <1>2, <1>4 DEF LadderInv, SessionsKept
  <1>9. ASSUME NEW s \in DOMAIN sessions', sessions'[s].run = walk'.run
        PROVE  /\ sessions'[s].window <= Begun'
               /\ Finished(s)' \/ (walk'.stage \in Replaying /\ s = Current')
               /\ \A t \in DOMAIN sessions' : sessions'[t].run = walk'.run /\ s < t =>
                    sessions'[s].window < sessions'[t].window
    <2>1. /\ sessions[s].window <= Begun
          /\ Finished(s) \/ s = Current
          /\ \A t \in DOMAIN sessions : sessions[t].run = walk.run /\ s < t =>
               sessions[s].window < sessions[t].window
      BY <1>1, <1>2, <1>9 DEF LadderInv, SessionsKept
    <2>2. Finished(s)' \/ s = Current
      BY <1>1, <2>1 DEF Finished
    <2>3. sessions'[s].window <= Begun'
      <3>1. s \in DOMAIN sessions
        BY <1>1
      <3>2. sessions'[s].window = sessions[s].window
        BY <1>1, <3>1 DEF SessionsKept
      <3> QED BY <1>4, <2>1, <3>2
    <2>4. \A t \in DOMAIN sessions' : sessions'[t].run = walk'.run /\ s < t =>
            sessions'[s].window < sessions'[t].window
      BY <1>1, <1>2, <2>1 DEF SessionsKept
    <2> QED BY <1>2, <1>3, <2>2, <2>3, <2>4
  <1> QED BY <1>1, <1>2, <1>5, <1>7, <1>8, <1>9 DEF LadderInv

LEMMA InWindowLesson ==
  ASSUME TypeOK, TypeOK', WalkInv, LessonInv, InWindow
  PROVE  LessonInv'
  <1>1. /\ SessionsKept /\ DOMAIN sessions' = DOMAIN sessions /\ UNCHANGED revisions
        /\ \A s \in DOMAIN sessions : s # Current => sessions'[s].book = sessions[s].book
    BY DEF InWindow, BookStep, SessionsKept, TypeOK
  <1>2. /\ walk.stage \in Replaying /\ walk.stage \in Opened \ {"review"}
        /\ walk'.revision = walk.revision
    BY DEF InWindow, Replaying, Opened
  <1>3. Current' = Current
    BY InWindowWalk
  <1>4. /\ \A r \in DOMAIN revisions : revisions[r].source # Current
        /\ \A r \in walk.revision + 1 .. Len(revisions) : revisions[r].source = 0
        /\ walk.revision = Len(revisions) /\ revisions[1].source = 0
    BY <1>2 DEF LessonInv
  <1>5. LearntBefore'
    BY <1>1, LessonsSplit DEF LessonInv, LearntBefore, SessionsKept
  <1>6. Lessons'
    <2> SUFFICES ASSUME NEW r \in 2 .. Len(revisions), NEW s, s = revisions[r].source, s # 0
                 PROVE  Lesson(r, s)'
      BY <1>1 DEF Lessons
    <2>1. r \in DOMAIN revisions
      BY TablesTyped
    <2>2. s \in Nat /\ s # Current /\ Lesson(r, s)
      BY <1>4, <2>1, TablesTyped, LessonsSplit DEF LessonInv, Lessons
    <2>3. s \in DOMAIN sessions
      BY <2>2 DEF Lesson
    <2>4. sessions'[s].book.status = sessions[s].book.status
      BY <1>1, <2>2, <2>3
    <2>5. RevisionsKept /\ \A q \in DOMAIN revisions' : q \in DOMAIN revisions
      BY <1>1, RevisionsStay
    <2> QED BY <1>1, <2>2, <2>4, <2>5, LessonKept
  <1>7. LessonsInOrder'
    BY <1>5, <1>6, LessonsSplit, PTL
  <1> QED BY <1>1, <1>2, <1>3, <1>4, <1>7 DEF LessonInv

LEMMA RoundedTyped ==
  ASSUME NEW n \in Int, NEW d \in Nat \ {0}
  PROVE  Rounded(n, d) \in Int
  BY DEF Rounded

LEMMA FillTimeTyped ==
  ASSUME NEW book \in Book
  PROVE  FillTime(book) \in Int
  <1> DEFINE rows == book.fills
             last == rows[Len(rows)]
  <1>1. rows \in Seq(FillRow)
    BY BookTyped
  <1>2. rows # << >> => last \in FillRow
    BY <1>1
  <1>3. last \in FillRow => last.at \in Int
    BY DEF FillRow
  <1>4. FillTime(book) = IF rows = << >> THEN -1 ELSE last.at
    BY DEF FillTime
  <1> HIDE DEF rows, last
  <1> QED BY <1>2, <1>3, <1>4

(* What is known in a window while its book is open. *)
LEMMA OpenWindow ==
  ASSUME TypeOK, WalkInv, BooksInv, walk.stage \in Replaying
  PROVE  /\ Current \in DOMAIN sessions /\ sessions # << >>
         /\ walk.window \in Windows /\ sessions[Current].window = walk.window
         /\ LastBar \in Nat \ {0} /\ FirstBar(walk.window) \in Nat \ {0}
         /\ FirstBar(walk.window) <= LastBar
         /\ sessions[Current].revision = walk.revision /\ walk.revision \in DOMAIN revisions
         /\ LoadedProfile.timeStop \in Nat /\ LoadedProfile.timeStop >= 4
         /\ CurrentInv(CurrentBook) /\ CurrentBook \in Book /\ FillTime(CurrentBook) \in Int
         /\ CurrentBook.tokens \in Int /\ CurrentBook.feeBps \in Nat
         /\ CurrentCash(CurrentBook) \in Int
         /\ \A book : CurrentInv(book) <=>
              BookInv(book, FirstBar(walk.window), LastBar, LoadedProfile.timeStop)
  <1>1. walk.stage \in Opened
    BY DEF Opened, Replaying
  <1>2. /\ walk.window \in Windows /\ walk.revision \in DOMAIN revisions
        /\ sessions # << >> /\ sessions[Current].run = walk.run
        /\ sessions[Current].window = walk.window /\ sessions[Current].revision = walk.revision
    BY <1>1 DEF WalkInv
  <1>3. Current \in DOMAIN sessions
    BY <1>2, TablesTyped
  <1>4. /\ LastBar \in Nat \ {0} /\ FirstBar(walk.window) \in Nat \ {0}
        /\ FirstBar(walk.window) <= LastBar
    BY <1>2, WindowFacts DEF LastBar
  <1>5. LoadedProfile \in Profile
    BY <1>2, TablesTyped DEF LoadedProfile
  <1>6. LoadedProfile.timeStop \in Nat /\ LoadedProfile.timeStop >= 4
    BY <1>5, ProfileTyped
  <1>7. CurrentInv(CurrentBook) /\ CurrentBook \in Book
    BY <1>3 DEF BooksInv, SessionInv, CurrentInv, CurrentBook, BookInv
  <1>8. /\ CurrentBook.tokens \in Int /\ CurrentBook.feeBps \in Nat
        /\ CurrentCash(CurrentBook) \in Int /\ FillTime(CurrentBook) \in Int
    BY <1>7, BookTyped, CashTyped, FillTimeTyped
  <1>9. \A book : CurrentInv(book) <=>
          BookInv(book, FirstBar(walk.window), LastBar, LoadedProfile.timeStop)
    BY <1>2 DEF CurrentInv, LastBar, LoadedProfile
  <1> QED BY <1>2, <1>3, <1>4, <1>6, <1>7, <1>8, <1>9

(* One bar, said of the book before and after it. *)
LEMMA PassKeeps ==
  ASSUME NEW book \in Book, NEW bar \in Nat, NEW cost, NEW stop \in Nat,
         Position(book, bar, 0, cost, stop)
  PROVE  Position(book, bar + 1, 0, 0, stop)
  <1>1. FillTime(book) \in Int
    BY FillTimeTyped
  <1> QED BY <1>1 DEF Position

LEMMA EnterKeeps ==
  ASSUME NEW first \in Int, NEW last \in Int, NEW stop \in Nat, stop >= 4,
         NEW book, BookInv(book, first, last, stop), NEW bar \in Nat \ {0}, NEW cost,
         first <= bar, bar <= last, Position(book, bar, 0, cost, stop),
         NEW usdc \in Int, NEW tokens \in Int, BuyAccepted(book, bar, usdc, tokens)
  PROVE  /\ BookInv(Bought(book, bar, usdc, tokens), first, last, stop)
         /\ Position(Bought(book, bar, usdc, tokens), bar + 1, bar, usdc, stop)
         /\ usdc > 0
  <1>1. book.tokens = 0
    BY DEF Position
  <1> DEFINE next == Bought(book, bar, usdc, tokens)
  <1>2. /\ BookInv(next, first, last, stop) /\ next.tokens > 0 /\ FillTime(next) = bar
        /\ next.status = "open" /\ usdc > 0
    BY <1>1, BoughtInv
  <1> HIDE DEF next
  <1>3. bar < bar + 1 /\ bar # 0 /\ bar + 1 - bar <= stop /\ next.tokens # 0
    <2> DEFINE held == next.tokens
    <2>1. held > 0
      BY <1>2
    <2> HIDE DEF held
    <2>2. held # 0
      BY <2>1
    <2> QED BY <2>2 DEF held
  <1>4. Position(next, bar + 1, bar, usdc, stop)
    BY <1>2, <1>3 DEF Position
  <1> QED BY <1>2, <1>4 DEF next

LEMMA HoldKeeps ==
  ASSUME NEW book \in Book, NEW bar \in Nat, NEW entry \in Nat, NEW cost, NEW stop \in Nat,
         entry # 0, Position(book, bar, entry, cost, stop), bar - entry < stop
  PROVE  Position(book, bar + 1, entry, cost, stop)
  <1>1. FillTime(book) \in Int
    BY FillTimeTyped
  <1> QED BY <1>1 DEF Position

LEMMA ExitKeeps ==
  ASSUME NEW first \in Int, NEW last \in Int, NEW stop \in Nat,
         NEW book, BookInv(book, first, last, stop), NEW bar \in Nat, NEW at \in Nat,
         first <= at, at <= last, at <= bar,
         NEW entry \in Nat, entry # 0, NEW cost, Position(book, bar, entry, cost, stop),
         NEW usdc \in Int, SellAccepted(book, at, usdc, book.tokens)
  PROVE  /\ BookInv(Sold(book, at, usdc, book.tokens), first, last, stop)
         /\ Position(Sold(book, at, usdc, book.tokens), bar + 1, 0, 0, stop)
         /\ Sold(book, at, usdc, book.tokens).status = "open"
         /\ Sold(book, at, usdc, book.tokens).tokens = 0
  <1>1. FillTime(book) = entry /\ bar - entry <= stop
    BY DEF Position
  <1>2. at - FillTime(book) <= stop
    BY <1>1
  <1> DEFINE next == Sold(book, at, usdc, book.tokens)
  <1>3. /\ BookInv(next, first, last, stop) /\ next.tokens = 0 /\ FillTime(next) = at
        /\ next.status = "open"
    BY <1>2, SoldInv
  <1> HIDE DEF next
  <1>4. Position(next, bar + 1, 0, 0, stop)
    BY <1>3 DEF Position
  <1> QED BY <1>3, <1>4 DEF next

(* The history is read, or it grows, as far as the bar. *)
LEMMA BarRead ==
  ASSUME TypeOK, WalkInv, BooksInv, HistoryInv, walk.stage = "replay",
         walk.bar <= WindowEnds[walk.window], NEW bar \in Bars,
         IF walk.bar \in DOMAIN history THEN bar = history[walk.bar] /\ UNCHANGED history
         ELSE history' = Append(history, bar)
  PROVE  /\ history' \in Seq(Bars) /\ Len(history') \in Nat /\ walk.bar <= Len(history')
         /\ bar.price \in Nat \ {0} /\ bar.conf \in Nat
         /\ FirstBar(walk.window) <= walk.bar /\ walk.bar <= LastBar
         /\ walk.bar \in Nat \ {0}
  <1>1. /\ history \in Seq(Bars) /\ Len(history) \in Nat /\ DOMAIN history = 1 .. Len(history)
        /\ walk.bar \in Nat
    BY TablesTyped, WalkTyped DEF TypeOK
  <1>2. /\ FirstBar(walk.window) <= walk.bar /\ walk.bar <= Len(history) + 1
        /\ walk.bar <= LastBar
    BY DEF HistoryInv, LastBar
  <1>3. FirstBar(walk.window) \in Nat \ {0}
    BY OpenWindow DEF Replaying
  <1>4. walk.bar \in Nat \ {0}
    BY <1>1, <1>2, <1>3
  <1>5. history' \in Seq(Bars) /\ Len(history') \in Nat /\ walk.bar <= Len(history')
    <2>1. CASE walk.bar \in DOMAIN history
      <3>1. history' = history
        BY <2>1
      <3> QED BY <1>1, <2>1, <3>1
    <2>2. CASE walk.bar \notin DOMAIN history
      <3>1. history' = Append(history, bar)
        BY <2>2
      <3>2. history' \in Seq(Bars) /\ Len(history') = Len(history) + 1
        BY <1>1, <3>1, AppendRow
      <3> QED BY <1>1, <1>2, <3>2
    <2> QED BY <2>1, <2>2
  <1>6. bar.price \in Nat \ {0} /\ bar.conf \in Nat
    BY WalkForwardAssumption
  <1> QED BY <1>2, <1>4, <1>5, <1>6

(* What a bar leaves behind: the book and the position move together. *)
BarDone ==
  /\ BookStep /\ BooksInv' /\ walk' \in Walk
  /\ walk'.stage = "replay" /\ walk'.run = walk.run /\ walk'.window = walk.window
  /\ walk'.revision = walk.revision /\ walk'.bar = walk.bar + 1
  /\ Position(CurrentBook', walk'.bar, walk'.entry, walk'.cost, LoadedProfile.timeStop)

LEMMA NextBarTyped ==
  ASSUME TypeOK, walk.stage = "replay", NEW entry \in Nat, NEW cost \in Nat,
         NEW reason \in CloseReasons, NextBar(entry, cost, reason)
  PROVE  /\ walk' \in Walk /\ walk'.stage = "replay" /\ walk'.run = walk.run
         /\ walk'.window = walk.window /\ walk'.revision = walk.revision
         /\ walk'.bar = walk.bar + 1 /\ walk'.entry = entry /\ walk'.cost = cost
  <1>1. walk \in Walk /\ walk.bar \in Nat
    BY WalkTyped
  <1> DEFINE bar == walk.bar + 1
  <1>2. bar \in Nat
    BY <1>1
  <1>3. walk' = [walk EXCEPT !.bar = bar, !.entry = entry, !.cost = cost, !.reason = reason]
    BY DEF NextBar
  <1> HIDE DEF bar
  <1>4. /\ walk' \in Walk /\ walk'.stage = walk.stage /\ walk'.run = walk.run
        /\ walk'.window = walk.window /\ walk'.revision = walk.revision
        /\ walk'.bar = bar /\ walk'.entry = entry /\ walk'.cost = cost
    BY <1>1, <1>2, <1>3 DEF Walk
  <1> QED BY <1>4 DEF bar

LEMMA PassOverDone ==
  ASSUME TypeOK, WalkInv, BooksInv, PositionInv, walk.stage = "replay", NEW bar,
         PassOver(bar), UNCHANGED revisions
  PROVE  BarDone
  <1>1. /\ walk.entry = 0 /\ NextBar(0, 0, walk.reason) /\ UNCHANGED sessions
    BY DEF PassOver
  <1>2. /\ walk' \in Walk /\ walk'.stage = "replay" /\ walk'.run = walk.run
        /\ walk'.window = walk.window /\ walk'.revision = walk.revision
        /\ walk'.bar = walk.bar + 1 /\ walk'.entry = 0 /\ walk'.cost = 0
    BY <1>1, WalkTyped, NextBarTyped
  <1>3. BookStep /\ BooksInv' /\ CurrentBook' = CurrentBook
    BY <1>1, BookStays
  <1> DEFINE stop == LoadedProfile.timeStop
  <1>4. CurrentBook \in Book /\ stop \in Nat /\ walk.bar \in Nat
    BY OpenWindow, WalkTyped DEF Replaying
  <1>5. Position(CurrentBook, walk.bar, 0, walk.cost, stop)
    BY <1>1 DEF PositionInv
  <1> HIDE DEF stop
  <1>6. Position(CurrentBook, walk.bar + 1, 0, 0, stop)
    BY <1>4, <1>5, PassKeeps
  <1> QED BY <1>2, <1>3, <1>6 DEF BarDone, stop

LEMMA QuoteTyped ==
  ASSUME NEW book \in Book, NEW price \in Nat \ {0}
  PROVE  /\ AtMost(QuoteSize, CurrentCash(book)) \in Int
         /\ \A usdc \in Int : TokensFor(usdc, price) \in Int
         /\ Rounded(book.tokens * price, LotsPerUsdc) \in Int
  <1>1. QuoteSize \in Nat /\ LotsPerUsdc \in Nat \ {0}
    BY WalkForwardAssumption
  <1>2. CurrentCash(book) \in Int /\ book.tokens \in Int
    BY CashTyped, BookTyped
  <1>3. AtMost(QuoteSize, CurrentCash(book)) \in Int
    BY <1>1, <1>2 DEF AtMost
  <1>4. ASSUME NEW usdc \in Int PROVE TokensFor(usdc, price) \in Int
    <2>1. usdc * LotsPerUsdc \in Int
      BY <1>1
    <2> QED BY <2>1, RoundedTyped DEF TokensFor
  <1> DEFINE n == book.tokens * price
  <1>5. n \in Int
    BY <1>2
  <1> HIDE DEF n
  <1>6. Rounded(n, LotsPerUsdc) \in Int
    BY <1>1, <1>5, RoundedTyped
  <1> QED BY <1>3, <1>4, <1>6 DEF n

LEMMA EnterDone ==
  ASSUME TypeOK, WalkInv, BooksInv, PositionInv, walk.stage = "replay", NEW bar \in Bars,
         bar.price \in Nat \ {0}, walk.bar \in Nat \ {0},
         FirstBar(walk.window) <= walk.bar, walk.bar <= LastBar,
         Enter(bar), UNCHANGED revisions
  PROVE  BarDone
  <1> DEFINE usdc == QuoteUsdc
             tokens == TokensFor(usdc, bar.price)
             book == CurrentBook
             next == Bought(book, walk.bar, usdc, tokens)
             first == FirstBar(walk.window)
             stop == LoadedProfile.timeStop
  <1>1. /\ walk.entry = 0 /\ BuyAccepted(book, walk.bar, usdc, tokens) /\ BookBecomes(next)
        /\ NextBar(walk.bar, usdc, walk.reason)
    BY DEF Enter
  <1>2. /\ first \in Nat \ {0} /\ LastBar \in Nat \ {0} /\ stop \in Nat /\ stop >= 4
        /\ book \in Book /\ BookInv(book, first, LastBar, stop) /\ sessions # << >>
        /\ \A b : CurrentInv(b) <=> BookInv(b, first, LastBar, stop)
    BY OpenWindow DEF Replaying
  <1>3. Position(book, walk.bar, 0, walk.cost, stop)
    BY <1>1 DEF PositionInv
  <1>4. usdc \in Int /\ tokens \in Int
    BY <1>2, QuoteTyped DEF QuoteUsdc
  <1> HIDE DEF usdc, tokens, book, next, first, stop
  <1>5. /\ BookInv(next, first, LastBar, stop)
        /\ Position(next, walk.bar + 1, walk.bar, usdc, stop) /\ usdc > 0
    <2> DEFINE at == walk.bar
               last == LastBar
               cost == walk.cost
    <2>1. /\ at \in Nat \ {0} /\ first <= at /\ at <= last /\ last \in Int /\ first \in Int
          /\ BookInv(book, first, last, stop) /\ Position(book, at, 0, cost, stop)
          /\ BuyAccepted(book, at, usdc, tokens)
      BY <1>1, <1>2, <1>3 DEF first
    <2> HIDE DEF at, last, cost
    <2>2. /\ BookInv(Bought(book, at, usdc, tokens), first, last, stop)
          /\ Position(Bought(book, at, usdc, tokens), at + 1, at, usdc, stop) /\ usdc > 0
      BY <1>2, <1>4, <2>1, EnterKeeps
    <2> QED BY <2>2 DEF at, last, next
  <1>6. /\ walk' \in Walk /\ walk'.stage = "replay" /\ walk'.run = walk.run
        /\ walk'.window = walk.window /\ walk'.revision = walk.revision
        /\ walk'.bar = walk.bar + 1 /\ walk'.entry = walk.bar /\ walk'.cost = usdc
    <2>1. usdc \in Nat /\ walk.bar \in Nat /\ walk.reason \in CloseReasons
      BY <1>4, <1>5, WalkTyped
    <2> QED BY <1>1, <2>1, NextBarTyped
  <1>7. BookStep /\ BooksInv' /\ CurrentBook' = next
    BY <1>1, <1>2, <1>5, BookReplaced
  <1> QED BY <1>5, <1>6, <1>7 DEF BarDone, stop

LEMMA HoldOrExitDone ==
  ASSUME TypeOK, WalkInv, BooksInv, PositionInv, walk.stage = "replay", NEW bar \in Bars,
         bar.price \in Nat \ {0}, walk.bar \in Nat \ {0},
         FirstBar(walk.window) <= walk.bar, walk.bar <= LastBar,
         HoldOrExit(bar), UNCHANGED revisions
  PROVE  BarDone
  <1> DEFINE usdc == ProceedsAt(bar.price)
             book == CurrentBook
             next == Sold(book, walk.bar, usdc, book.tokens)
             first == FirstBar(walk.window)
             stop == LoadedProfile.timeStop
             held == walk.bar - walk.entry
             reason == HistoricalExit(LoadedProfile, PnlBpsAt(bar.price), held, bar.regime)
  <1>1. /\ walk.entry # 0
        /\ \/ reason = "none" /\ NextBar(walk.entry, walk.cost, walk.reason) /\ UNCHANGED sessions
           \/ /\ reason # "none" /\ SellAccepted(book, walk.bar, usdc, book.tokens)
              /\ BookBecomes(next) /\ NextBar(0, 0, reason)
    BY DEF HoldOrExit
  <1>2. /\ first \in Nat \ {0} /\ LastBar \in Nat \ {0} /\ stop \in Nat /\ stop >= 4
        /\ book \in Book /\ BookInv(book, first, LastBar, stop) /\ sessions # << >>
        /\ \A b : CurrentInv(b) <=> BookInv(b, first, LastBar, stop)
    BY OpenWindow DEF Replaying
  <1>3. Position(book, walk.bar, walk.entry, walk.cost, stop)
    BY DEF PositionInv
  <1>4. usdc \in Int
    BY <1>2, QuoteTyped DEF ProceedsAt
  <1>5. reason = "none" => ~(held >= stop)
    BY DEF HistoricalExit
  <1>6. reason # "none" => reason \in CloseReasons
    BY DEF HistoricalExit, CloseReasons, Reasons, Adverse
  <1>7. /\ walk.entry \in Nat /\ walk.cost \in Nat /\ walk.reason \in CloseReasons
        /\ walk.bar \in Nat
    BY WalkTyped
  <1> HIDE DEF usdc, book, next, first, stop, reason
  <1>8. CASE reason = "none"
    <2>1. NextBar(walk.entry, walk.cost, walk.reason) /\ UNCHANGED sessions
      BY <1>1, <1>8
    <2>2. /\ walk' \in Walk /\ walk'.stage = "replay" /\ walk'.run = walk.run
          /\ walk'.window = walk.window /\ walk'.revision = walk.revision
          /\ walk'.bar = walk.bar + 1 /\ walk'.entry = walk.entry /\ walk'.cost = walk.cost
      BY <1>7, <2>1, NextBarTyped
    <2>3. BookStep /\ BooksInv' /\ CurrentBook' = book
      BY <2>1, BookStays DEF book
    <2>4. Position(book, walk.bar + 1, walk.entry, walk.cost, stop)
      <3>1. held < stop
        BY <1>2, <1>5, <1>7, <1>8
      <3> QED BY <1>1, <1>2, <1>3, <1>7, <3>1, HoldKeeps
    <2> QED BY <2>2, <2>3, <2>4 DEF BarDone, stop
  <1>9. CASE reason # "none"
    <2>1. /\ SellAccepted(book, walk.bar, usdc, book.tokens) /\ BookBecomes(next)
          /\ NextBar(0, 0, reason)
      BY <1>1, <1>9
    <2>2. /\ walk' \in Walk /\ walk'.stage = "replay" /\ walk'.run = walk.run
          /\ walk'.window = walk.window /\ walk'.revision = walk.revision
          /\ walk'.bar = walk.bar + 1 /\ walk'.entry = 0 /\ walk'.cost = 0
      BY <1>6, <1>9, <2>1, NextBarTyped
    <2>3. BookInv(next, first, LastBar, stop) /\ Position(next, walk.bar + 1, 0, 0, stop)
      <3> DEFINE at == walk.bar
                 last == LastBar
                 entry == walk.entry
                 cost == walk.cost
      <3>1. /\ at \in Nat \ {0} /\ first <= at /\ at <= last /\ last \in Int /\ first \in Int
            /\ at <= at /\ entry \in Nat /\ entry # 0
            /\ BookInv(book, first, last, stop) /\ Position(book, at, entry, cost, stop)
            /\ SellAccepted(book, at, usdc, book.tokens)
        BY <1>1, <1>2, <1>3, <1>7, <2>1 DEF first
      <3> HIDE DEF at, last, entry, cost
      <3>2. /\ BookInv(Sold(book, at, usdc, book.tokens), first, last, stop)
            /\ Position(Sold(book, at, usdc, book.tokens), at + 1, 0, 0, stop)
        BY <1>2, <1>4, <3>1, ExitKeeps
      <3> QED BY <3>2 DEF at, last, next
    <2>4. BookStep /\ BooksInv' /\ CurrentBook' = next
      BY <1>2, <2>1, <2>3, BookReplaced
    <2> QED BY <2>2, <2>3, <2>4 DEF BarDone, stop
  <1> QED BY <1>8, <1>9

LEMMA ReplayBarStep ==
  ASSUME TypeOK, WalkInv, HistoryInv, BooksInv, PositionInv, ReplayBar
  PROVE  InWindow /\ TypeOK' /\ HistoryInv' /\ BooksInv' /\ PositionInv'
  <1>1. /\ walk.stage = "replay" /\ walk.bar <= WindowEnds[walk.window]
        /\ UNCHANGED <<revisions, ladders>>
    BY DEF ReplayBar
  <1>2. PICK bar \in Bars :
          /\ IF walk.bar \in DOMAIN history
             THEN bar = history[walk.bar] /\ UNCHANGED history
             ELSE history' = Append(history, bar)
          /\ PassOver(bar) \/ Enter(bar) \/ HoldOrExit(bar)
    BY DEF ReplayBar
  <1>3. /\ history' \in Seq(Bars) /\ Len(history') \in Nat /\ walk.bar <= Len(history')
        /\ bar.price \in Nat \ {0}
        /\ FirstBar(walk.window) <= walk.bar /\ walk.bar <= LastBar
        /\ walk.bar \in Nat \ {0}
    BY <1>1, <1>2, BarRead
  <1>4. BarDone
    BY <1>1, <1>2, <1>3, PassOverDone, EnterDone, HoldOrExitDone
  <1>5. /\ BookStep /\ BooksInv' /\ walk' \in Walk
        /\ walk'.stage = "replay" /\ walk'.run = walk.run /\ walk'.window = walk.window
        /\ walk'.revision = walk.revision /\ walk'.bar = walk.bar + 1
        /\ Position(CurrentBook', walk'.bar, walk'.entry, walk'.cost, LoadedProfile.timeStop)
    BY <1>4 DEF BarDone
  <1>6. InWindow
    BY <1>1, <1>5 DEF InWindow, Replaying
  <1>7. TypeOK'
    BY <1>3, <1>5, <1>6, InWindowTyped
  <1>8. LastBar' = LastBar /\ LastBar \in Nat /\ FirstBar(walk.window) \in Nat
    BY <1>1, <1>5, OpenWindow DEF LastBar, Replaying
  <1>9. HistoryInv'
    <2> DEFINE first == FirstBar(walk.window)
               at == walk.bar
               size == Len(history')
    <2>1. first \in Nat /\ at \in Nat /\ size \in Nat /\ first <= at /\ at <= LastBar /\ at <= size
      BY <1>3, <1>8
    <2> HIDE DEF first, at, size
    <2>2. first <= at + 1 /\ at + 1 <= LastBar + 1 /\ at + 1 <= size + 1
      BY <1>8, <2>1
    <2> QED BY <1>5, <1>8, <2>2 DEF HistoryInv, first, at, size
  <1>10. PositionInv'
    <2>1. LoadedProfile' = LoadedProfile
      BY <1>1, <1>5 DEF LoadedProfile
    <2> QED BY <1>5, <2>1 DEF PositionInv
  <1> QED BY <1>5, <1>6, <1>7, <1>9, <1>10

LEMMA EndReplayStep ==
  ASSUME TypeOK, WalkInv, HistoryInv, BooksInv, PositionInv, EndReplay
  PROVE  InWindow /\ TypeOK' /\ HistoryInv' /\ BooksInv' /\ PositionInv'
  <1>1. /\ walk.stage = "replay" /\ walk.bar > LastBar
        /\ UNCHANGED <<history, revisions, sessions, ladders>>
    BY DEF EndReplay, LastBar
  <1>2. /\ walk' \in Walk /\ walk'.stage = IF walk.entry = 0 THEN "close" ELSE "settle"
        /\ walk'.run = walk.run /\ walk'.window = walk.window
        /\ walk'.revision = walk.revision /\ walk'.bar = walk.bar /\ walk'.entry = walk.entry
        /\ walk'.cost = walk.cost
    BY WalkTyped DEF EndReplay, Walk, Stages
  <1>3. BookStep /\ BooksInv' /\ CurrentBook' = CurrentBook
    BY <1>1, BookStays
  <1>4. InWindow
    BY <1>1, <1>2, <1>3 DEF InWindow, Replaying
  <1>5. TypeOK'
    BY <1>1, <1>2, <1>4, InWindowTyped DEF TypeOK
  <1>6. LastBar' = LastBar /\ LastBar \in Nat /\ walk.bar \in Nat /\ Len(history) \in Nat
    BY <1>1, <1>2, OpenWindow, WalkTyped, TablesTyped DEF LastBar, Replaying
  <1>7. walk.bar <= LastBar + 1 /\ walk.bar <= Len(history) + 1
    BY <1>1 DEF HistoryInv
  <1>8. walk.bar = LastBar + 1 /\ LastBar <= Len(history)
    BY <1>1, <1>6, <1>7
  <1>9. HistoryInv'
    BY <1>1, <1>2, <1>6, <1>8 DEF HistoryInv
  <1>10. LoadedProfile' = LoadedProfile
    BY <1>1, <1>2 DEF LoadedProfile
  <1>11. Position(CurrentBook, walk.bar, walk.entry, walk.cost, LoadedProfile.timeStop)
    BY <1>1 DEF PositionInv
  <1>12. PositionInv'
    <2>1. CASE walk.entry = 0
      <3>1. CurrentBook.status = "open" /\ CurrentBook.tokens = 0
        BY <1>11, <2>1 DEF Position
      <3> QED BY <1>2, <1>3, <2>1, <3>1 DEF PositionInv
    <2>2. CASE walk.entry # 0
      BY <1>2, <1>3, <1>6, <1>8, <1>10, <1>11, <2>2 DEF PositionInv
    <2> QED BY <2>1, <2>2
  <1> QED BY <1>3, <1>4, <1>5, <1>9, <1>12

LEMMA SettleStep ==
  ASSUME TypeOK, WalkInv, HistoryInv, BooksInv, PositionInv, Settle
  PROVE  InWindow /\ TypeOK' /\ HistoryInv' /\ BooksInv' /\ PositionInv'
  <1> DEFINE usdc == ProceedsAt(history[LastBar].price)
             book == CurrentBook
             next == Sold(book, LastBar, usdc, book.tokens)
             first == FirstBar(walk.window)
             stop == LoadedProfile.timeStop
  <1>1. /\ walk.stage = "settle" /\ UNCHANGED <<history, revisions, ladders>>
        /\ SellAccepted(book, LastBar, usdc, book.tokens) /\ BookBecomes(next)
    BY DEF Settle
  <1>2. /\ walk' \in Walk /\ walk'.stage = "close" /\ walk'.run = walk.run
        /\ walk'.window = walk.window /\ walk'.revision = walk.revision
    BY WalkTyped DEF Settle, Walk, Stages, CloseReasons
  <1>3. /\ first \in Nat \ {0} /\ LastBar \in Nat \ {0} /\ stop \in Nat /\ first <= LastBar
        /\ book \in Book /\ BookInv(book, first, LastBar, stop) /\ sessions # << >>
        /\ \A b : CurrentInv(b) <=> BookInv(b, first, LastBar, stop)
    BY <1>1, OpenWindow DEF Replaying
  <1>4. /\ Position(book, walk.bar, walk.entry, walk.cost, stop)
        /\ walk.entry # 0 /\ walk.bar = LastBar + 1
    BY <1>1 DEF PositionInv
  <1>5. LastBar <= Len(history) /\ history \in Seq(Bars)
    BY <1>1 DEF HistoryInv, TypeOK
  <1>6. history[LastBar].price \in Nat \ {0}
    <2>1. history[LastBar] \in Bars
      BY <1>3, <1>5
    <2> QED BY <2>1, WalkForwardAssumption
  <1>7. usdc \in Int
    BY <1>3, <1>6, QuoteTyped DEF ProceedsAt
  <1>8. walk.entry \in Nat /\ walk.bar \in Nat
    BY WalkTyped
  <1> HIDE DEF usdc, book, next, first, stop
  <1>9. BookInv(next, first, LastBar, stop) /\ next.status = "open" /\ next.tokens = 0
    <2> DEFINE bar == walk.bar
               at == LastBar
               entry == walk.entry
               cost == walk.cost
    <2>1. /\ at \in Nat /\ bar \in Nat /\ at <= bar /\ first <= at /\ at <= at /\ first \in Int
          /\ entry \in Nat /\ entry # 0
          /\ BookInv(book, first, at, stop) /\ Position(book, bar, entry, cost, stop)
          /\ SellAccepted(book, at, usdc, book.tokens)
      BY <1>1, <1>3, <1>4, <1>8
    <2> HIDE DEF bar, at, entry, cost
    <2>2. /\ BookInv(Sold(book, at, usdc, book.tokens), first, at, stop)
          /\ Sold(book, at, usdc, book.tokens).status = "open"
          /\ Sold(book, at, usdc, book.tokens).tokens = 0
      BY <1>3, <1>7, <2>1, ExitKeeps
    <2> QED BY <2>2 DEF at, next
  <1>10. BookStep /\ BooksInv' /\ CurrentBook' = next
    BY <1>1, <1>3, <1>9, BookReplaced
  <1>11. InWindow
    BY <1>1, <1>2, <1>10 DEF InWindow, Replaying
  <1>12. TypeOK'
    BY <1>1, <1>2, <1>5, <1>11, InWindowTyped
  <1>13. HistoryInv'
    BY <1>1, <1>2, <1>5 DEF HistoryInv, LastBar
  <1>14. PositionInv'
    BY <1>2, <1>9, <1>10 DEF PositionInv
  <1> QED BY <1>10, <1>11, <1>12, <1>13, <1>14

LEMMA CloseBookStep ==
  ASSUME TypeOK, WalkInv, HistoryInv, BooksInv, PositionInv, CloseBook
  PROVE  InWindow /\ TypeOK' /\ HistoryInv' /\ BooksInv' /\ PositionInv'
  <1> DEFINE book == CurrentBook
             next == Closed(book, LastBar)
             first == FirstBar(walk.window)
             stop == LoadedProfile.timeStop
  <1>1. /\ walk.stage = "close" /\ UNCHANGED <<history, revisions, ladders>>
        /\ BookBecomes(next)
    BY DEF CloseBook
  <1>2. /\ walk' \in Walk /\ walk'.stage = "review" /\ walk'.run = walk.run
        /\ walk'.window = walk.window /\ walk'.revision = walk.revision
    BY WalkTyped DEF CloseBook, Walk, Stages
  <1>3. /\ LastBar \in Nat /\ BookInv(book, first, LastBar, stop) /\ sessions # << >>
        /\ \A b : CurrentInv(b) <=> BookInv(b, first, LastBar, stop)
    BY <1>1, OpenWindow DEF Replaying
  <1>4. book.tokens = 0
    BY <1>1 DEF PositionInv
  <1> HIDE DEF book, next, first, stop
  <1>5. BookInv(next, first, LastBar, stop) /\ next.status = "closed" /\ next.tokens = 0
    BY <1>3, <1>4, ClosedInv DEF next
  <1>6. BookStep /\ BooksInv' /\ CurrentBook' = next
    BY <1>1, <1>3, <1>5, BookReplaced
  <1>7. InWindow
    BY <1>1, <1>2, <1>6 DEF InWindow, Replaying
  <1>8. TypeOK'
    BY <1>1, <1>2, <1>7, InWindowTyped DEF TypeOK
  <1>9. HistoryInv'
    BY <1>1, <1>2 DEF HistoryInv, LastBar
  <1>10. PositionInv'
    BY <1>2, <1>5, <1>6 DEF PositionInv
  <1> QED BY <1>6, <1>7, <1>8, <1>9, <1>10

-----------------------------------------------------------------------------
(* The steps that only move the run. *)

WalkStep ==
  /\ UNCHANGED <<history, revisions, sessions>>
  /\ walk' \in Walk /\ walk'.revision \in {0, walk.revision, Len(revisions)}
  /\ walk'.stage \in {"off", "window", "open"} /\ walk'.run \in {walk.run, walk.run + 1}
  /\ ladders' \in {ladders, ladders \cup {walk.run}} /\ (walk.run = 0 => ladders' = ladders)

LEMMA WalkStepKeeps ==
  ASSUME TypeOK, BooksInv, LessonInv, WalkStep, walk'.stage = "open" => walk'.revision = Len(revisions)
  PROVE  TypeOK' /\ BooksInv' /\ PositionInv' /\ LessonInv'
  <1>1. /\ UNCHANGED <<history, revisions, sessions>> /\ walk' \in Walk
        /\ walk'.revision \in {0, walk.revision, Len(revisions)}
        /\ walk'.stage \in {"off", "window", "open"} /\ walk'.run \in {walk.run, walk.run + 1}
        /\ ladders' \in {ladders, ladders \cup {walk.run}}
        /\ walk.run = 0 => ladders' = ladders
    BY DEF WalkStep
  <1>2. walk.run \in Nat /\ walk.revision \in 0 .. Len(revisions) /\ Len(revisions) \in Nat
    BY WalkTyped, TablesTyped
  <1>3. walk'.revision \in 0 .. Len(revisions)
    BY <1>1, <1>2
  <1>4. ladders' \subseteq 1 .. walk'.run
    <2>1. ladders \subseteq 1 .. walk.run
      BY DEF TypeOK
    <2> DEFINE run == walk.run
               next == walk'.run
    <2>2. run \in Nat /\ next \in {run, run + 1} /\ ladders \subseteq 1 .. run
          /\ ladders' \in {ladders, ladders \cup {run}} /\ (run = 0 => ladders' = ladders)
      BY <1>1, <1>2, <2>1
    <2> HIDE DEF run, next
    <2>3. ladders' \subseteq 1 .. next
      BY <2>2
    <2> QED BY <2>3 DEF next
  <1>5. TypeOK'
    BY <1>1, <1>3, <1>4 DEF TypeOK
  <1>6. BooksInv'
    BY <1>1, RevisionsStay, BooksKept
  <1>7. PositionInv'
    BY <1>1 DEF PositionInv
  <1>8. LessonsInOrder'
    BY <1>1, Zenon DEF LessonInv, LessonsInOrder
  <1>9. LessonInv'
    BY <1>1, <1>8 DEF LessonInv, Opened, Replaying
  <1> QED BY <1>5, <1>6, <1>7, <1>9

LEMMA LadderStays ==
  ASSUME CompletedLadder, UNCHANGED <<sessions, ladders>>
  PROVE  CompletedLadder'
  BY DEF CompletedLadder

LEMMA StartRunStep ==
  ASSUME IInv, StartRun
  PROVE  IInv'
  <1> USE DEF IInv
  <1>1. /\ walk.stage = "off" /\ UNCHANGED <<history, revisions, sessions, ladders>>
        /\ walk.run \in Nat
    BY WalkTyped DEF StartRun
  <1>2. /\ walk' \in Walk /\ walk'.stage = "window" /\ walk'.run = walk.run + 1
        /\ walk'.window = 1 /\ walk'.revision = 0
    <2> DEFINE run == walk.run + 1
    <2>1. run \in Nat /\ walk' = [NoWalk(run) EXCEPT !.stage = "window", !.window = 1]
      BY <1>1 DEF StartRun
    <2> HIDE DEF run
    <2>2. /\ walk' \in Walk /\ walk'.stage = "window" /\ walk'.run = run
          /\ walk'.window = 1 /\ walk'.revision = 0
      BY <2>1 DEF NoWalk, Walk, Stages, CloseReasons
    <2> QED BY <2>2 DEF run
  <1>3. WalkStep
    BY <1>1, <1>2 DEF WalkStep
  <1>4. TypeOK' /\ BooksInv' /\ PositionInv' /\ LessonInv'
    BY <1>2, <1>3, WalkStepKeeps
  <1>5. WalkInv' /\ HistoryInv'
    BY <1>1, <1>2, WindowFacts DEF WalkInv, HistoryInv, Opened, Replaying
  <1>6. LadderInv'
    <2>1. CompletedLadder' /\ Begun' = 0
      BY <1>1, <1>2, LadderStays DEF LadderInv, Begun, Replaying
    <2>2. \A s \in DOMAIN sessions : sessions[s].run \in Nat /\ sessions[s].run <= walk.run
      BY TablesTyped DEF LadderInv
    <2>3. \A s \in DOMAIN sessions : sessions[s].run <= walk.run + 1 /\ sessions[s].run # walk.run + 1
      BY <1>1, <2>2
    <2>4. walk.run + 1 \notin ladders
      BY <1>1 DEF TypeOK
    <2> QED BY <1>1, <1>2, <2>1, <2>3, <2>4 DEF LadderInv
  <1> QED BY <1>4, <1>5, <1>6

LEMMA AbortStep ==
  ASSUME IInv, Abort
  PROVE  IInv'
  <1> USE DEF IInv
  <1>1. UNCHANGED <<history, revisions, sessions, ladders>> /\ walk.run \in Nat
    BY WalkTyped DEF Abort
  <1>2. walk' \in Walk /\ walk'.stage = "off" /\ walk'.run = walk.run /\ walk'.revision = 0
    BY <1>1 DEF Abort, NoWalk, Walk, Stages, CloseReasons
  <1>3. WalkStep
    BY <1>1, <1>2 DEF WalkStep
  <1>4. TypeOK' /\ BooksInv' /\ PositionInv' /\ LessonInv'
    BY <1>2, <1>3, WalkStepKeeps
  <1>5. WalkInv' /\ HistoryInv'
    BY <1>2 DEF WalkInv, HistoryInv, Opened, Replaying
  <1>6. LadderInv'
    BY <1>1, <1>2, LadderStays DEF LadderInv
  <1> QED BY <1>4, <1>5, <1>6

LEMMA LoadWindowStep ==
  ASSUME IInv, LoadWindow
  PROVE  IInv'
  <1> USE DEF IInv
  <1>1. /\ walk.stage = "window" /\ walk.window \in Windows
        /\ UNCHANGED <<history, revisions, sessions, ladders>>
    BY DEF LoadWindow
  <1>2. /\ walk \in Walk /\ Len(revisions) \in Nat \ {0}
        /\ DOMAIN revisions = 1 .. Len(revisions)
    BY WalkTyped, TablesTyped
  <1>3. /\ walk' \in Walk /\ walk'.stage = "open" /\ walk'.run = walk.run
        /\ walk'.window = walk.window /\ walk'.revision = Len(revisions)
    <2>1. walk' = [walk EXCEPT !.stage = "open", !.revision = Len(revisions)]
      BY DEF LoadWindow, ActiveRevision
    <2> QED BY <1>2, <2>1 DEF Walk, Stages
  <1>4. WalkStep
    BY <1>1, <1>3 DEF WalkStep
  <1>5. TypeOK' /\ BooksInv' /\ PositionInv' /\ LessonInv'
    BY <1>3, <1>4, WalkStepKeeps
  <1>6. WalkInv'
    <2>1. walk.run >= 1 /\ walk.window \in 1 .. Len(WindowEnds) + 1
      BY <1>1 DEF WalkInv
    <2>2. Len(revisions) \in DOMAIN revisions
      BY <1>2
    <2> QED BY <1>1, <1>3, <2>1, <2>2 DEF WalkInv, Opened, Replaying
  <1>7. HistoryInv'
    BY <1>1, <1>3 DEF HistoryInv
  <1>8. LadderInv'
    <2>1. CompletedLadder' /\ Begun' = Begun
      BY <1>1, <1>3, LadderStays DEF LadderInv, Begun, Replaying
    <2>2. walk.stage \notin Replaying /\ walk.stage # "off"
      BY <1>1 DEF Replaying
    <2>3. UNCHANGED <<sessions, ladders>> /\ walk'.run = walk.run
      BY <1>1, <1>3
    <2>4. \A s \in DOMAIN sessions : Finished(s)' <=> Finished(s)
      BY <1>1 DEF Finished
    <2> QED BY <2>1, <2>2, <2>3, <2>4 DEF LadderInv
  <1> QED BY <1>5, <1>6, <1>7, <1>8

(* All windows done: the run has completed the ladder. *)
LEMMA LadderDone ==
  ASSUME TypeOK, WalkInv, LadderInv, walk.stage = "window", AllWindowsDone
  PROVE  Completed(walk.run)
  <1>1. Len(WindowEnds) \in Nat /\ Windows = 1 .. Len(WindowEnds)
    BY WindowFacts
  <1>2. walk.window \in 1 .. Len(WindowEnds) + 1 /\ walk.window \notin Windows
    BY DEF WalkInv, AllWindowsDone
  <1>3. walk.window = Len(WindowEnds) + 1
    BY <1>1, <1>2
  <1>4. Begun = Len(WindowEnds)
    BY <1>1, <1>3 DEF Begun, Replaying
  <1>5. \A w \in Windows : \E s \in DOMAIN sessions :
          sessions[s].run = walk.run /\ sessions[s].window = w
    BY <1>1, <1>4 DEF LadderInv
  <1>6. \A s \in DOMAIN sessions : sessions[s].window \in Windows
    BY TablesTyped
  <1>7. {sessions[s].window : s \in Mine(walk.run)} = Windows
    <2>1. ASSUME NEW w \in Windows PROVE w \in {sessions[s].window : s \in Mine(walk.run)}
      BY <1>5 DEF Mine
    <2>2. {sessions[s].window : s \in Mine(walk.run)} \subseteq Windows
      BY <1>6 DEF Mine
    <2> QED BY <2>1, <2>2
  <1>8. \A s \in DOMAIN sessions : sessions[s].run = walk.run =>
          /\ Finished(s)
          /\ \A t \in DOMAIN sessions : sessions[t].run = walk.run /\ s < t =>
               sessions[s].window < sessions[t].window
    BY DEF LadderInv, Replaying
  <1>9. \A s \in Mine(walk.run) : Finished(s)
    BY <1>8 DEF Mine
  <1>10. \A s, t \in Mine(walk.run) : s < t => sessions[s].window < sessions[t].window
    BY <1>8 DEF Mine
  <1> QED BY <1>7, <1>9, <1>10 DEF Completed

LEMMA FinishRunStep ==
  ASSUME IInv, FinishRun
  PROVE  IInv'
  <1> USE DEF IInv
  <1>1. /\ walk.stage = "window" /\ AllWindowsDone /\ UNCHANGED <<history, revisions, sessions>>
        /\ ladders' = ladders \cup {walk.run} /\ walk.run \in Nat
    BY WalkTyped DEF FinishRun
  <1>2. walk' \in Walk /\ walk'.stage = "off" /\ walk'.run = walk.run /\ walk'.revision = 0
    BY <1>1 DEF FinishRun, NoWalk, Walk, Stages, CloseReasons
  <1>3. walk.run >= 1
    BY <1>1 DEF WalkInv
  <1>4. WalkStep
    BY <1>1, <1>2, <1>3 DEF WalkStep
  <1>5. TypeOK' /\ BooksInv' /\ PositionInv' /\ LessonInv'
    BY <1>2, <1>4, WalkStepKeeps
  <1>6. WalkInv' /\ HistoryInv'
    BY <1>2 DEF WalkInv, HistoryInv, Opened, Replaying
  <1>7. CompletedLadder'
    <2>1. \A r \in ladders' : Completed(r)
      BY <1>1, LadderDone, LaddersSplit DEF LadderInv
    <2>2. SessionsKept /\ DOMAIN sessions' = DOMAIN sessions
      BY <1>1, TablesTyped DEF SessionsKept, TypeOK
    <2>3. ASSUME NEW r \in ladders' PROVE Completed(r)'
      BY <1>1, <2>1, <2>2, CompletedKept
    <2>4. (\A r \in ladders : Completed(r))'
      BY <2>3
    <2> QED BY <2>4, LaddersSplit, PTL
  <1>8. LadderInv'
    BY <1>1, <1>2, <1>7 DEF LadderInv
  <1> QED BY <1>5, <1>6, <1>8

-----------------------------------------------------------------------------
(* A window begins with a book of its own. *)

LEMMA BookOpened ==
  ASSUME TypeOK, NEW row \in Session, sessions' = Append(sessions, row)
  PROVE  /\ SessionsKept /\ Len(sessions') = Len(sessions) + 1 /\ sessions' # << >>
         /\ DOMAIN sessions' = 1 .. Len(sessions) + 1
         /\ \A s \in DOMAIN sessions : sessions'[s] = sessions[s]
         /\ sessions'[Len(sessions) + 1] = row
  <1>1. sessions \in Seq(Session)
    BY DEF TypeOK
  <1>2. /\ sessions' \in Seq(Session) /\ Len(sessions) \in Nat
        /\ Len(sessions') = Len(sessions) + 1
        /\ DOMAIN sessions = 1 .. Len(sessions)
        /\ DOMAIN sessions' = 1 .. Len(sessions) + 1
        /\ \A s \in 1 .. Len(sessions) : sessions'[s] = sessions[s]
        /\ sessions'[Len(sessions) + 1] = row
    BY <1>1, AppendRow
  <1>3. SessionsKept
    BY <1>2 DEF SessionsKept
  <1>4. sessions' # << >>
    BY <1>2
  <1> QED BY <1>2, <1>3, <1>4

LEMMA OpenBookStep ==
  ASSUME IInv, OpenBook
  PROVE  IInv'
  <1> USE DEF IInv
  <1> DEFINE n == Len(sessions) + 1
             w == walk.window
             row == [run |-> walk.run, window |-> w, revision |-> walk.revision,
                     book |-> NewBook(StartingCash, FeeBps)]
  <1>1. /\ walk.stage = "open" /\ UNCHANGED <<history, revisions, ladders>>
        /\ sessions' = Append(sessions, row)
    BY DEF OpenBook
  <1>2. /\ w \in Windows /\ walk.revision \in DOMAIN revisions /\ walk.run \in Nat
        /\ walk.run >= 1 /\ w \in 1 .. Len(WindowEnds) + 1
        /\ walk.revision = Len(revisions) /\ walk.revision \in Nat
    BY <1>1, WalkTyped DEF WalkInv, LessonInv, Opened
  <1>3. /\ FirstBar(w) \in Nat \ {0} /\ WindowEnds[w] \in Nat \ {0}
        /\ FirstBar(w) <= WindowEnds[w]
        /\ w > 1 => FirstBar(w) = WindowEnds[w - 1] + 1
        /\ w = 1 => FirstBar(w) = 1
    BY <1>2, WindowFacts
  <1>4. /\ walk' \in Walk /\ walk'.stage = "replay" /\ walk'.run = walk.run
        /\ walk'.window = w /\ walk'.revision = walk.revision
        /\ walk'.bar = FirstBar(w) /\ walk'.entry = 0
    <2> DEFINE first == FirstBar(w)
    <2>1. first \in Nat /\ walk \in Walk
      BY <1>3, WalkTyped
    <2>2. walk' = [walk EXCEPT !.stage = "replay", !.bar = first, !.entry = 0, !.cost = 0,
                               !.reason = "window_end"]
      BY DEF OpenBook
    <2> HIDE DEF first
    <2>3. walk' \in Walk
      BY <2>1, <2>2 DEF Walk, Stages, CloseReasons
    <2>4. /\ walk'.stage = "replay" /\ walk'.run = walk.run /\ walk'.window = walk.window
          /\ walk'.revision = walk.revision /\ walk'.bar = first /\ walk'.entry = 0
      BY <2>1, <2>2 DEF Walk
    <2> QED BY <2>3, <2>4 DEF first
  <1> DEFINE book == NewBook(StartingCash, FeeBps)
             stop == revisions[walk.revision].profile.timeStop
  <1>5. /\ BookInv(book, FirstBar(w), WindowEnds[w], stop)
        /\ book.status = "open" /\ book.tokens = 0 /\ FillTime(book) = -1
    <2>1. StartingCash \in Nat /\ FeeBps \in Nat /\ FeeBps <= 10000
      BY WalkForwardAssumption
    <2> HIDE DEF stop
    <2> QED BY <2>1, NewBookInv
  <1>6. book \in Book
    BY <1>5 DEF BookInv
  <1> HIDE DEF book
  <1>7. /\ row \in Session /\ row.run = walk.run /\ row.window = w
        /\ row.revision = walk.revision /\ row.book = book
    BY <1>2, <1>6 DEF Session, book
  <1> HIDE DEF row
  <1>8. /\ SessionsKept /\ Len(sessions') = n /\ sessions' # << >>
        /\ DOMAIN sessions' = 1 .. n /\ n \in Nat /\ Len(sessions) \in Nat
        /\ DOMAIN sessions = 1 .. Len(sessions)
        /\ \A s \in DOMAIN sessions : sessions'[s] = sessions[s]
        /\ sessions'[n] = row /\ Current' = n
    BY <1>1, <1>7, BookOpened, TablesTyped DEF Current
  <1>9. \A s \in DOMAIN sessions' : s \in DOMAIN sessions \/ s = n
    BY <1>8
  <1>10. n \notin DOMAIN sessions /\ n \in DOMAIN sessions'
    BY <1>8
  <1>11. \A s \in DOMAIN sessions : s < n
    BY <1>8
  <1> HIDE DEF n, stop
  <1>12. TypeOK'
    <2>1. \A s \in DOMAIN sessions' : sessions'[s].revision \in DOMAIN revisions
      BY <1>2, <1>7, <1>8, <1>9, TablesTyped
    <2>2. sessions' \in Seq(Session)
      BY <1>8 DEF SessionsKept
    <2> QED BY <1>1, <1>4, <2>1, <2>2 DEF TypeOK
  <1>13. WalkInv'
    BY <1>1, <1>2, <1>4, <1>7, <1>8 DEF WalkInv
  <1>14. HistoryInv'
    <2>1. FirstBar(w) <= Len(history) + 1
      <3>1. w > 1 => WindowEnds[w - 1] <= Len(history)
        BY <1>1 DEF HistoryInv
      <3>2. Len(history) \in Nat /\ w \in Nat /\ w >= 1
        BY <1>2, TablesTyped, WindowFacts
      <3>3. w > 1 => WindowEnds[w - 1] \in Nat
        BY <1>2, WindowFacts
      <3> QED BY <1>3, <3>1, <3>2, <3>3
    <2>2. FirstBar(w) <= FirstBar(w) /\ FirstBar(w) <= WindowEnds[w] + 1
      BY <1>3
    <2>3. /\ FirstBar(walk'.window) <= walk'.bar /\ walk'.bar <= LastBar' + 1
          /\ walk'.bar <= Len(history') + 1
      BY <1>1, <1>4, <2>1, <2>2, Zenon DEF LastBar
    <2> QED BY <1>4, <2>3 DEF HistoryInv
  <1>15. CurrentBook' = book
    BY <1>7, <1>8 DEF CurrentBook
  <1>16. BooksInv'
    <2> SUFFICES ASSUME NEW s \in DOMAIN sessions' PROVE SessionInv(s)'
      BY DEF BooksInv
    <2>1. CASE s \in DOMAIN sessions
      <3>1. sessions'[s] = sessions[s] /\ SessionInv(s)
        BY <1>8, <2>1 DEF BooksInv
      <3> QED BY <1>1, <3>1 DEF SessionInv
    <2>2. CASE s = n
      <3>1. /\ sessions'[s].book = book /\ sessions'[s].window = w
            /\ sessions'[s].revision = walk.revision
        BY <1>7, <1>8, <2>2
      <3> QED BY <1>1, <1>5, <3>1 DEF SessionInv, stop
    <2> QED BY <1>9, <2>1, <2>2
  <1>17. PositionInv'
    <2> DEFINE first == FirstBar(w)
               cost == walk'.cost
               hold == LoadedProfile'.timeStop
    <2>1. -1 < first
      BY <1>3
    <2> HIDE DEF first, cost, hold
    <2>2. Position(book, first, 0, cost, hold)
      BY <1>5, <2>1 DEF Position
    <2>3. Position(CurrentBook', walk'.bar, walk'.entry, walk'.cost, LoadedProfile'.timeStop)
      BY <1>4, <1>15, <2>2 DEF first, cost, hold
    <2> QED BY <1>4, <2>3 DEF PositionInv
  <1>18. LadderInv'
    <2>1. walk.run \notin ladders /\ Begun = w - 1 /\ w \in Nat /\ w >= 1
      BY <1>1, <1>2, WindowFacts DEF LadderInv, Begun, Replaying
    <2>2. Begun' = w
      BY <1>4 DEF Begun, Replaying
    <2>3. CompletedLadder'
      <3>1. ASSUME NEW r \in ladders PROVE Completed(r)'
        <4>1. Completed(r) /\ r # walk.run
          BY <2>1, LaddersSplit DEF LadderInv
        <4> QED BY <1>7, <1>8, <1>9, <4>1, CompletedKept
      <3>2. (\A r \in ladders : Completed(r))'
        BY <1>1, <3>1
      <3> QED BY <3>2, LaddersSplit, PTL
    <2>4. \A s \in DOMAIN sessions' : sessions'[s].run <= walk'.run
      <3>1. \A s \in DOMAIN sessions : sessions[s].run <= walk.run
        BY DEF LadderInv
      <3>2. walk.run <= walk.run
        BY <1>2
      <3> QED BY <1>4, <1>7, <1>8, <1>9, <3>1, <3>2
    <2>5. ASSUME NEW v \in 1 .. w
          PROVE  \E s \in DOMAIN sessions' : sessions'[s].run = walk'.run /\ sessions'[s].window = v
      <3>1. CASE v = w
        BY <1>4, <1>7, <1>8, <1>10, <3>1
      <3>2. CASE v # w
        <4>1. v \in 1 .. Begun
          BY <2>1, <3>2
        <4>2. PICK s \in DOMAIN sessions : sessions[s].run = walk.run /\ sessions[s].window = v
          BY <1>1, <4>1 DEF LadderInv
        <4>3. s \in DOMAIN sessions' /\ sessions'[s] = sessions[s]
          BY <1>8 DEF SessionsKept
        <4>4. sessions'[s].run = walk'.run /\ sessions'[s].window = v
          BY <1>4, <4>2, <4>3
        <4> QED BY <4>3, <4>4
      <3> QED BY <3>1, <3>2
    <2>6. ASSUME NEW s \in DOMAIN sessions, sessions[s].run = walk.run
          PROVE  /\ sessions[s].window \in Nat /\ sessions[s].window < w /\ Finished(s)
                 /\ \A t \in DOMAIN sessions : sessions[t].run = walk.run /\ s < t =>
                      sessions[s].window < sessions[t].window
      <3>1. /\ sessions[s].window <= Begun /\ Finished(s)
            /\ \A t \in DOMAIN sessions : sessions[t].run = walk.run /\ s < t =>
                 sessions[s].window < sessions[t].window
        BY <1>1, <2>6 DEF LadderInv, Replaying
      <3>2. sessions[s].window \in Nat
        BY TablesTyped, WindowFacts
      <3> DEFINE v == sessions[s].window
      <3>3. v \in Nat /\ v <= w - 1
        BY <2>1, <3>1, <3>2
      <3> HIDE DEF v
      <3>4. v < w
        BY <2>1, <3>3
      <3> QED BY <3>1, <3>2, <3>4 DEF v
    <2>7. ASSUME NEW s \in DOMAIN sessions', sessions'[s].run = walk'.run
          PROVE  /\ sessions'[s].window <= w
                 /\ Finished(s)' \/ s = n
                 /\ \A t \in DOMAIN sessions' : sessions'[t].run = walk'.run /\ s < t =>
                      sessions'[s].window < sessions'[t].window
      <3>1. CASE s \in DOMAIN sessions
        <4>1. sessions'[s] = sessions[s] /\ sessions[s].run = walk.run
          BY <1>4, <1>8, <2>7, <3>1
        <4>2. /\ sessions[s].window \in Nat /\ sessions[s].window < w /\ Finished(s)
              /\ \A t \in DOMAIN sessions : sessions[t].run = walk.run /\ s < t =>
                   sessions[s].window < sessions[t].window
          BY <2>6, <3>1, <4>1
        <4>3. Finished(s)'
          BY <4>1, <4>2 DEF Finished
        <4>4. ASSUME NEW t \in DOMAIN sessions', sessions'[t].run = walk'.run, s < t
              PROVE  sessions'[s].window < sessions'[t].window
          <5>1. CASE t \in DOMAIN sessions
            BY <1>4, <1>8, <4>1, <4>2, <4>4, <5>1
          <5>2. CASE t = n
            BY <1>7, <1>8, <4>1, <4>2, <5>2
          <5> QED BY <1>9, <5>1, <5>2
        <4>5. sessions'[s].window <= w
          <5> DEFINE v == sessions[s].window
          <5>1. v \in Nat /\ v < w
            BY <4>2
          <5> HIDE DEF v
          <5>2. v <= w
            BY <2>1, <5>1
          <5> QED BY <4>1, <5>2 DEF v
        <4> QED BY <4>3, <4>4, <4>5
      <3>2. CASE s = n
        <4>1. sessions'[s].window = w /\ w <= w
          BY <1>7, <1>8, <2>1, <3>2
        <4>2. \A t \in DOMAIN sessions' : ~(s < t)
          BY <1>8, <3>2 DEF n
        <4> QED BY <3>2, <4>1, <4>2
      <3> QED BY <1>9, <3>1, <3>2
    <2>8. walk'.stage \in Replaying /\ walk'.stage # "off" /\ walk'.run \notin ladders'
      BY <1>1, <1>4, <2>1 DEF Replaying
    <2> QED BY <1>8, <2>2, <2>3, <2>4, <2>5, <2>7, <2>8 DEF LadderInv
  <1>19. LessonInv'
    <2>1. /\ Len(revisions) \in Nat \ {0} /\ DOMAIN revisions = 1 .. Len(revisions)
          /\ \A r \in DOMAIN revisions : revisions[r].source \in Nat
          /\ revisions[1].source = 0 /\ LearntBefore /\ Lessons
      BY TablesTyped, LessonsSplit DEF LessonInv
    <2>2. \A r \in DOMAIN revisions : revisions[r].source # n
      <3> SUFFICES ASSUME NEW r \in DOMAIN revisions, revisions[r].source = n PROVE FALSE
        OBVIOUS
      <3>1. n # 0
        BY <1>8 DEF n
      <3>2. r \in 2 .. Len(revisions)
        BY <2>1, <3>1
      <3>3. Lesson(r, n)
        BY <2>1, <3>1, <3>2 DEF Lessons
      <3> QED BY <1>10, <3>3 DEF Lesson
    <2>3. LearntBefore'
      <3> SUFFICES ASSUME NEW s \in DOMAIN sessions', NEW r \in 2 .. Len(revisions),
                          revisions[r].source \in 1 .. s - 1
                   PROVE  r <= sessions'[s].revision
        BY <1>1 DEF LearntBefore
      <3>1. CASE s \in DOMAIN sessions
        BY <1>8, <2>1, <3>1 DEF LearntBefore
      <3>2. CASE s = n
        BY <1>2, <1>7, <1>8, <3>2
      <3> QED BY <1>9, <3>1, <3>2
    <2>4. Lessons'
      <3> SUFFICES ASSUME NEW r \in 2 .. Len(revisions), NEW s, s = revisions[r].source, s # 0
                   PROVE  Lesson(r, s)'
        BY <1>1 DEF Lessons
      <3>1. r \in DOMAIN revisions
        BY <2>1
      <3>2. s \in Nat /\ Lesson(r, s)
        BY <2>1, <3>1 DEF Lessons
      <3>3. s \in DOMAIN sessions
        BY <3>2 DEF Lesson
      <3>4. sessions'[s].book.status = sessions[s].book.status
        BY <1>8, <3>3
      <3>5. RevisionsKept /\ \A q \in DOMAIN revisions' : q \in DOMAIN revisions
        BY <1>1, RevisionsStay
      <3> QED BY <1>8, <1>12, <3>2, <3>4, <3>5, LessonKept
    <2>5. LessonsInOrder'
      BY <2>3, <2>4, LessonsSplit, PTL
    <2>6. \A r \in walk'.revision + 1 .. Len(revisions) : revisions[r].source = 0
      BY <1>2, <1>4
    <2> QED BY <1>1, <1>2, <1>4, <1>8, <2>1, <2>2, <2>5, <2>6 DEF LessonInv
  <1> QED BY <1>12, <1>13, <1>14, <1>16, <1>17, <1>18, <1>19

-----------------------------------------------------------------------------
(* The steps that write a revision. *)

(* What a session's revision owes to its session. *)
Taught(row) ==
  /\ Current \in DOMAIN sessions /\ CurrentBook.status = "closed"
  /\ \A r \in DOMAIN revisions : revisions[r].source # Current
  /\ \A r \in sessions[Current].revision + 1 .. Len(revisions) : revisions[r].source = 0
  /\ \E reason \in Reasons : row.profile =
       Patched(revisions[sessions[Current].revision].profile,
               revisions[Len(revisions)].profile, reason)

LEMMA LessonDrawn ==
  ASSUME TypeOK, TypeOK', LessonInv, UNCHANGED sessions,
         NEW row \in Revision, revisions' = Append(revisions, row),
         row.source = 0 \/ (row.source = Current /\ Taught(row))
  PROVE  LessonsInOrder'
  <1> DEFINE n == Len(revisions) + 1
  <1>1. /\ RevisionsKept /\ Len(revisions') = n /\ revisions'[n] = row
        /\ DOMAIN revisions' = 1 .. n /\ n \in Nat /\ Len(revisions) \in Nat \ {0}
        /\ DOMAIN revisions = 1 .. Len(revisions)
        /\ \A r \in DOMAIN revisions : revisions[r].source \in Nat
        /\ LearntBefore /\ Lessons /\ revisions[1].source = 0
    BY RevisionsAppended, TablesTyped, LessonsSplit DEF LessonInv
  <1>2. \A r \in 1 .. Len(revisions) : revisions'[r] = revisions[r]
    BY <1>1 DEF RevisionsKept
  <1>3. \A r \in 2 .. n : r = n \/ r \in 2 .. Len(revisions)
    BY <1>1
  <1>4. /\ DOMAIN sessions = 1 .. Len(sessions) /\ Len(sessions) \in Nat
        /\ Current = Len(sessions)
        /\ \A s \in DOMAIN sessions : sessions[s].revision \in DOMAIN revisions
    BY TablesTyped DEF Current
  <1>5. SessionsKept
    BY DEF SessionsKept, TypeOK
  <1> HIDE DEF n
  <1>6. LearntBefore'
    <2> SUFFICES ASSUME NEW s \in DOMAIN sessions, NEW r \in 2 .. n,
                        revisions'[r].source \in 1 .. s - 1
                 PROVE  r <= sessions[s].revision
      BY <1>1 DEF LearntBefore
    <2>1. CASE r \in 2 .. Len(revisions)
      <3>1. revisions'[r] = revisions[r]
        BY <1>2, <2>1
      <3> QED BY <1>1, <2>1, <3>1 DEF LearntBefore
    <2>2. CASE r = n
      <3> DEFINE source == row.source
                 size == Len(sessions)
      <3>1. source \in 1 .. s - 1 /\ (source = 0 \/ source = size)
        BY <1>1, <1>4, <2>2
      <3>2. s \in 1 .. size /\ size \in Nat
        BY <1>4
      <3> HIDE DEF source, size
      <3> QED BY <3>1, <3>2
    <2> QED BY <1>3, <2>1, <2>2
  <1>7. Lessons'
    <2> SUFFICES ASSUME NEW r \in 2 .. n, NEW s, s = revisions'[r].source, s # 0
                 PROVE  Lesson(r, s)'
      BY <1>1 DEF Lessons
    <2>1. CASE r \in 2 .. Len(revisions)
      <3>1. revisions'[r] = revisions[r] /\ r \in DOMAIN revisions
        BY <1>1, <1>2, <2>1
      <3>2. s = revisions[r].source
        BY <3>1
      <3>3. s \in Nat /\ Lesson(r, s)
        BY <1>1, <2>1, <3>1, <3>2 DEF Lessons
      <3>4. row.source # s
        <4>1. CASE row.source = 0
          BY <4>1
        <4>2. CASE row.source = Current /\ Taught(row)
          BY <3>1, <3>2, <4>2 DEF Taught
        <4> QED BY <4>1, <4>2
      <3>5. \A q \in DOMAIN revisions' : q \in DOMAIN revisions \/ revisions'[q].source # s
        <4> SUFFICES ASSUME NEW q \in 1 .. n, q \notin 1 .. Len(revisions)
                     PROVE  revisions'[q].source # s
          BY <1>1
        <4>1. q = n
          BY <1>1 DEF n
        <4> QED BY <1>1, <3>4, <4>1
      <3>6. sessions'[s].book.status = sessions[s].book.status
        OBVIOUS
      <3> QED BY <1>1, <1>5, <2>1, <3>3, <3>5, <3>6, LessonKept
    <2>2. CASE r = n
      <3>1. s = row.source
        BY <1>1, <2>2
      <3>2. s = Current /\ Taught(row)
        BY <3>1
      <3>3. s \in DOMAIN sessions' /\ sessions'[s].book.status = "closed"
        BY <3>2 DEF Taught, CurrentBook
      <3> DEFINE loaded == sessions[s].revision
      <3>4. loaded \in 1 .. Len(revisions) /\ sessions'[s].revision = loaded
        BY <1>1, <1>4, <3>3
      <3>5. \A q \in loaded + 1 .. Len(revisions) : revisions[q].source = 0
        BY <3>2 DEF Taught
      <3>6. PICK reason \in Reasons : row.profile =
              Patched(revisions[loaded].profile, revisions[Len(revisions)].profile, reason)
        BY <3>2 DEF Taught
      <3> HIDE DEF loaded
      <3>7. loaded < r
        BY <1>1, <2>2, <3>4 DEF n
      <3>8. \A q \in loaded + 1 .. r - 1 : revisions'[q].source = 0
        <4> SUFFICES ASSUME NEW q \in loaded + 1 .. r - 1 PROVE revisions'[q].source = 0
          OBVIOUS
        <4>1. q \in loaded + 1 .. Len(revisions) /\ q \in 1 .. Len(revisions)
          BY <1>1, <2>2, <3>4 DEF n
        <4> QED BY <1>2, <3>5, <4>1
      <3>9. revisions'[r].profile =
              Patched(revisions'[loaded].profile, revisions'[r - 1].profile, reason)
        <4>1. r - 1 = Len(revisions) /\ r - 1 \in 1 .. Len(revisions)
          BY <1>1, <2>2 DEF n
        <4>2. revisions'[r - 1] = revisions[Len(revisions)] /\ revisions'[loaded] = revisions[loaded]
          BY <1>2, <3>4, <4>1
        <4> QED BY <1>1, <2>2, <3>6, <4>2
      <3>10. \A q \in 2 .. Len(revisions') : revisions'[q].source = s => q = r
        <4> SUFFICES ASSUME NEW q \in 2 .. n, q # n PROVE revisions'[q].source # s
          BY <1>1, <2>2
        <4>1. q \in 1 .. Len(revisions)
          BY <1>1, <1>3
        <4>2. revisions'[q] = revisions[q] /\ revisions[q].source # Current
          BY <1>1, <1>2, <3>2, <4>1 DEF Taught
        <4> QED BY <3>2, <4>2
      <3> QED BY <3>3, <3>4, <3>7, <3>8, <3>9, <3>10 DEF Lesson
    <2> QED BY <1>3, <2>1, <2>2
  <1> QED BY <1>6, <1>7, LessonsSplit, PTL

LEMMA PatchTyped ==
  ASSUME TypeOK, NEW row \in Revision, revisions' = Append(revisions, row),
         UNCHANGED <<history, sessions, ladders>>,
         walk' \in Walk, walk'.run = walk.run, walk'.revision = walk.revision
  PROVE  TypeOK'
  <1>1. /\ revisions' \in Seq(Revision) /\ revisions' # << >> /\ RevisionsKept
        /\ Len(revisions') = Len(revisions) + 1
    BY RevisionsAppended
  <1>2. walk.revision \in 0 .. Len(revisions) /\ Len(revisions) \in Nat
    BY WalkTyped, TablesTyped
  <1>3. walk'.revision \in 0 .. Len(revisions')
    BY <1>1, <1>2
  <1>4. \A s \in DOMAIN sessions' : sessions'[s].revision \in DOMAIN revisions'
    BY <1>1, TablesTyped DEF RevisionsKept
  <1> QED BY <1>1, <1>3, <1>4 DEF TypeOK

LEMMA ReviewWindowStep ==
  ASSUME IInv, ReviewWindow
  PROVE  IInv'
  <1> USE DEF IInv
  <1> DEFINE row == [profile |-> Patched(LoadedProfile, revisions[Len(revisions)].profile,
                                         walk.reason),
                     source |-> Current]
  <1>1. /\ walk.stage = "review" /\ UNCHANGED <<history, sessions, ladders>>
        /\ \/ walk.reason # "window_end" /\ revisions' = Append(revisions, row)
           \/ UNCHANGED revisions
    BY DEF ReviewWindow
  <1>2. /\ walk' \in Walk /\ walk'.stage = "window" /\ walk'.run = walk.run
        /\ walk'.revision = walk.revision /\ walk'.window = walk.window + 1
    <2> DEFINE next == walk.window + 1
    <2>1. walk \in Walk /\ next \in Nat
      BY WalkTyped
    <2>2. walk' = [walk EXCEPT !.stage = "window", !.window = next]
      BY DEF ReviewWindow
    <2> HIDE DEF next
    <2>3. /\ walk' \in Walk /\ walk'.stage = "window" /\ walk'.run = walk.run
          /\ walk'.revision = walk.revision /\ walk'.window = next
      BY <2>1, <2>2 DEF Walk, Stages
    <2> QED BY <2>3 DEF next
  <1>3. /\ Current \in DOMAIN sessions /\ sessions[Current].run = walk.run
        /\ sessions[Current].window = walk.window
        /\ sessions[Current].revision = walk.revision
        /\ walk.window \in Windows /\ walk.revision \in DOMAIN revisions /\ walk.run >= 1
    BY <1>1, TablesTyped DEF WalkInv, Opened, Replaying
  <1>4. /\ Len(revisions) \in Nat \ {0} /\ DOMAIN revisions = 1 .. Len(revisions)
        /\ \A r \in DOMAIN revisions : revisions[r].profile \in Profile
        /\ Current \in Nat
    BY TablesTyped DEF Current
  <1>5. CurrentBook.status = "closed" /\ CurrentBook.tokens = 0
    BY <1>1 DEF PositionInv
  <1>6. row \in Revision /\ row.source = Current
    BY <1>3, <1>4, PatchedType DEF Revision, LoadedProfile
  <1>7. walk.reason # "window_end" => Taught(row)
    <2>1. /\ \A r \in DOMAIN revisions : revisions[r].source # Current
          /\ \A r \in walk.revision + 1 .. Len(revisions) : revisions[r].source = 0
      BY <1>1 DEF LessonInv, Replaying
    <2>2. walk.reason # "window_end" => walk.reason \in Reasons
      BY WalkTyped DEF CloseReasons
    <2>3. row.profile = Patched(revisions[sessions[Current].revision].profile,
                                revisions[Len(revisions)].profile, walk.reason)
      BY <1>3 DEF LoadedProfile
    <2> HIDE DEF row
    <2> QED BY <1>3, <1>5, <2>1, <2>2, <2>3 DEF Taught
  <1> HIDE DEF row
  <1>8. TypeOK' /\ RevisionsKept
    <2>1. CASE revisions' = Append(revisions, row)
      BY <1>1, <1>2, <1>6, <2>1, PatchTyped, RevisionsAppended
    <2>2. CASE UNCHANGED revisions
      BY <1>1, <1>2, <2>2, RevisionsStay DEF TypeOK
    <2> QED BY <1>1, <2>1, <2>2
  <1>9. BooksInv'
    BY <1>1, <1>8, BooksKept
  <1>10. LessonsInOrder' /\ revisions'[1].source = 0
    <2>1. CASE walk.reason # "window_end" /\ revisions' = Append(revisions, row)
      <3>1. LessonsInOrder'
        BY <1>1, <1>6, <1>7, <1>8, <2>1, LessonDrawn
      <3>2. 1 \in DOMAIN revisions /\ revisions[1].source = 0
        BY <1>4 DEF LessonInv
      <3> QED BY <1>8, <3>1, <3>2 DEF RevisionsKept
    <2>2. CASE UNCHANGED revisions
      BY <1>1, <2>2, Zenon DEF LessonInv, LessonsInOrder
    <2> QED BY <1>1, <2>1, <2>2
  <1>11. LessonInv'
    BY <1>2, <1>10 DEF LessonInv, Opened, Replaying
  <1>12. PositionInv'
    BY <1>2 DEF PositionInv
  <1>13. WalkInv' /\ walk.window \in Nat \ {0}
    BY <1>2, <1>3, WindowFacts DEF WalkInv, Opened, Replaying
  <1>14. HistoryInv'
    <2>1. LastBar <= Len(history)
      BY <1>1 DEF HistoryInv
    <2>2. walk'.window - 1 = walk.window
      BY <1>2, <1>13
    <2> QED BY <1>1, <1>2, <2>1, <2>2 DEF HistoryInv, LastBar
  <1>15. LadderInv'
    <2>1. CompletedLadder'
      BY <1>1, LadderStays DEF LadderInv
    <2>2. walk.run \notin ladders /\ Begun = walk.window
      BY <1>1 DEF LadderInv, Begun, Replaying
    <2>3. Begun' = walk.window
      BY <1>2, <1>13 DEF Begun, Replaying
    <2>4. Finished(Current)
      BY <1>5 DEF Finished, CurrentBook
    <2>5. /\ \A s \in DOMAIN sessions : sessions[s].run <= walk.run
          /\ \A w \in 1 .. walk.window : \E s \in DOMAIN sessions :
               sessions[s].run = walk.run /\ sessions[s].window = w
      BY <1>1, <2>2 DEF LadderInv
    <2>6. \A s \in DOMAIN sessions : sessions[s].run = walk.run =>
            /\ sessions[s].window <= walk.window /\ Finished(s)
            /\ \A t \in DOMAIN sessions : sessions[t].run = walk.run /\ s < t =>
                 sessions[s].window < sessions[t].window
      BY <1>1, <2>2, <2>4 DEF LadderInv
    <2>7. \A s \in DOMAIN sessions : Finished(s) => Finished(s)'
      BY <1>1 DEF Finished
    <2> QED BY <1>1, <1>2, <2>1, <2>2, <2>3, <2>5, <2>6, <2>7 DEF LadderInv
  <1> QED BY <1>8, <1>9, <1>11, <1>12, <1>13, <1>14, <1>15

LEMMA LivePatchStep ==
  ASSUME IInv, LivePatch
  PROVE  IInv'
  <1> USE DEF IInv
  <1>1. /\ walk.stage \in {"window", "review"}
        /\ UNCHANGED <<history, sessions, ladders, walk>>
    BY DEF LivePatch
  <1>2. PICK loaded \in DOMAIN revisions, reason \in LiveReasons :
          revisions' = Append(revisions,
            [profile |-> Patched(revisions[loaded].profile, revisions[Len(revisions)].profile,
                                 reason),
             source |-> 0])
    BY DEF LivePatch
  <1> DEFINE row == [profile |-> Patched(revisions[loaded].profile,
                                         revisions[Len(revisions)].profile, reason),
                     source |-> 0]
  <1>3. /\ Len(revisions) \in Nat \ {0} /\ DOMAIN revisions = 1 .. Len(revisions)
        /\ \A r \in DOMAIN revisions : revisions[r].profile \in Profile
        /\ walk \in Walk /\ walk.revision \in Nat
    BY TablesTyped, WalkTyped
  <1>4. row \in Revision /\ row.source = 0
    BY <1>3, PatchedType DEF Revision
  <1>5. revisions' = Append(revisions, row)
    BY <1>2
  <1> HIDE DEF row
  <1>6. TypeOK'
    BY <1>1, <1>3, <1>4, <1>5, PatchTyped
  <1>7. /\ RevisionsKept /\ Len(revisions') = Len(revisions) + 1
        /\ revisions'[Len(revisions) + 1] = row
        /\ DOMAIN revisions' = 1 .. Len(revisions) + 1
    BY <1>4, <1>5, RevisionsAppended
  <1>8. \A r \in DOMAIN revisions : r \in DOMAIN revisions' /\ revisions'[r] = revisions[r]
    BY <1>7 DEF RevisionsKept
  <1>9. BooksInv'
    BY <1>1, <1>7, BooksKept
  <1>10. WalkInv'
    <2>1. walk.revision \in DOMAIN revisions => walk.revision \in DOMAIN revisions'
      BY <1>8
    <2> QED BY <1>1, <2>1 DEF WalkInv, Current
  <1>11. HistoryInv'
    BY <1>1 DEF HistoryInv, LastBar
  <1>12. CurrentBook' = CurrentBook /\ Current' = Current
    BY <1>1 DEF CurrentBook, Current
  <1>13. PositionInv'
    BY <1>1, <1>12 DEF PositionInv
  <1>14. LadderInv'
    <2>1. CompletedLadder' /\ Begun' = Begun
      BY <1>1, LadderStays DEF LadderInv, Begun
    <2>2. \A s \in DOMAIN sessions : Finished(s)' <=> Finished(s)
      BY <1>1 DEF Finished
    <2> QED BY <1>1, <1>12, <2>1, <2>2 DEF LadderInv
  <1>15. LessonsInOrder'
    BY <1>1, <1>4, <1>5, <1>6, LessonDrawn
  <1>16. LessonInv'
    <2>1. revisions'[1].source = 0
      BY <1>3, <1>8 DEF LessonInv
    <2>2. ASSUME walk.stage \in Replaying
          PROVE  /\ \A r \in DOMAIN revisions' : revisions'[r].source # Current
                 /\ \A r \in walk.revision + 1 .. Len(revisions') : revisions'[r].source = 0
      <3>1. /\ \A r \in DOMAIN revisions : revisions[r].source # Current
            /\ \A r \in walk.revision + 1 .. Len(revisions) : revisions[r].source = 0
        BY <2>2 DEF LessonInv
      <3>2. Current # 0
        BY <2>2, TablesTyped DEF WalkInv, Current
      <3>3. \A r \in DOMAIN revisions' : r \in DOMAIN revisions \/ r = Len(revisions) + 1
        BY <1>3, <1>7
      <3>4. \A r \in DOMAIN revisions' : revisions'[r].source # Current
        BY <1>4, <1>7, <1>8, <3>1, <3>2, <3>3
      <3>5. ASSUME NEW r \in walk.revision + 1 .. Len(revisions')
            PROVE  revisions'[r].source = 0
        <4>1. CASE r = Len(revisions) + 1
          BY <1>4, <1>7, <4>1
        <4>2. CASE r # Len(revisions) + 1
          <5>1. r \in walk.revision + 1 .. Len(revisions) /\ r \in DOMAIN revisions
            BY <1>3, <1>7, <4>2
          <5> QED BY <1>8, <3>1, <5>1
        <4> QED BY <4>1, <4>2
      <3> QED BY <3>4, <3>5
    <2>3. walk'.stage \notin Opened \ {"review"}
      BY <1>1 DEF Opened
    <2> QED BY <1>1, <1>12, <1>15, <2>1, <2>2, <2>3 DEF LessonInv
  <1> QED BY <1>6, <1>9, <1>10, <1>11, <1>13, <1>14, <1>16

-----------------------------------------------------------------------------
(* The invariant. *)

LEMMA IInvInit == Init => IInv
  <1> SUFFICES ASSUME Init PROVE IInv
    OBVIOUS
  <1>1. /\ history = << >> /\ sessions = << >> /\ ladders = {} /\ walk = NoWalk(0)
        /\ revisions = << [profile |-> InitialProfile, source |-> 0] >>
    BY DEF Init
  <1> DEFINE row == [profile |-> InitialProfile, source |-> 0]
  <1>2. row \in Revision /\ row.source = 0
    BY WalkForwardAssumption DEF Revision
  <1> HIDE DEF row
  <1>3. /\ revisions \in Seq(Revision) /\ revisions # << >> /\ Len(revisions) = 1
        /\ revisions[1].source = 0 /\ DOMAIN revisions = 1 .. 1
    BY <1>1, <1>2 DEF row
  <1>4. /\ history \in Seq(Bars) /\ sessions \in Seq(Session) /\ DOMAIN sessions = {}
        /\ Len(history) = 0
    BY <1>1
  <1>5. walk \in Walk /\ walk.stage = "off" /\ walk.revision = 0 /\ walk.run = 0
    BY <1>1 DEF NoWalk, Walk, Stages, CloseReasons
  <1>6. TypeOK
    BY <1>1, <1>3, <1>4, <1>5 DEF TypeOK
  <1>7. WalkInv /\ HistoryInv /\ PositionInv
    BY <1>5 DEF WalkInv, HistoryInv, PositionInv, Opened, Replaying
  <1>8. BooksInv
    BY <1>4 DEF BooksInv
  <1>9. LadderInv
    BY <1>1, <1>4, <1>5 DEF LadderInv, CompletedLadder
  <1>10. LessonsInOrder
    BY <1>3, <1>4 DEF LessonsInOrder
  <1>11. LessonInv
    BY <1>3, <1>5, <1>10 DEF LessonInv, Opened, Replaying
  <1> QED BY <1>6, <1>7, <1>8, <1>9, <1>11 DEF IInv

LEMMA IInvStutter == IInv /\ UNCHANGED vars => IInv'
  <1> SUFFICES ASSUME IInv, UNCHANGED vars PROVE IInv'
    OBVIOUS
  <1>1. UNCHANGED <<history, revisions, sessions, ladders, walk>>
    BY DEF vars
  <1>2. TypeOK' /\ WalkInv'
    BY <1>1 DEF IInv, TypeOK, WalkInv, Current
  <1>3. HistoryInv' /\ PositionInv'
    BY <1>1 DEF IInv, HistoryInv, PositionInv, LastBar, CurrentBook, Current, LoadedProfile
  <1>4. BooksInv'
    BY <1>1, RevisionsStay, BooksKept DEF IInv
  <1>5. CompletedLadder' /\ LessonsInOrder'
    <2>1. LessonsInOrder'
      BY <1>1, Zenon DEF IInv, LessonInv, LessonsInOrder
    <2> QED BY <1>1, <2>1, LadderStays DEF IInv, LadderInv
  <1>6. \A s \in DOMAIN sessions : Finished(s)' <=> Finished(s)
    BY <1>1 DEF Finished
  <1>7. Begun' = Begun /\ Current' = Current
    BY <1>1 DEF Begun, Current
  <1>8. LadderInv' /\ LessonInv'
    BY <1>1, <1>5, <1>6, <1>7 DEF IInv, LadderInv, LessonInv
  <1> QED BY <1>2, <1>3, <1>4, <1>8 DEF IInv

LEMMA IInvStep == IInv /\ [Next]_vars => IInv'
  <1> SUFFICES ASSUME IInv, [Next]_vars PROVE IInv'
    OBVIOUS
  <1>1. TypeOK /\ WalkInv /\ HistoryInv /\ BooksInv /\ PositionInv /\ LadderInv /\ LessonInv
    BY DEF IInv
  <1>2. ASSUME ReplayBar \/ EndReplay \/ Settle \/ CloseBook PROVE IInv'
    <2>1. InWindow /\ TypeOK' /\ HistoryInv' /\ BooksInv' /\ PositionInv'
      BY <1>1, <1>2, ReplayBarStep, EndReplayStep, SettleStep, CloseBookStep
    <2>2. WalkInv' /\ LadderInv' /\ LessonInv'
      BY <1>1, <2>1, InWindowWalk, InWindowLadder, InWindowLesson
    <2> QED BY <2>1, <2>2 DEF IInv
  <1>3. CASE StartRun \/ Abort \/ LoadWindow \/ FinishRun
    BY <1>3, StartRunStep, AbortStep, LoadWindowStep, FinishRunStep
  <1>4. CASE OpenBook \/ ReviewWindow \/ LivePatch
    BY <1>4, OpenBookStep, ReviewWindowStep, LivePatchStep
  <1>5. CASE UNCHANGED vars
    BY <1>5, IInvStutter
  <1> QED BY <1>2, <1>3, <1>4, <1>5 DEF Next

(* The books, the window of every session and the position of the run belong *)
(* together at every step, whatever the bars, the windows and the amounts.   *)
THEOREM WalkInvariance == Spec => []IInv
  BY IInvInit, IInvStep, PTL DEF Spec

(* No sequence of windows and live patches takes the profile out of its      *)
(* bounds (_build_profile_patch), and no row refers to one that is not there. *)
THEOREM WalkTypeOK == Spec => []TypeOK
  <1>1. IInv => TypeOK
    BY DEF IInv
  <1> QED BY <1>1, WalkInvariance, PTL

(* Cash, basis and realized result of every book of BacktestTruthOwner add up *)
(* to its starting cash, for every price, fee below 100 % and stopping point. *)
THEOREM WalkBooksBalance == Spec => []BooksBalance
  <1>1. ASSUME IInv PROVE BooksBalance
    <2> SUFFICES ASSUME NEW s \in DOMAIN sessions PROVE Balanced(sessions[s].book)
      BY DEF BooksBalance
    <2>1. SessionInv(s)
      BY <1>1 DEF IInv, BooksInv
    <2> QED BY <2>1 DEF SessionInv, BookInv, Sound, Balanced
  <1> QED BY <1>1, WalkInvariance, PTL

(* The fills of a window alternate, lie in it, and no position outlives the   *)
(* time stop it was opened under (_historical_exit_reason).                   *)
THEOREM WalkTradesInTurn == Spec => []TradesInTurn
  <1>1. ASSUME IInv PROVE TradesInTurn
    <2> SUFFICES ASSUME NEW s \in DOMAIN sessions, NEW i \in DOMAIN sessions[s].book.fills
                 PROVE  LET fills == sessions[s].book.fills
                            w == sessions[s].window
                        IN /\ FirstBar(w) <= fills[i].at /\ fills[i].at <= WindowEnds[w]
                           /\ fills[i].side = IF i % 2 = 1 THEN "buy" ELSE "sell"
                           /\ i > 1 => fills[i - 1].at < fills[i].at
                           /\ i % 2 = 0 =>
                                /\ fills[i].tokens = fills[i - 1].tokens
                                /\ fills[i].at - fills[i - 1].at <=
                                     revisions[sessions[s].revision].profile.timeStop
      BY DEF TradesInTurn
    <2>1. SessionInv(s)
      BY <1>1 DEF IInv, BooksInv
    <2> DEFINE fills == sessions[s].book.fills
               first == FirstBar(sessions[s].window)
               last == WindowEnds[sessions[s].window]
               stop == revisions[sessions[s].revision].profile.timeStop
    <2>2. fills \in Seq(FillRow) /\ InTurn(fills, first, last, stop)
      BY <2>1, BookParts DEF SessionInv
    <2>3. i \in 1 .. Len(fills)
      BY <2>2
    <2>4. Turn(i, fills[i], fills[i - 1], first, last, stop)
      BY <2>2, <2>3 DEF InTurn
    <2> QED BY <2>4 DEF Turn
  <1> QED BY <1>1, WalkInvariance, PTL

(* A run that wrote completed_ladder has replayed every window once, in order, *)
(* and left every book closed and empty.                                       *)
THEOREM WalkCompletedLadder == Spec => []CompletedLadder
  <1>1. IInv => CompletedLadder
    BY DEF IInv, LadderInv
  <1> QED BY <1>1, WalkInvariance, PTL

(* A window is replayed with all that the windows before it taught, and each   *)
(* revision of a replay is one closed book's lesson on the profile it used.    *)
THEOREM WalkLessonsInOrder == Spec => []LessonsInOrder
  <1>1. IInv => LessonsInOrder
    BY DEF IInv, LessonInv
  <1> QED BY <1>1, WalkInvariance, PTL
=============================================================================
