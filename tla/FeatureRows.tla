---- MODULE FeatureRows ----
(***************************************************************************)
(* What features/materializer.py computes from the truth tables, as far as *)
(* the properties tell rows apart: the minutes and the quarter hours that  *)
(* get a row, the market data a row takes, and the macro value it joins.   *)
(* Times are minutes; a date is a day number.                              *)
(***************************************************************************)
EXTENDS Integers, FiniteSets, SequencesExt

BucketMinutes == 15

BucketStart(t) == t - (t % BucketMinutes)
BucketEnd(b) == b + BucketMinutes
DateOf(t) == t \div (24 * 60)

NoValue == 0

(* Observations as the query returns them, a later capture of a date last; *)
(* no two rows have both date and time of capture in common.               *)
Before(r, s) == r.date < s.date \/ (r.date = s.date /\ r.at < s.at)

InFredOrder(rows) ==
    [i \in 1..Cardinality(rows) |->
        CHOOSE r \in rows : Cardinality({s \in rows : Before(s, r)}) = i - 1]

FredValueAnyCapture(rows, date, end) ==
    LET Seen(acc, r) == IF r.date <= date THEN r.value ELSE acc
    IN  FoldLeft(Seen, NoValue, InFredOrder(rows))

(* The loop of the join: the last observation seen whose date is not after *)
(* the row's and that was captured by the end of its bucket; the loop ends *)
(* at the first date after the row's.                                      *)
FredFeatureValue(rows, date, end) ==
    LET Seen(acc, r) ==
          CASE ~acc.open -> acc
            [] acc.open /\ r.date <= date /\ r.at <= end -> [acc EXCEPT !.value = r.value]
            [] acc.open /\ r.date <= date /\ r.at > end -> acc
            [] acc.open /\ r.date > date -> [acc EXCEPT !.open = FALSE]
    IN  FoldLeft(Seen, [value |-> NoValue, open |-> TRUE], InFredOrder(rows)).value

(* One row per quarter hour with a candle of a venue of a proxy product.   *)
GlobalBuckets(candles) == {BucketStart(c) : c \in candles}

GlobalRow(fred, b) == [macro |-> FredFeatureValue(fred, DateOf(b), BucketEnd(b))]

GlobalRegimeRows(candles, fred) == [b \in GlobalBuckets(candles) |-> GlobalRow(fred, b)]

(* One row per minute with a price of a tracked mint.                      *)
SpotChainRows(prices, fred) ==
    [t \in prices |-> [macro |-> FredFeatureValue(fred, DateOf(t), t + 1)]]
====
