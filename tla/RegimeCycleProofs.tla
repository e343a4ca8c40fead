---- MODULE RegimeCycleProofs ----
(***************************************************************************)
(* Theorems of RegimeCycle, for any options of cycle and collector, any    *)
(* manual captures, any start, any reach of a candle capture, any values   *)
(* of the macro series, any lengths of time between steps and any number   *)
(* of faults, crashes and ticks.                                           *)
(***************************************************************************)
EXTENDS RegimeCycle, TLAPS, FiniteSetTheorems, WellFoundedInduction

Observation == [date : Nat, at : Nat, value : Values]

(* The table of observations: finite, and no two rows of one date captured *)
(* at one time.                                                            *)
Keyed(rows) ==
    /\ IsFiniteSet(rows) /\ rows \subseteq Observation
    /\ \A r, s \in rows : r.date = s.date /\ r.at = s.at => r = s

-----------------------------------------------------------------------------
(* Sets of numbers.                                                        *)

LEMMA LeastNat ==
    ASSUME NEW T, T \subseteq Nat, T # {}
    PROVE  \E x \in T : \A y \in T : x <= y
  <1>1. \E x \in T : \A y \in T : <<y, x>> \notin OpToRel(<, Nat)
    BY NatLessThanWellFounded, WFMin
  <1>2. PICK x \in T : \A y \in T : <<y, x>> \notin OpToRel(<, Nat)
    BY <1>1
  <1>3. ASSUME NEW y \in T PROVE x <= y
    <2>1. x \in Nat /\ y \in Nat
      OBVIOUS
    <2>2. <<y, x>> \in Nat \X Nat /\ <<y, x>>[1] = y /\ <<y, x>>[2] = x
      BY <2>1
    <2>3. ~(y < x)
      BY <1>2, <2>2 DEF OpToRel
    <2>q. QED BY <2>1, <2>3
  <1>q. QED BY <1>3

LEMMA MaxOf ==
    ASSUME NEW n \in Nat, NEW T, T \subseteq 1..n, T # {}
    PROVE  Max(T) \in T /\ \A i \in T : i <= Max(T)
  <1> DEFINE Gaps == {n - i : i \in T}
  <1>1. Gaps \subseteq Nat /\ Gaps # {}
    <2>1. \A i \in T : n - i \in Nat
      OBVIOUS
    <2>2. PICK i \in T : TRUE
      OBVIOUS
    <2>3. n - i \in Gaps
      OBVIOUS
    <2>q. QED BY <2>1, <2>3
  <1>2. PICK g \in Gaps : \A h \in Gaps : g <= h
    BY <1>1, LeastNat
  <1>3. PICK m \in T : g = n - m
    OBVIOUS
  <1>4. \A i \in T : m >= i
    <2> SUFFICES ASSUME NEW i \in T PROVE m >= i
      OBVIOUS
    <2>1. g <= n - i
      BY <1>2
    <2>q. QED BY <1>3, <2>1
  <1>5. \E x \in T : \A y \in T : x >= y
    BY <1>4
  <1>6. Max(T) \in T /\ \A y \in T : Max(T) >= y
    BY <1>5 DEF Max
  <1>q. QED BY <1>6

-----------------------------------------------------------------------------
(* InFredOrder lists the observations, each once, by date and capture.     *)

Earlier(rows, r) == {s \in rows : Before(s, r)}
Rank(rows) == [r \in rows |-> Cardinality(Earlier(rows, r)) + 1]

LEMMA BeforeIsTotal ==
    ASSUME NEW rows, Keyed(rows), NEW r \in rows, NEW s \in rows
    PROVE  /\ Before(r, s) \/ Before(s, r) \/ r = s
           /\ ~(Before(r, s) /\ Before(s, r)) /\ ~Before(r, r)
  BY DEF Before, Keyed, Observation

LEMMA BeforeIsTransitive ==
    ASSUME NEW rows, Keyed(rows), NEW r \in rows, NEW s \in rows, NEW t \in rows,
           Before(r, s), Before(s, t)
    PROVE  Before(r, t)
  BY DEF Before, Keyed, Observation

LEMMA RankType ==
    ASSUME NEW rows, Keyed(rows), NEW r \in rows
    PROVE  /\ IsFiniteSet(Earlier(rows, r))
           /\ Rank(rows)[r] \in 1..Cardinality(rows)
           /\ Rank(rows)[r] = Cardinality(Earlier(rows, r)) + 1
  <1>1. IsFiniteSet(rows)
    BY DEF Keyed
  <1>2. Earlier(rows, r) \in SUBSET rows /\ r \notin Earlier(rows, r)
    BY BeforeIsTotal DEF Earlier
  <1>3. IsFiniteSet(Earlier(rows, r)) /\ Cardinality(Earlier(rows, r)) <= Cardinality(rows)
        /\ Cardinality(Earlier(rows, r)) # Cardinality(rows)
    BY <1>1, <1>2, FS_Subset, Zenon
  <1>4. Cardinality(Earlier(rows, r)) \in Nat /\ Cardinality(rows) \in Nat
    BY <1>1, <1>3, FS_CardinalityType
  <1>5. Rank(rows)[r] = Cardinality(Earlier(rows, r)) + 1
    BY DEF Rank
  <1>q. QED BY <1>3, <1>4, <1>5

LEMMA RankGrows ==
    ASSUME NEW rows, Keyed(rows), NEW r \in rows, NEW s \in rows, Before(r, s)
    PROVE  Rank(rows)[r] < Rank(rows)[s]
  <1>1. Earlier(rows, r) \subseteq Earlier(rows, s)
    BY BeforeIsTransitive DEF Earlier
  <1>2. r \in Earlier(rows, s) /\ r \notin Earlier(rows, r)
    BY BeforeIsTotal DEF Earlier
  <1> DEFINE A == Earlier(rows, r)
             B == Earlier(rows, s)
  <1>3. IsFiniteSet(A) /\ IsFiniteSet(B) /\ Rank(rows)[r] = Cardinality(A) + 1
        /\ Rank(rows)[s] = Cardinality(B) + 1
    BY RankType
  <1>4. A \in SUBSET B /\ A # B
    BY <1>1, <1>2
  <1> HIDE DEF A, B
  <1>5. Cardinality(A) <= Cardinality(B) /\ Cardinality(A) # Cardinality(B)
    BY <1>3, <1>4, FS_Subset, Zenon
  <1>6. Cardinality(A) \in Nat /\ Cardinality(B) \in Nat
    BY <1>3, FS_CardinalityType
  <1>q. QED BY <1>3, <1>5, <1>6

LEMMA RankIsOnto ==
    ASSUME NEW rows, Keyed(rows), NEW i \in 1..Cardinality(rows)
    PROVE  \E r \in rows : Rank(rows)[r] = i
  <1> DEFINE n == Cardinality(rows)
  <1>0. IsFiniteSet(rows) /\ n \in Nat
    BY FS_CardinalityType DEF Keyed
  <1>1. Rank(rows) \in [rows -> 1..n]
    <2>1. \A r \in rows : Rank(rows)[r] \in 1..n
      BY RankType
    <2>q. QED BY <2>1 DEF Rank
  <1>2. ASSUME NEW r \in rows, NEW s \in rows, Rank(rows)[r] = Rank(rows)[s]
        PROVE  r = s
    <2>1. Rank(rows)[r] \in 1..n /\ Rank(rows)[s] \in 1..n
      BY RankType
    <2>2. ~Before(r, s) /\ ~Before(s, r)
      BY <1>2, <2>1, RankGrows
    <2>q. QED BY <2>2, BeforeIsTotal
  <1> HIDE DEF n
  <1>3. DOMAIN Rank(rows) = rows
    BY <1>1
  <1>4. Rank(rows) \in Injection(rows, 1..n)
    BY <1>1, <1>2, <1>3 DEF Injection, IsInjective
  <1>5. IsFiniteSet(1..n) /\ Cardinality(1..n) = n
    BY <1>0, FS_Interval
  <1>6. Cardinality(rows) = Cardinality(1..n)
    BY <1>5 DEF n
  <1>7. Rank(rows) \in Surjection(rows, 1..n)
    BY <1>4, <1>5, <1>6, FS_Injection
  <1>8. i \in 1..n
    BY DEF n
  <1>q. QED BY <1>7, <1>8 DEF Surjection

(* A list of the rows in order.                                            *)
Listing(q, rows) ==
    /\ DOMAIN q = 1..Cardinality(rows)
    /\ \A i \in DOMAIN q : q[i] \in rows
    /\ \A r \in rows : \E i \in DOMAIN q : q[i] = r
    /\ \A i, j \in DOMAIN q : i < j => Before(q[i], q[j])

LEMMA FredOrderIsListing ==
    ASSUME NEW rows, Keyed(rows)
    PROVE  Listing(InFredOrder(rows), rows)
  <1> DEFINE q == InFredOrder(rows)
             n == Cardinality(rows)
             R == Rank(rows)
  <1>0. n \in Nat
    BY FS_CardinalityType DEF Keyed
  <1>1. DOMAIN q = 1..n
    BY DEF InFredOrder
  <1>2. ASSUME NEW i \in 1..n PROVE q[i] \in rows /\ R[q[i]] = i
    <2>1. q[i] = CHOOSE r \in rows : Cardinality(Earlier(rows, r)) = i - 1
      BY DEF InFredOrder, Earlier
    <2>2. PICK r \in rows : R[r] = i
      BY RankIsOnto
    <2>3. \A s \in rows : R[s] = Cardinality(Earlier(rows, s)) + 1
                          /\ Cardinality(Earlier(rows, s)) \in Nat
      BY RankType, FS_CardinalityType
    <2> HIDE DEF R
    <2>4. Cardinality(Earlier(rows, r)) = i - 1
      BY <1>0, <2>2, <2>3
    <2>5. q[i] \in rows /\ Cardinality(Earlier(rows, q[i])) = i - 1
      BY <2>1, <2>4
    <2>q. QED BY <1>0, <2>3, <2>5
  <1>3. ASSUME NEW r \in rows PROVE \E i \in 1..n : q[i] = r
    <2>1. R[r] \in 1..n
      BY RankType
    <2>2. q[R[r]] \in rows /\ R[q[R[r]]] = R[r]
      BY <1>2, <2>1
    <2>3. ~Before(r, q[R[r]]) /\ ~Before(q[R[r]], r)
      <3>1. R[r] \in Nat
        BY <2>1
      <3>q. QED BY <3>1, <2>2, RankGrows
    <2>4. q[R[r]] = r
      BY <2>2, <2>3, BeforeIsTotal
    <2>q. QED BY <2>1, <2>4
  <1>4. ASSUME NEW i \in 1..n, NEW j \in 1..n, i < j PROVE Before(q[i], q[j])
    <2>1. q[i] \in rows /\ q[j] \in rows /\ R[q[i]] = i /\ R[q[j]] = j
      BY <1>2
    <2>2. q[i] # q[j]
      BY <1>4, <2>1
    <2>3. ~Before(q[j], q[i])
      BY <1>4, <2>1, RankGrows
    <2>q. QED BY <2>1, <2>2, <2>3, BeforeIsTotal
  <1> HIDE DEF q, n, R
  <1>5. Listing(q, rows)
    BY <1>1, <1>2, <1>3, <1>4 DEF Listing, n
  <1>q. QED BY <1>5 DEF q

-----------------------------------------------------------------------------
(* FredFeatureValue: its loop, and what it has found after some positions. *)

Nothing == [value |-> NoValue, open |-> TRUE]

(* One turn of the loop.                                                   *)
SeenOne(acc, r, date, end) ==
    CASE ~acc.open -> acc
      [] acc.open /\ r.date <= date /\ r.at <= end -> [acc EXCEPT !.value = r.value]
      [] acc.open /\ r.date <= date /\ r.at > end -> acc
      [] acc.open /\ r.date > date -> [acc EXCEPT !.open = FALSE]

Turn(f, q, s, date, end) ==
    IF s = {} THEN Nothing ELSE SeenOne(f[s \ {Max(s)}], q[Max(s)], date, end)

Loop(f, q, date, end) == [s \in SUBSET DOMAIN q |-> Turn(f, q, s, date, end)]

LEMMA FeatureValueUnfolds ==
    ASSUME NEW rows, NEW date, NEW end, NEW q, q = InFredOrder(rows)
    PROVE  FredFeatureValue(rows, date, end)
             = (CHOOSE f : f = Loop(f, q, date, end))[DOMAIN q].value
  BY DEF FredFeatureValue, FoldLeft, MapThenFoldSet, Loop, Turn, SeenOne, Nothing

(* The positions whose observation counts, and the last of them.           *)
Taken(q, s, date, end) == {i \in s : q[i].date <= date /\ q[i].at <= end}
Held(q, s, date, end) ==
    IF Taken(q, s, date, end) = {} THEN NoValue ELSE q[Max(Taken(q, s, date, end))].value
Open(q, s, date) == \A i \in s : q[i].date <= date

Result(q, s, date, end) == [value |-> Held(q, s, date, end), open |-> Open(q, s, date)]
Found(q, date, end) == [s \in SUBSET DOMAIN q |-> Result(q, s, date, end)]

States == [value : Values \cup {NoValue}, open : BOOLEAN]

LEMMA SeenTaken ==
    ASSUME NEW acc \in States, acc.open = TRUE,
           NEW r, NEW date \in Nat, NEW end \in Nat, r \in Observation,
           r.date <= date, r.at <= end
    PROVE  LET new == SeenOne(acc, r, date, end)
           IN  new \in States /\ new.value = r.value /\ new.open = TRUE
  <1>1. r.date \in Nat /\ r.at \in Nat /\ r.value \in Values \cup {NoValue}
    BY DEF Observation
  <1> DEFINE new == [acc EXCEPT !.value = r.value]
  <1>2. new \in States /\ new.value = r.value /\ new.open = TRUE
    BY <1>1 DEF States
  <1>3. ~(r.at > end) /\ ~(r.date > date)
    BY <1>1
  <1>4. SeenOne(acc, r, date, end) = new
    BY <1>3 DEF SeenOne
  <1>q. QED BY <1>2, <1>4

LEMMA SeenTooLate ==
    ASSUME NEW acc \in States, acc.open = TRUE,
           NEW r, NEW date \in Nat, NEW end \in Nat, r \in Observation, r.date > date
    PROVE  LET new == SeenOne(acc, r, date, end)
           IN  new \in States /\ new.value = acc.value /\ new.open = FALSE
  <1>1. ~(r.date <= date)
    BY DEF Observation
  <1> DEFINE new == [acc EXCEPT !.open = FALSE]
  <1>2. new \in States /\ new.value = acc.value /\ new.open = FALSE
    BY DEF States
  <1>3. SeenOne(acc, r, date, end) = new
    BY <1>1 DEF SeenOne
  <1>q. QED BY <1>2, <1>3

LEMMA SameState ==
    ASSUME NEW acc \in States, NEW new \in States, acc.value = new.value, acc.open = new.open
    PROVE  acc = new
  BY DEF States

LEMMA ResultType ==
    ASSUME NEW rows, Keyed(rows), NEW q, Listing(q, rows), NEW date, NEW end,
           NEW s \in SUBSET DOMAIN q
    PROVE  LET state == Result(q, s, date, end)
           IN  /\ state \in States
               /\ state.value = Held(q, s, date, end) /\ state.open = Open(q, s, date)
  <1>1. Held(q, s, date, end) \in Values \cup {NoValue}
    <2> DEFINE known == Taken(q, s, date, end)
    <2>1. CASE known = {}
      BY <2>1 DEF Held
    <2>2. CASE known # {}
      <3>1. known \subseteq s
        BY DEF Taken
      <3>2. Max(known) \in s
        BY <2>2, <3>1, MaxOf, FS_CardinalityType DEF Listing, Keyed
      <3>3. q[Max(known)] \in Observation
        BY <3>2 DEF Listing, Keyed
      <3>q. QED BY <2>2, <3>3 DEF Held, Observation
    <2>q. QED BY <2>1, <2>2
  <1>2. Open(q, s, date) \in BOOLEAN
    BY DEF Open
  <1>q. QED BY <1>1, <1>2 DEF Result, States

LEMMA ResultOfNothing ==
    ASSUME NEW q, NEW date, NEW end
    PROVE  Result(q, {}, date, end) = Nothing
  <1>1. Taken(q, {}, date, end) = {} /\ Open(q, {}, date) = TRUE
    BY DEF Taken, Open
  <1>q. QED BY <1>1 DEF Result, Held, Nothing

LEMMA ResultOfMore ==
    ASSUME NEW rows, Keyed(rows), NEW q, Listing(q, rows), NEW date \in Nat, NEW end \in Nat,
           NEW s \in SUBSET DOMAIN q, s # {}
    PROVE  Result(q, s, date, end)
             = SeenOne(Result(q, s \ {Max(s)}, date, end), q[Max(s)], date, end)
  <1> DEFINE m == Max(s)
             t == s \ {m}
             r == q[m]
             known == Taken(q, t, date, end)
  <1>1. m \in s /\ \A i \in s : i <= m
    BY MaxOf, FS_CardinalityType DEF Listing, Keyed
  <1>2. \A i \in s : i \in Nat /\ q[i] \in rows /\ q[i].date \in Nat /\ q[i].at \in Nat
    BY FS_CardinalityType DEF Listing, Keyed, Observation
  <1>3. \A i \in t : i \in s /\ i < m /\ q[i].date <= r.date
    <2> SUFFICES ASSUME NEW i \in t PROVE i \in s /\ i < m /\ q[i].date <= r.date
      OBVIOUS
    <2>1. i \in s /\ i < m
      BY <1>1, <1>2
    <2>2. Before(q[i], q[m])
      BY <1>1, <2>1 DEF Listing
    <2>q. QED BY <1>1, <1>2, <2>1, <2>2 DEF Before
  <1> DEFINE acc == Result(q, t, date, end)
             new == Result(q, s, date, end)
  <1>4. /\ acc \in States /\ acc.value = Held(q, t, date, end) /\ acc.open = Open(q, t, date)
        /\ new \in States /\ new.value = Held(q, s, date, end) /\ new.open = Open(q, s, date)
    BY ResultType
  <1>5. r.date \in Nat /\ r.at \in Nat /\ r \in Observation
    BY <1>1 DEF Listing, Keyed, Observation
  <1>6. s = t \cup {m}
    BY <1>1
  <1> HIDE DEF m, t, acc, new
  <1>7. CASE ~Open(q, t, date)
    <2>1. PICK i \in t : ~(q[i].date <= date)
      BY <1>7 DEF Open
    <2>2. q[i].date \in Nat /\ q[i].date <= r.date
      BY <1>2, <1>3, <2>1
    <2>3. ~(r.date <= date)
      BY <1>5, <2>1, <2>2
    <2>4. Taken(q, s, date, end) = known
      BY <1>6, <2>3 DEF Taken
    <2>5. Held(q, s, date, end) = Held(q, t, date, end)
      BY <2>4 DEF Held
    <2>6. Open(q, s, date) = FALSE /\ Open(q, t, date) = FALSE
      BY <1>6, <1>7, <2>3 DEF Open
    <2>7. new = acc
      BY <1>4, <2>5, <2>6, SameState
    <2>8. SeenOne(acc, r, date, end) = acc
      BY <1>4, <2>6 DEF SeenOne
    <2>q. QED BY <2>7, <2>8 DEF m, t, acc, new
  <1>8. CASE Open(q, t, date) /\ r.date <= date /\ r.at <= end
    <2>1. Taken(q, s, date, end) = known \cup {m}
      BY <1>6, <1>8 DEF Taken
    <2>2. Max(known \cup {m}) = m
      <3>1. \A i \in known \cup {m} : m >= i /\ i \in Nat
        BY <1>1, <1>2, <1>6 DEF Taken
      <3>2. \E x \in known \cup {m} : \A i \in known \cup {m} : x >= i
        BY <3>1
      <3>3. Max(known \cup {m}) \in known \cup {m} /\ Max(known \cup {m}) >= m
        BY <3>2 DEF Max
      <3>q. QED BY <3>1, <3>3
    <2>3. Held(q, s, date, end) = r.value
      BY <2>1, <2>2 DEF Held
    <2>4. Open(q, s, date) = TRUE /\ Open(q, t, date) = TRUE
      BY <1>6, <1>8 DEF Open
    <2> DEFINE step == SeenOne(acc, r, date, end)
    <2>5. step \in States /\ step.value = r.value /\ step.open = TRUE
      BY <1>4, <1>5, <1>8, <2>4, SeenTaken
    <2> HIDE DEF step
    <2>6. new = step
      BY <1>4, <2>3, <2>4, <2>5, SameState
    <2>q. QED BY <2>6 DEF m, t, acc, new, step
  <1>9. CASE Open(q, t, date) /\ r.date <= date /\ r.at > end
    <2>1. Taken(q, s, date, end) = known
      BY <1>5, <1>6, <1>9 DEF Taken
    <2>2. Held(q, s, date, end) = Held(q, t, date, end)
      BY <2>1 DEF Held
    <2>3. Open(q, s, date) = TRUE /\ Open(q, t, date) = TRUE
      BY <1>6, <1>9 DEF Open
    <2>4. new = acc
      BY <1>4, <2>2, <2>3, SameState
    <2>5. SeenOne(acc, r, date, end) = acc
      BY <1>4, <1>5, <1>9, <2>3 DEF SeenOne
    <2>q. QED BY <2>4, <2>5 DEF m, t, acc, new
  <1>10. CASE Open(q, t, date) /\ r.date > date
    <2>1. Taken(q, s, date, end) = known
      BY <1>5, <1>6, <1>10 DEF Taken
    <2>2. Held(q, s, date, end) = Held(q, t, date, end)
      BY <2>1 DEF Held
    <2>3. Open(q, s, date) = FALSE /\ Open(q, t, date) = TRUE
      BY <1>5, <1>6, <1>10 DEF Open
    <2> DEFINE step == SeenOne(acc, r, date, end)
    <2>4. step \in States /\ step.value = acc.value /\ step.open = FALSE
      BY <1>4, <1>5, <1>10, <2>3, SeenTooLate
    <2> HIDE DEF step
    <2>5. new = step
      BY <1>4, <2>2, <2>3, <2>4, SameState
    <2>q. QED BY <2>5 DEF m, t, acc, new, step
  <1>q. QED BY <1>5, <1>7, <1>8, <1>9, <1>10

LEMMA FoundIsLoop ==
    ASSUME NEW rows, Keyed(rows), NEW q, Listing(q, rows), NEW date \in Nat, NEW end \in Nat
    PROVE  Found(q, date, end) = Loop(Found(q, date, end), q, date, end)
  <1> DEFINE F == Found(q, date, end)
  <1>1. \A s \in SUBSET DOMAIN q : F[s] = Result(q, s, date, end)
    BY DEF Found
  <1>2. ASSUME NEW s \in SUBSET DOMAIN q
        PROVE  Result(q, s, date, end) = Turn(F, q, s, date, end)
    <2>1. CASE s = {}
      BY <2>1, ResultOfNothing DEF Turn
    <2>2. CASE s # {}
      <3>1. s \ {Max(s)} \in SUBSET DOMAIN q
        OBVIOUS
      <3>2. F[s \ {Max(s)}] = Result(q, s \ {Max(s)}, date, end)
        BY <1>1, <3>1
      <3> HIDE DEF F
      <3>3. Turn(F, q, s, date, end)
              = SeenOne(Result(q, s \ {Max(s)}, date, end), q[Max(s)], date, end)
        BY <2>2, <3>2 DEF Turn
      <3>q. QED BY <2>2, <3>3, ResultOfMore
    <2>q. QED BY <2>1, <2>2
  <1>3. F = [s \in SUBSET DOMAIN q |-> Result(q, s, date, end)]
    BY DEF Found
  <1> HIDE DEF F
  <1>4. F = [s \in SUBSET DOMAIN q |-> Turn(F, q, s, date, end)]
    BY <1>2, <1>3
  <1>q. QED BY <1>4 DEF F, Loop

(* Whatever runs the loop finds this.                                      *)
LEMMA LoopIsFound ==
    ASSUME NEW rows, Keyed(rows), NEW q, Listing(q, rows), NEW date \in Nat, NEW end \in Nat,
           NEW f, f = Loop(f, q, date, end), NEW s \in SUBSET DOMAIN q
    PROVE  f[s] = Result(q, s, date, end)
  <1> DEFINE bad == {u \in SUBSET DOMAIN q : f[u] # Result(q, u, date, end)}
             sizes == {Cardinality(u) : u \in bad}
  <1>0. \A u \in SUBSET DOMAIN q : f[u] = Turn(f, q, u, date, end)
    BY DEF Loop
  <1>1. \A u \in SUBSET DOMAIN q : IsFiniteSet(u) /\ Cardinality(u) \in Nat
    <2>1. IsFiniteSet(1..Cardinality(rows)) /\ DOMAIN q = 1..Cardinality(rows)
      BY FS_CardinalityType, FS_Interval DEF Keyed, Listing
    <2>q. QED BY <2>1, FS_Subset, FS_CardinalityType
  <1> SUFFICES ASSUME s \in bad PROVE FALSE
    OBVIOUS
  <1>2. sizes \subseteq Nat /\ sizes # {}
    BY <1>1
  <1>3. PICK c \in sizes : \A d \in sizes : c <= d
    BY <1>2, LeastNat
  <1>4. PICK u \in bad : c = Cardinality(u)
    OBVIOUS
  <1>5. u # {}
    BY <1>0, <1>4, ResultOfNothing DEF Turn
  <1> DEFINE t == u \ {Max(u)}
  <1>6. Max(u) \in u
    BY <1>5, MaxOf, FS_CardinalityType DEF Listing, Keyed
  <1>7. t \in SUBSET DOMAIN q /\ Cardinality(t) = c - 1 /\ c \in Nat
    BY <1>1, <1>4, <1>6, FS_RemoveElement
  <1>8. t \notin bad
    <2>1. SUFFICES ASSUME t \in bad PROVE FALSE
      OBVIOUS
    <2>2. Cardinality(t) \in sizes
      BY <2>1
    <2>3. c <= Cardinality(t)
      BY <1>3, <2>2
    <2>q. QED BY <1>7, <2>3
  <1>9. f[t] = Result(q, t, date, end)
    BY <1>7, <1>8
  <1>10. f[u] = SeenOne(Result(q, t, date, end), q[Max(u)], date, end)
    BY <1>0, <1>5, <1>9 DEF Turn
  <1>11. Result(q, u, date, end) = SeenOne(Result(q, t, date, end), q[Max(u)], date, end)
    BY <1>5, ResultOfMore
  <1>q. QED BY <1>10, <1>11

(* The loop over the observations of _fred_feature_values ends with the    *)
(* value of the last one, by date and then by capture, of those that were  *)
(* captured by the end of the bucket and are of no later date; with no     *)
(* value if there is none.                                                 *)
THEOREM FeatureValueIsLastKnown ==
    ASSUME NEW rows, Keyed(rows), NEW date \in Nat, NEW end \in Nat
    PROVE  FredFeatureValue(rows, date, end)
             \in LastValues({r \in rows : r.date <= date /\ r.at <= end})
  <1> DEFINE known == {r \in rows : r.date <= date /\ r.at <= end}
             last == LastOf(known)
             q == InFredOrder(rows)
             all == DOMAIN q
             taken == Taken(q, all, date, end)
             f == CHOOSE g : g = Loop(g, q, date, end)
  <1>1. Listing(q, rows)
    BY FredOrderIsListing
  <1>2. FredFeatureValue(rows, date, end) = f[all].value
    BY FeatureValueUnfolds
  <1> HIDE DEF q
  <1>3. f = Loop(f, q, date, end)
    BY <1>1, FoundIsLoop
  <1> HIDE DEF f
  <1>4. f[all] = Result(q, all, date, end)
    BY <1>1, <1>3, LoopIsFound
  <1>5. FredFeatureValue(rows, date, end) = Held(q, all, date, end)
    BY <1>2, <1>4 DEF Result
  <1>6. CASE taken = {}
    <2>1. known = {}
      BY <1>1, <1>6 DEF Taken, Listing
    <2>q. QED BY <1>5, <1>6, <2>1 DEF Held, LastValues
  <1>7. CASE taken # {}
    <2> DEFINE m == Max(taken)
    <2>1. m \in taken /\ \A i \in taken : i <= m
      BY <1>1, <1>7, MaxOf, FS_CardinalityType DEF Taken, Listing, Keyed
    <2>2. q[m] \in known /\ m \in all
      BY <1>1, <2>1 DEF Taken, Listing
    <2>3. ASSUME NEW s \in known
          PROVE  s.date < q[m].date \/ (s.date = q[m].date /\ s.at <= q[m].at)
      <3>1. PICK i \in all : q[i] = s
        BY <1>1 DEF Listing
      <3>2. i \in taken
        BY <3>1 DEF Taken
      <3>3. i <= m /\ i \in Nat /\ m \in Nat
        BY <1>1, <2>1, <2>2, <3>2, FS_CardinalityType DEF Listing, Keyed
      <3>4. s.date \in Nat /\ s.at \in Nat
        BY DEF Keyed, Observation
      <3>5. CASE i = m
        BY <3>1, <3>4, <3>5
      <3>6. CASE i < m
        <4>1. Before(q[i], q[m])
          BY <1>1, <2>2, <3>6 DEF Listing
        <4>2. q[m].date \in Nat /\ q[m].at \in Nat
          BY <2>2 DEF Keyed, Observation
        <4>q. QED BY <3>1, <3>4, <4>1, <4>2 DEF Before
      <3>q. QED BY <3>3, <3>5, <3>6
    <2>4. q[m] \in last
      BY <2>2, <2>3 DEF LastOf
    <2>5. FredFeatureValue(rows, date, end) = q[m].value
      BY <1>5, <1>7 DEF Held
    <2>6. known # {}
      BY <2>2
    <2> HIDE DEF known, last, m
    <2>7. FredFeatureValue(rows, date, end) \in {r.value : r \in last}
      BY <2>4, <2>5
    <2>8. FredFeatureValue(rows, date, end) \in LastValues(known)
      BY <2>6, <2>7 DEF last, LastValues
    <2>q. QED BY <2>8 DEF known
  <1>q. QED BY <1>6, <1>7

-----------------------------------------------------------------------------
(* The inductive invariant.                                                *)

Process == [at : 0..Len(CycleStages), started : Nat \cup {Never}, eligible : BOOLEAN]

Stamped == [at : Nat, value : FredValues]

(* No capture has its time in common with another one, committed or not.   *)
Apart(observations, open) ==
    /\ open \subseteq Stamped
    /\ \A c, d \in open : c.at = d.at => c = d
    /\ \A c \in open, r \in observations : r.at # c.at

TablesInv ==
    /\ clock \in Nat /\ StartMinute <= clock
    /\ quote \in Nat \cup {Never}
    /\ prices \subseteq Nat /\ candles \subseteq Nat
    /\ Keyed(fred) /\ \A r \in fred : r.at <= clock
    /\ Apart(fred, pending) /\ \A c \in pending : c.at <= clock

LanesInv ==
    /\ lane \in [Lanes -> LaneRow]
    /\ \A l \in Lanes : lane[l].success <= clock

(* What a run read, or may yet: a capture that is still in flight either   *)
(* was so when the run read the tables, or got its time no earlier.        *)
RunInv(run, observations, open, now) ==
    /\ run.at \in Nat \cup {Never} /\ run.at <= now
    /\ DOMAIN run.rows \subseteq Nat /\ run.inFlight \subseteq Nat
    /\ JoinsLastKnown(run, observations)
    /\ \A c \in open : run.at = Never \/ run.at <= c.at \/ c.at \in run.inFlight

FeaturesInv ==
    /\ RunInv(features, fred, pending, clock)
    /\ DOMAIN draft = Builders
    /\ \A w \in Builders : RunInv(draft[w], fred, pending, clock)

ProcessesInv ==
    /\ proc \in [Procs -> Process]
    /\ \A p \in Procs : proc[p].at <= Len(Stages[p])

(* The first captures of a cycle, which are those of the lanes with short  *)
(* windows, succeeded since then.                                          *)
Captured(since, n) == \A i \in 1..6 : i <= n => lane[CycleStages[i]].success >= since

PassInv ==
    LET pass == proc["cycle"]
    IN  pass.at > 0 => pass.started \in 0..clock /\ Captured(pass.started, pass.at - 1)

ReceiptInv ==
    /\ receipt.at \in Nat \cup {Never} /\ receipt.at <= clock
    /\ receipt.at # Never => receipt.started \in 0..clock /\ Captured(receipt.started, 6)

IInv ==
    /\ TablesInv /\ LanesInv /\ FeaturesInv
    /\ ProcessesInv /\ PassInv /\ ReceiptInv

-----------------------------------------------------------------------------
(* The stages of the two processes and their plans.                        *)

Programs == {"global", "spot", "score", "receipt"}

LEMMA ProcsAre ==
    /\ Procs = {"cycle", "collector"}
    /\ Stages["cycle"] = CycleStages /\ Stages["collector"] = CollectorStages
  BY DEF Procs, Stages

LEMMA CycleTable ==
    /\ Len(CycleStages) \in Nat /\ Len(CycleStages) >= 10
    /\ CycleStages[1] = "jupiter-prices" /\ CycleStages[2] = "jupiter-quotes"
    /\ CycleStages[3] = "helius-transactions" /\ CycleStages[4] = "coinbase-candles"
    /\ CycleStages[5] = "coinbase-book" /\ CycleStages[6] = "coinbase-market-trades"
  <1>1. CASE WithHeliusWs
    BY <1>1 DEF CycleStages, CycleCaptures
  <1>2. CASE ~WithHeliusWs
    BY <1>2 DEF CycleStages, CycleCaptures
  <1>q. QED BY <1>1, <1>2

LEMMA ReceiptIsLast ==
    ASSUME NEW i \in 1..Len(CycleStages), CycleStages[i] = "receipt"
    PROVE  i = Len(CycleStages)
  <1>1. CASE WithHeliusWs
    BY <1>1 DEF CycleStages, CycleCaptures
  <1>2. CASE ~WithHeliusWs
    BY <1>2 DEF CycleStages, CycleCaptures
  <1>q. QED BY <1>1, <1>2

LEMMA CollectorTable ==
    /\ Len(CollectorStages) \in Nat /\ Len(CollectorStages) >= 1 /\ Len(CollectorStages) <= 8
    /\ \A i \in 1..Len(CollectorStages) : CollectorStages[i] \notin Programs
  <1>1. CASE IncludeJupiter /\ IncludeHelius
    BY <1>1 DEF CollectorStages, Programs
  <1>2. CASE IncludeJupiter /\ ~IncludeHelius
    BY <1>2 DEF CollectorStages, Programs
  <1>3. CASE ~IncludeJupiter /\ IncludeHelius
    BY <1>3 DEF CollectorStages, Programs
  <1>4. CASE ~IncludeJupiter /\ ~IncludeHelius
    BY <1>4 DEF CollectorStages, Programs
  <1>q. QED BY <1>1, <1>2, <1>3, <1>4

LEMMA StagesFit ==
    ASSUME NEW p \in Procs
    PROVE  /\ Len(Stages[p]) \in Nat /\ 1 <= Len(Stages[p])
           /\ Len(Stages[p]) <= Len(CycleStages)
  BY ProcsAre, CycleTable, CollectorTable

LEMMA FirstCaptures ==
    ASSUME NEW i \in 1..6
    PROVE  /\ CycleStages[i] \in Lanes /\ PlanOf(CycleStages[i]).lane = CycleStages[i]
           /\ CycleStages[i] \notin Programs
  <1>1. i \in {1, 2, 3, 4, 5, 6}
    OBVIOUS
  <1>2. CycleStages[i] \in {"jupiter-prices", "jupiter-quotes", "helius-transactions",
                            "coinbase-candles", "coinbase-book", "coinbase-market-trades"}
    BY <1>1, CycleTable
  <1>3. CycleStages[i] \in Lanes /\ CycleStages[i] \notin Programs
    BY <1>2 DEF Lanes, SpotRequired, GlobalRequired, Programs
  <1>4. PlanOf(CycleStages[i]).lane = CycleStages[i]
    BY <1>2 DEF PlanOf, Plan, JupiterPrices, JupiterQuotes, HeliusTransactions,
                CoinbaseCandles, CoinbaseBook, CoinbaseTrades
  <1>q. QED BY <1>3, <1>4

LEMMA ShortWindows ==
    ASSUME NEW l \in SpotRequired, FreshnessWindow[l] <= 30
    PROVE  \E i \in 1..6 : CycleStages[i] = l
  <1>1. FreshnessWindow["coinbase-products"] = 1440
        /\ FreshnessWindow["fred-observations"] = 2880
    BY DEF FreshnessWindow
  <1>2. l \in {"jupiter-prices", "jupiter-quotes", "helius-transactions",
               "coinbase-candles", "coinbase-book", "coinbase-market-trades"}
    BY <1>1 DEF SpotRequired, GlobalRequired
  <1>q. QED BY <1>2, CycleTable

-----------------------------------------------------------------------------
(* What captures make of the lanes and of the tables.                      *)

LaneStep ==
    /\ lane' \in [Lanes -> LaneRow]
    /\ \A l \in Lanes : lane[l].success <= lane'[l].success /\ lane'[l].success <= clock

TableStep ==
    /\ quote' \in Nat \cup {Never}
    /\ prices' \subseteq Nat /\ candles' \subseteq Nat
    /\ Keyed(fred') /\ fred \subseteq fred'
    /\ \A r \in fred' : r \in fred \/ \E c \in pending : r.at = c.at
    /\ Apart(fred', pending')
    /\ \A c \in pending' : c \in pending \/ c.at = clock

LEMMA HealthTyped ==
    ASSUME NEW lanes \in [Lanes -> LaneRow], NEW name, NEW verdict \in {"ok", "failed"}
    PROVE  /\ WithHealth(lanes, name, verdict) \in [Lanes -> LaneRow]
           /\ \A l \in Lanes : WithHealth(lanes, name, verdict)[l].success = lanes[l].success
  <1>1. ASSUME NEW l \in Lanes
        PROVE  /\ [lanes[l] EXCEPT !.health = verdict] \in LaneRow
               /\ [lanes[l] EXCEPT !.health = verdict].success = lanes[l].success
    BY DEF LaneRow
  <1>q. QED BY <1>1 DEF WithHealth

LEMMA SuccessTyped ==
    ASSUME NEW lanes \in [Lanes -> LaneRow], NEW name, clock \in Nat
    PROVE  /\ WithSuccess(lanes, name) \in [Lanes -> LaneRow]
           /\ \A l \in Lanes : WithSuccess(lanes, name)[l].success
                                 = IF l = PlanOf(name).lane THEN clock ELSE lanes[l].success
  <1>1. ASSUME NEW l \in Lanes
        PROVE  /\ [lanes[l] EXCEPT !.success = clock] \in LaneRow
               /\ [lanes[l] EXCEPT !.success = clock].success = clock
    BY DEF LaneRow
  <1>q. QED BY <1>1 DEF WithSuccess

LEMMA HealthStep ==
    ASSUME TablesInv, LanesInv, NEW name, NEW verdict \in {"ok", "failed"},
           lane' = WithHealth(lane, name, verdict)
    PROVE  LaneStep
  <1>1. lane \in [Lanes -> LaneRow] /\ lane' \in [Lanes -> LaneRow]
        /\ \A l \in Lanes : lane'[l].success = lane[l].success
    BY HealthTyped DEF LanesInv
  <1>2. \A l \in Lanes : lane[l].success \in Int /\ lane[l].success <= clock
    BY <1>1 DEF LanesInv, LaneRow, Never
  <1>q. QED BY <1>1, <1>2 DEF LaneStep

LEMMA SuccessStep ==
    ASSUME TablesInv, LanesInv, NEW name,
           lane' = WithSuccess(WithHealth(lane, name, "ok"), name)
    PROVE  /\ LaneStep
           /\ \A l \in Lanes : l = PlanOf(name).lane => lane'[l].success = clock
  <1> DEFINE told == WithHealth(lane, name, "ok")
  <1>1. told \in [Lanes -> LaneRow] /\ \A l \in Lanes : told[l].success = lane[l].success
    BY HealthTyped DEF LanesInv
  <1> HIDE DEF told
  <1>2. /\ lane' \in [Lanes -> LaneRow]
        /\ \A l \in Lanes : lane'[l].success
                              = IF l = PlanOf(name).lane THEN clock ELSE told[l].success
    BY <1>1, SuccessTyped DEF TablesInv, told
  <1>3. \A l \in Lanes : lane[l].success \in Int /\ lane[l].success <= clock
    BY DEF LanesInv, LaneRow, Never
  <1>4. clock \in Int
    BY DEF TablesInv
  <1>q. QED BY <1>1, <1>2, <1>3, <1>4 DEF LaneStep

LEMMA UnchangedLanes ==
    ASSUME LanesInv, lane' = lane, TablesInv
    PROVE  LaneStep
  <1>1. \A l \in Lanes : lane[l].success \in Int /\ lane[l].success <= clock
    BY DEF LanesInv, LaneRow, Never
  <1>q. QED BY <1>1 DEF LaneStep, LanesInv

LEMMA UnchangedTables ==
    ASSUME TablesInv, UNCHANGED tables
    PROVE  TableStep
  BY DEF TablesInv, TableStep, tables

LEMMA DatesAreNat ==
    ASSUME NEW t \in Nat
    PROVE  DateOf(t) \in Nat /\ BucketStart(t) \in Nat
  BY DEF DateOf, BucketStart, BucketMinutes

(* A commit adds rows of the time of its stamp only, which no other has.   *)
LEMMA FredRowsKeyed ==
    ASSUME TablesInv, NEW c \in pending
    PROVE  /\ Keyed(fred \cup FredRows(c))
           /\ \A r \in FredRows(c) : r.at = c.at
  <1> DEFINE D == 0..DateOf(c.at)
             row == [d \in D |-> [date |-> d, at |-> c.at, value |-> c.value]]
  <1>1. c.at \in Nat /\ c.value \in Values /\ DateOf(c.at) \in Nat
    <2>1. c \in Stamped
      BY DEF TablesInv, Apart
    <2>q. QED BY <2>1, DatesAreNat DEF Stamped, Values
  <1>2. FredRows(c) = {row[d] : d \in D}
    BY DEF FredRows
  <1>3. \A d \in D : row[d].date = d /\ row[d].at = c.at /\ row[d] \in Observation
    BY <1>1 DEF Observation
  <1>4. IsFiniteSet(D)
    BY <1>1, FS_Interval
  <1> HIDE DEF D
  <1>5. row \in Surjection(D, FredRows(c))
    BY <1>2 DEF Surjection
  <1>6. IsFiniteSet(FredRows(c))
    BY <1>4, <1>5, FS_Surjection
  <1> HIDE DEF row
  <1>7. \A r \in FredRows(c) : r.at = c.at /\ r \in Observation
    BY <1>2, <1>3
  <1>8. ASSUME NEW r \in FredRows(c), NEW s \in FredRows(c), r.date = s.date
        PROVE  r = s
    BY <1>2, <1>3, <1>8
  <1>9. IsFiniteSet(fred \cup FredRows(c))
    BY <1>6, FS_Union DEF TablesInv, Keyed
  <1>10. ASSUME NEW r \in fred \cup FredRows(c), NEW s \in fred \cup FredRows(c),
                r.date = s.date, r.at = s.at
         PROVE  r = s
    <2>1. CASE r \in fred /\ s \in fred
      BY <1>10, <2>1 DEF TablesInv, Keyed
    <2>2. CASE r \in FredRows(c) /\ s \in FredRows(c)
      BY <1>8, <1>10, <2>2
    <2>3. ~(r \in fred /\ s \in FredRows(c)) /\ ~(r \in FredRows(c) /\ s \in fred)
      BY <1>7, <1>10 DEF TablesInv, Apart
    <2>q. QED BY <2>1, <2>2, <2>3
  <1>q. QED BY <1>7, <1>9, <1>10 DEF Keyed, TablesInv

LEMMA StoreStep ==
    ASSUME TablesInv, NEW name, StoreRows(name)
    PROVE  TableStep
  <1>1. clock \in Nat
    BY DEF TablesInv
  <1>2. prices' \subseteq Nat
    BY <1>1 DEF StoreRows, PricesAfter, TablesInv
  <1>3. quote' \in Nat \cup {Never}
    BY <1>1 DEF StoreRows, QuoteAfter, TablesInv
  <1>4. candles' \subseteq Nat
    <2>1. CandleMinutes \subseteq Nat
      <3>1. clock - HistoryMinutes + 1 \in Nat
        BY <1>1, CycleAssumption DEF CycleAssumption, TablesInv
      <3>q. QED BY <1>1, <3>1 DEF CandleMinutes
    <2>q. QED BY <2>1 DEF StoreRows, CandlesAfter, TablesInv
  <1>5. fred' = fred /\ pending' = pending
    BY DEF StoreRows
  <1>q. QED BY <1>2, <1>3, <1>4, <1>5 DEF TableStep, TablesInv

(* Rows that are stamped are not yet committed; a capture in flight ends,  *)
(* with its rows in the table or without.                                  *)
OthersStay == quote' = quote /\ prices' = prices /\ candles' = candles

LEMMA StampStep ==
    ASSUME TablesInv, StampObservations
    PROVE  TableStep
  <1>1. PICK v \in FredValues : pending' = pending \cup {[at |-> clock, value |-> v]}
    BY DEF StampObservations
  <1> DEFINE new == [at |-> clock, value |-> v]
  <1>2. new \in Stamped /\ new.at = clock
    BY DEF TablesInv, Stamped
  <1>3. /\ \A r \in fred \cup pending : r.at # clock
        /\ OthersStay /\ fred' = fred
    BY DEF StampObservations, OthersStay
  <1> HIDE DEF new
  <1>4. pending' = pending \cup {new}
    BY <1>1 DEF new
  <1>5. Apart(fred, pending')
    BY <1>2, <1>3, <1>4 DEF TablesInv, Apart
  <1>6. \A c \in pending' : c \in pending \/ c.at = clock
    BY <1>2, <1>4
  <1>q. QED BY <1>3, <1>5, <1>6 DEF TableStep, TablesInv, OthersStay

LEMMA EndStep ==
    ASSUME TablesInv, NEW c \in pending, pending' = pending \ {c},
           fred' \in {fred, fred \cup FredRows(c)}, OthersStay
    PROVE  TableStep
  <1>1. Keyed(fred') /\ fred \subseteq fred'
    BY FredRowsKeyed DEF TablesInv
  <1>2. \A r \in fred' : r \in fred \/ r.at = c.at
    BY FredRowsKeyed
  <1>3. Apart(fred', pending')
    <2>1. \A d \in pending' : d \in pending /\ d # c /\ d.at # c.at
      BY DEF TablesInv, Apart
    <2>q. QED BY <1>2, <2>1 DEF TablesInv, Apart
  <1>q. QED BY <1>1, <1>2, <1>3 DEF TableStep, TablesInv, OthersStay

-----------------------------------------------------------------------------
(* What is left to each part of the invariant.                             *)

LEMMA TablesKept ==
    ASSUME TablesInv, TableStep, clock' = clock
    PROVE  TablesInv'
  <1>1. \A r \in fred' : r.at <= clock
    BY DEF TablesInv, TableStep
  <1>2. (\A r \in fred : r.at <= clock)'
    BY <1>1
  <1>3. Keyed(fred)'
    BY DEF TableStep, Keyed
  <1>4. \A c \in pending' : c.at <= clock
    BY DEF TablesInv, TableStep
  <1>q. QED BY <1>2, <1>3, <1>4 DEF TablesInv, TableStep

LEMMA LanesKept ==
    ASSUME LaneStep, clock' = clock
    PROVE  LanesInv'
  <1>1. \A l \in Lanes : lane'[l].success <= clock
    BY DEF LaneStep
  <1>q. QED BY <1>1 DEF LanesInv, LaneStep

(* What is committed after a run has read the tables got its time after a  *)
(* bucket that was over then, or was in flight.                            *)
LEMMA RunKept ==
    ASSUME NEW run, NEW rows, NEW later, NEW open, NEW still, NEW now \in Nat, NEW then \in Nat,
           RunInv(run, rows, open, now), now <= then, open \subseteq Stamped,
           rows \subseteq later,
           \A r \in later : r \in rows \/ \E c \in open : r.at = c.at,
           \A c \in still : c \in open \/ c.at = now
    PROVE  RunInv(run, later, still, then)
  <1>1. /\ run.at \in Nat \cup {Never} /\ run.at <= now
        /\ DOMAIN run.rows \subseteq Nat /\ run.inFlight \subseteq Nat
        /\ JoinsLastKnown(run, rows)
        /\ \A c \in open : run.at = Never \/ run.at <= c.at \/ c.at \in run.inFlight
    BY DEF RunInv
  <1>2. run.at <= then
    BY <1>1 DEF Never
  <1>3. ASSUME NEW b \in DOMAIN run.rows, BucketEnd(b) < run.at
        PROVE  KnownAt(b, run, later) = KnownAt(b, run, rows)
    <2>1. b \in Nat /\ BucketEnd(b) \in Nat /\ run.at \in Nat
      BY <1>1, <1>3 DEF BucketEnd, BucketMinutes, Never
    <2>2. ASSUME NEW r \in later, r.at <= BucketEnd(b), r.at \notin run.inFlight
          PROVE  r \in rows
      <3>1. SUFFICES ASSUME NEW c \in open, r.at = c.at PROVE FALSE
        OBVIOUS
      <3>2. c.at \in Nat
        BY DEF Stamped
      <3>3. run.at <= c.at
        BY <1>1, <2>1, <2>2, <3>1 DEF Never
      <3>q. QED BY <1>3, <2>1, <2>2, <3>1, <3>2, <3>3
    <2>q. QED BY <2>2 DEF KnownAt
  <1>4. JoinsLastKnown(run, later)
    BY <1>1, <1>3 DEF JoinsLastKnown
  <1>5. ASSUME NEW c \in still
        PROVE  run.at = Never \/ run.at <= c.at \/ c.at \in run.inFlight
    BY <1>1
  <1>q. QED BY <1>1, <1>2, <1>4, <1>5 DEF RunInv

LEMMA NoRunInv ==
    ASSUME NEW rows, NEW open, NEW now \in Nat
    PROVE  RunInv(NoRun, rows, open, now)
  <1>1. /\ NoRun.at = Never /\ NoRun.rows = <<>> /\ DOMAIN NoRun.rows = {}
        /\ NoRun.inFlight = {}
    BY DEF NoRun
  <1>q. QED BY <1>1 DEF RunInv, JoinsLastKnown, Never

(* A run that reads the tables now joins what they have.                   *)
LEMMA GlobalRunInv ==
    ASSUME TablesInv
    PROVE  RunInv(GlobalRun, fred, pending, clock)
  <1> DEFINE run == GlobalRun
  <1>1. /\ run.at = clock /\ run.rows = GlobalRegimeRows(candles, fred)
        /\ run.inFlight = {c.at : c \in pending}
    BY DEF GlobalRun
  <1> HIDE DEF run
  <1>2. DOMAIN run.rows = GlobalBuckets(candles)
    BY <1>1 DEF GlobalRegimeRows
  <1>3. GlobalBuckets(candles) \subseteq Nat
    BY DatesAreNat DEF GlobalBuckets, TablesInv
  <1>4. ASSUME NEW b \in DOMAIN run.rows
        PROVE  run.rows[b].macro \in LastValues(KnownAt(b, run, fred))
    <2>1. b \in Nat /\ DateOf(b) \in Nat /\ BucketEnd(b) \in Nat
      <3>1. b \in Nat
        BY <1>2, <1>3
      <3>q. QED BY <3>1, DatesAreNat DEF BucketEnd, BucketMinutes
    <2>2. run.rows[b] = GlobalRow(fred, b)
      BY <1>1, <1>2 DEF GlobalRegimeRows
    <2>3. run.rows[b].macro = FredFeatureValue(fred, DateOf(b), BucketEnd(b))
      BY <2>2 DEF GlobalRow
    <2>4. \A r \in fred : r.at \notin run.inFlight
      BY <1>1 DEF TablesInv, Apart
    <2>5. KnownAt(b, run, fred)
            = {r \in fred : r.date <= DateOf(b) /\ r.at <= BucketEnd(b)}
      BY <2>4 DEF KnownAt
    <2>6. Keyed(fred)
      BY DEF TablesInv
    <2>q. QED BY <2>1, <2>3, <2>5, <2>6, FeatureValueIsLastKnown
  <1>5. JoinsLastKnown(run, fred)
    BY <1>4 DEF JoinsLastKnown
  <1>6. clock \in Nat /\ run.inFlight \subseteq Nat
    BY <1>1 DEF TablesInv, Apart, Stamped
  <1>q. QED BY <1>1, <1>2, <1>3, <1>5, <1>6 DEF RunInv, run

(* Runs are read from the tables, published, or given up.                  *)
RunsStep ==
    /\ features' = features \/ \E w \in Builders : features' = draft[w]
    /\ DOMAIN draft' = DOMAIN draft
    /\ \A w \in Builders :
          \/ draft'[w] \in {draft[w], NoRun}
          \/ draft'[w] = GlobalRun /\ UNCHANGED tables

LEMMA RunsStay ==
    ASSUME UNCHANGED runs
    PROVE  RunsStep
  BY DEF runs, RunsStep

LEMMA FeaturesKept ==
    ASSUME TablesInv, FeaturesInv, TableStep, RunsStep, clock' \in Nat, clock <= clock'
    PROVE  FeaturesInv'
  <1> DEFINE Good(run) == RunInv(run, fred, pending, clock)
             GoodThen(run) == RunInv(run, fred', pending', clock')
  <1>1. ASSUME NEW run, Good(run) PROVE GoodThen(run)
    <2>1. /\ clock \in Nat /\ pending \subseteq Stamped /\ fred \subseteq fred'
          /\ \A r \in fred' : r \in fred \/ \E c \in pending : r.at = c.at
          /\ \A c \in pending' : c \in pending \/ c.at = clock
      BY DEF TablesInv, Apart, TableStep
    <2>q. QED BY <1>1, <2>1, RunKept
  <1>2. Good(features) /\ DOMAIN draft = Builders /\ \A w \in Builders : Good(draft[w])
    BY DEF FeaturesInv
  <1> HIDE DEF Good
  <1>3. GoodThen(features) /\ \A w \in Builders : GoodThen(draft[w])
    BY <1>1, <1>2
  <1>4. GoodThen(NoRun)
    BY NoRunInv
  <1>5. UNCHANGED tables => GoodThen(GlobalRun)
    <2>1. Good(GlobalRun)
      BY GlobalRunInv DEF Good
    <2>q. QED BY <1>1, <2>1
  <1> HIDE DEF GoodThen
  <1>6. GoodThen(features') /\ DOMAIN draft' = Builders
    BY <1>2, <1>3 DEF RunsStep
  <1>7. ASSUME NEW w \in Builders PROVE GoodThen(draft'[w])
    BY <1>3, <1>4, <1>5 DEF RunsStep
  <1>q. QED BY <1>6, <1>7 DEF FeaturesInv, GoodThen

(* Captured, of the lanes after the step.                                  *)
StillCaptured(since, n) ==
    \A i \in 1..6 : i <= n => lane'[CycleStages[i]].success >= since

LEMMA CapturedKept ==
    ASSUME LanesInv, LaneStep, NEW since \in Nat, NEW n \in Int, Captured(since, n)
    PROVE  StillCaptured(since, n)
  <1>1. ASSUME NEW i \in 1..6, i <= n PROVE lane'[CycleStages[i]].success >= since
    <2>1. CycleStages[i] \in Lanes
      BY FirstCaptures
    <2>2. /\ lane[CycleStages[i]].success >= since
          /\ lane[CycleStages[i]].success <= lane'[CycleStages[i]].success
      BY <1>1, <2>1 DEF Captured, LaneStep
    <2>3. lane[CycleStages[i]].success \in Int /\ lane'[CycleStages[i]].success \in Int
      BY <2>1 DEF LanesInv, LaneStep, LaneRow, Never
    <2>q. QED BY <2>2, <2>3
  <1>q. QED BY <1>1 DEF StillCaptured

(* A pass that stays where it is, or ends.                                 *)
LEMMA PassKept ==
    ASSUME TablesInv, LanesInv, LaneStep, ProcessesInv, PassInv,
           clock' \in Nat, clock <= clock',
           proc'["cycle"] = proc["cycle"] \/ proc'["cycle"].at = 0
    PROVE  PassInv'
  <1> DEFINE pass == proc["cycle"]
  <1>1. CASE proc'["cycle"].at = 0
    BY <1>1 DEF PassInv
  <1>2. CASE proc'["cycle"] = pass
    <2>1. pass.at \in Int /\ clock \in Nat
      BY ProcsAre DEF ProcessesInv, Process, TablesInv
    <2>2. SUFFICES ASSUME pass.at > 0
                   PROVE  pass.started \in 0..clock' /\ StillCaptured(pass.started, pass.at - 1)
      BY <1>2 DEF PassInv, Captured, StillCaptured
    <2>3. pass.started \in 0..clock /\ Captured(pass.started, pass.at - 1)
      BY <2>2 DEF PassInv
    <2> HIDE DEF pass
    <2>4. pass.started \in Nat /\ pass.started <= clock /\ pass.at - 1 \in Int
      BY <2>1, <2>3
    <2>5. StillCaptured(pass.started, pass.at - 1)
      BY <2>3, <2>4, CapturedKept
    <2>q. QED BY <2>1, <2>4, <2>5
  <1>q. QED BY <1>1, <1>2

(* A pass that has done its stage.                                         *)
LEMMA PassAdvanced ==
    ASSUME TablesInv, LanesInv, LaneStep, ProcessesInv, PassInv,
           clock' = clock, proc["cycle"].at > 0,
           proc'["cycle"].at = proc["cycle"].at + 1,
           proc'["cycle"].started = proc["cycle"].started,
           proc["cycle"].at <= 6 => lane'[CycleStages[proc["cycle"].at]].success = clock
    PROVE  PassInv'
  <1> DEFINE at == proc["cycle"].at
             started == proc["cycle"].started
  <1>1. at \in Nat /\ clock \in Nat
    BY ProcsAre DEF ProcessesInv, Process, TablesInv
  <1>2. started \in 0..clock /\ Captured(started, at - 1)
    BY DEF PassInv
  <1>3. SUFFICES StillCaptured(started, at)
    <2>1. proc'["cycle"].at - 1 = at
      BY <1>1
    <2>q. QED BY <1>2, <1>3, <2>1 DEF PassInv, Captured, StillCaptured
  <1>4. at <= 6 => lane'[CycleStages[at]].success = clock
    OBVIOUS
  <1> HIDE DEF at, started
  <1>5. StillCaptured(started, at - 1)
    BY <1>1, <1>2, CapturedKept
  <1>6. ASSUME NEW i \in 1..6, i <= at PROVE lane'[CycleStages[i]].success >= started
    <2>1. CASE i = at
      BY <1>1, <1>2, <1>4, <2>1
    <2>2. CASE i <= at - 1
      BY <1>5, <2>2 DEF StillCaptured
    <2>q. QED BY <1>1, <1>6, <2>1, <2>2
  <1>q. QED BY <1>6 DEF StillCaptured

LEMMA ReceiptKept ==
    ASSUME TablesInv, LanesInv, LaneStep, ReceiptInv, receipt' = receipt,
           clock' \in Nat, clock <= clock'
    PROVE  ReceiptInv'
  <1>1. receipt.at \in Int /\ clock \in Nat
    BY DEF ReceiptInv, TablesInv, Never
  <1>2. ASSUME receipt.at # Never
        PROVE  receipt.started \in 0..clock' /\ StillCaptured(receipt.started, 6)
    <2>1. receipt.started \in 0..clock /\ Captured(receipt.started, 6)
      BY <1>2 DEF ReceiptInv
    <2>2. receipt.started \in Nat
      BY <2>1
    <2>3. StillCaptured(receipt.started, 6)
      BY <2>1, <2>2, CapturedKept
    <2>q. QED BY <1>1, <2>1, <2>3
  <1>3. receipt.at \in Nat \cup {Never} /\ receipt.at <= clock'
    BY <1>1 DEF ReceiptInv
  <1>q. QED BY <1>2, <1>3 DEF ReceiptInv, Captured, StillCaptured

LEMMA NoReceiptKeeps ==
    ASSUME receipt' = NoReceipt, clock' \in Nat
    PROVE  ReceiptInv'
  BY DEF ReceiptInv, NoReceipt, Never

LEMMA ProcessesKept ==
    ASSUME ProcessesInv, NEW p \in Procs, NEW next \in Process, next.at <= Len(Stages[p]),
           proc' = [proc EXCEPT ![p] = next]
    PROVE  /\ ProcessesInv'
           /\ proc'[p] = next /\ \A r \in Procs : r # p => proc'[r] = proc[r]
  <1>1. /\ proc' \in [Procs -> Process] /\ proc'[p] = next
        /\ \A r \in Procs : r # p => proc'[r] = proc[r]
    BY DEF ProcessesInv
  <1>2. \A r \in Procs : proc'[r].at <= Len(Stages[r])
    BY <1>1 DEF ProcessesInv
  <1>q. QED BY <1>1, <1>2 DEF ProcessesInv

LEMMA IdleFits ==
    ASSUME NEW p \in Procs
    PROVE  Idle \in Process /\ Idle.at = 0 /\ Idle.at <= Len(Stages[p])
  BY StagesFit, CycleTable DEF Idle, Process, Never

(* A pass at its last stage ends, any other moves on.                      *)
LEMMA NextStageFits ==
    ASSUME ProcessesInv, NEW p \in Procs, proc[p].at > 0
    PROVE  /\ NextStage(p) \in Process /\ NextStage(p).at <= Len(Stages[p])
           /\ \/ proc[p].at = Len(Stages[p]) /\ NextStage(p) = Idle
              \/ /\ NextStage(p).at = proc[p].at + 1
                 /\ NextStage(p).started = proc[p].started
  <1> DEFINE here == proc[p]
             most == Len(Stages[p])
             moved == [here EXCEPT !.at = @ + 1]
  <1>1. here \in Process /\ here.at \in Nat /\ here.at <= most
    BY DEF ProcessesInv, Process
  <1>2. most \in Nat /\ most <= Len(CycleStages) /\ Len(CycleStages) \in Nat
    BY StagesFit, CycleTable
  <1> HIDE DEF most
  <1>3. CASE here.at = most
    BY <1>3, IdleFits DEF NextStage, most
  <1>4. CASE here.at # most
    <2>1. NextStage(p) = moved
      BY <1>4 DEF NextStage, most
    <2>2. here.at + 1 <= most /\ here.at + 1 \in 0..Len(CycleStages)
      BY <1>1, <1>2, <1>4
    <2> HIDE DEF here
    <2>3. moved \in Process /\ moved.at = here.at + 1 /\ moved.started = here.started
      BY <1>1, <2>2 DEF Process
    <2>q. QED BY <2>1, <2>2, <2>3 DEF here, most
  <1>q. QED BY <1>3, <1>4

-----------------------------------------------------------------------------
(* What an action does to the processes, and what it then leaves intact.   *)

(* p ends its pass.                                                        *)
Ends(p) == proc' = [proc EXCEPT ![p] = Idle]

(* p moves on to its next stage, past the last of which its pass is over.  *)
Moves(p) ==
    \E next \in Process :
        /\ next.at <= Len(Stages[p])
        /\ \/ next.at = 0
           \/ next.at = proc[p].at + 1 /\ next.started = proc[p].started
        /\ proc' = [proc EXCEPT ![p] = next]

(* In a first capture of the cycle its lane just succeeded.                *)
StageDone(p) ==
    p = "cycle" /\ proc[p].at <= 6 => lane'[CycleStages[proc[p].at]].success = clock

LEMMA ProcessEnds ==
    ASSUME IInv, NEW p \in Procs, Ends(p), LaneStep, clock' = clock
    PROVE  ProcessesInv' /\ PassInv'
  <1>1. Idle \in Process /\ Idle.at = 0 /\ Idle.at <= Len(Stages[p])
    BY IdleFits
  <1>2. /\ ProcessesInv' /\ proc'[p] = Idle
        /\ \A r \in Procs : r # p => proc'[r] = proc[r]
    BY <1>1, ProcessesKept DEF IInv, Ends
  <1>3. proc'["cycle"] = proc["cycle"] \/ proc'["cycle"].at = 0
    BY <1>1, <1>2, ProcsAre
  <1>4. clock \in Nat
    BY DEF IInv, TablesInv
  <1>5. PassInv'
    BY <1>3, <1>4, PassKept DEF IInv
  <1>q. QED BY <1>2, <1>5

LEMMA ProcessMoves ==
    ASSUME IInv, NEW p \in Procs, proc[p].at > 0, Moves(p), StageDone(p), LaneStep,
           clock' = clock
    PROVE  ProcessesInv' /\ PassInv'
  <1>1. PICK next \in Process :
            /\ next.at <= Len(Stages[p])
            /\ \/ next.at = 0
               \/ next.at = proc[p].at + 1 /\ next.started = proc[p].started
            /\ proc' = [proc EXCEPT ![p] = next]
    BY DEF Moves
  <1>2. /\ ProcessesInv' /\ proc'[p] = next
        /\ \A r \in Procs : r # p => proc'[r] = proc[r]
    BY <1>1, ProcessesKept DEF IInv
  <1>3. clock \in Nat /\ "cycle" \in Procs
    BY ProcsAre DEF IInv, TablesInv
  <1>4. CASE p # "cycle" \/ next.at = 0
    <2>1. proc'["cycle"] = proc["cycle"] \/ proc'["cycle"].at = 0
      BY <1>2, <1>3, <1>4
    <2>q. QED BY <1>2, <1>3, <2>1, PassKept DEF IInv
  <1>5. CASE p = "cycle" /\ next.at # 0
    <2>1. /\ proc["cycle"].at > 0 /\ proc'["cycle"].at = proc["cycle"].at + 1
          /\ proc'["cycle"].started = proc["cycle"].started
      BY <1>1, <1>2, <1>5
    <2>2. proc["cycle"].at <= 6 => lane'[CycleStages[proc["cycle"].at]].success = clock
      BY <1>5 DEF StageDone
    <2>q. QED BY <1>2, <2>1, <2>2, PassAdvanced DEF IInv
  <1>q. QED BY <1>4, <1>5

LEMMA NextStageMoves ==
    ASSUME IInv, NEW p \in Procs, proc[p].at > 0,
           proc' = [proc EXCEPT ![p] = NextStage(p)]
    PROVE  Moves(p)
  <1>1. /\ NextStage(p) \in Process /\ NextStage(p).at <= Len(Stages[p])
        /\ \/ NextStage(p).at = 0
           \/ NextStage(p).at = proc[p].at + 1 /\ NextStage(p).started = proc[p].started
    BY NextStageFits, IdleFits DEF IInv
  <1>q. QED BY <1>1 DEF Moves

(* A stage that is no capture is not one of the first.                     *)
LEMMA ProgramDone ==
    ASSUME IInv, NEW p \in Procs, NEW stage \in Programs, At(p, stage)
    PROVE  p = "cycle" /\ proc[p].at > 6 /\ StageDone(p)
  <1>1. proc[p].at \in Nat /\ proc[p].at > 0 /\ proc[p].at <= Len(Stages[p])
        /\ Stages[p][proc[p].at] \in Programs
    BY DEF IInv, ProcessesInv, Process, At, StageOf
  <1>2. p = "cycle"
    <2>1. CASE p = "collector"
      BY <1>1, <2>1, ProcsAre, CollectorTable
    <2>q. QED BY <2>1, ProcsAre
  <1>3. CycleStages[proc[p].at] \in Programs
    BY <1>1, <1>2, ProcsAre
  <1>4. proc[p].at > 6
    BY <1>1, <1>3, FirstCaptures
  <1>5. ~(proc[p].at <= 6)
    BY <1>1, <1>4
  <1>q. QED BY <1>2, <1>4, <1>5 DEF StageDone

(* A step of captures: only lanes and tables change besides the processes. *)
LEMMA TruthMoves ==
    ASSUME IInv, LaneStep, TableStep, RunsStep, clock' = clock
    PROVE  TablesInv' /\ LanesInv' /\ FeaturesInv'
  <1>1. clock \in Nat /\ clock' \in Nat /\ clock <= clock'
    BY DEF IInv, TablesInv
  <1>q. QED BY <1>1, TablesKept, LanesKept, FeaturesKept DEF IInv

LEMMA TruthStays ==
    ASSUME IInv, UNCHANGED truth
    PROVE  LaneStep /\ TableStep
  <1>1. UNCHANGED tables /\ lane' = lane
    BY DEF truth
  <1>q. QED BY <1>1, UnchangedLanes, UnchangedTables DEF IInv

LEMMA ReceiptStays ==
    ASSUME IInv, LaneStep, receipt' = receipt, clock' = clock
    PROVE  ReceiptInv'
  <1>1. clock \in Nat
    BY DEF IInv, TablesInv
  <1>q. QED BY <1>1, ReceiptKept DEF IInv

LEMMA ProcessesStay ==
    ASSUME IInv, LaneStep, proc' = proc, clock' \in Nat, clock <= clock'
    PROVE  ProcessesInv' /\ PassInv'
  <1>1. ProcessesInv'
    BY DEF IInv, ProcessesInv
  <1>q. QED BY <1>1, PassKept DEF IInv

(* A step without a process, of the operator or of a session.              *)
LEMMA OutsideStep ==
    ASSUME IInv, LaneStep, TableStep, RunsStep, clock' = clock, proc' = proc, receipt' = receipt
    PROVE  IInv'
  <1>1. TablesInv' /\ LanesInv' /\ FeaturesInv'
    BY TruthMoves
  <1>2. ProcessesInv' /\ PassInv'
    <2>1. clock' \in Nat /\ clock <= clock'
      BY DEF IInv, TablesInv
    <2>q. QED BY <2>1, ProcessesStay
  <1>3. ReceiptInv'
    BY ReceiptStays
  <1>q. QED BY <1>1, <1>2, <1>3 DEF IInv

LEMMA PassesRest ==
    ASSUME IInv, UNCHANGED truth, RunsStep, clock' = clock, proc' = proc, receipt' = receipt
    PROVE  IInv'
  BY TruthStays, OutsideStep

-----------------------------------------------------------------------------
(* The actions, one by one.                                                *)

LEMMA BeginStep ==
    ASSUME IInv, NEW p \in Procs, Begin(p)
    PROVE  IInv'
  <1> DEFINE next == [Idle EXCEPT !.at = 1,
                                  !.started = IF p = "cycle" THEN clock ELSE Never]
  <1>1. /\ proc' = [proc EXCEPT ![p] = next] /\ UNCHANGED truth
        /\ clock' = clock /\ RunsStep
    BY RunsStay DEF Begin
  <1>2. clock \in Nat /\ 1 <= Len(Stages[p]) /\ Len(CycleStages) \in Nat
        /\ 1 <= Len(CycleStages)
    BY StagesFit, CycleTable DEF IInv, TablesInv
  <1>3. next \in Process /\ next.at = 1
        /\ (p = "cycle" => next.started = clock)
    <2> DEFINE since == IF p = "cycle" THEN clock ELSE Never
    <2>1. since \in Nat \cup {Never} /\ (p = "cycle" => since = clock)
      BY <1>2
    <2> HIDE DEF since
    <2>2. 1 \in 0..Len(CycleStages) /\ Idle \in Process
      BY <1>2, IdleFits
    <2> DEFINE new == [Idle EXCEPT !.at = 1, !.started = since]
    <2>3. new \in Process /\ new.at = 1 /\ new.started = since
      BY <2>1, <2>2 DEF Process
    <2>4. next = new
      BY DEF since
    <2>q. QED BY <2>1, <2>3, <2>4
  <1> HIDE DEF next
  <1>4. LaneStep /\ TableStep
    BY <1>1, TruthStays
  <1>5. TablesInv' /\ LanesInv' /\ FeaturesInv'
    BY <1>1, <1>4, TruthMoves
  <1>6. /\ ProcessesInv' /\ proc'[p] = next
        /\ \A r \in Procs : r # p => proc'[r] = proc[r]
    BY <1>1, <1>2, <1>3, ProcessesKept DEF IInv
  <1>7. PassInv'
    <2>1. CASE p = "cycle"
      <3>1. proc'["cycle"].at = 1 /\ proc'["cycle"].started = clock
        BY <1>3, <1>6, <2>1
      <3>2. clock \in 0..clock' /\ StillCaptured(clock, 0)
        BY <1>1, <1>2 DEF StillCaptured
      <3>q. QED BY <3>1, <3>2 DEF PassInv, Captured, StillCaptured
    <2>2. CASE p # "cycle"
      BY <1>1, <1>2, <1>4, <1>6, <2>2, ProcsAre, PassKept DEF IInv
    <2>q. QED BY <2>1, <2>2
  <1>8. ReceiptInv'
    <2>1. CASE p = "cycle"
      BY <1>1, <1>2, <2>1, NoReceiptKeeps DEF Begin
    <2>2. CASE p # "cycle"
      BY <1>1, <1>4, <2>2, ReceiptStays DEF Begin
    <2>q. QED BY <2>1, <2>2
  <1>q. QED BY <1>5, <1>6, <1>7, <1>8 DEF IInv

LEMMA RefuseStep ==
    ASSUME IInv, NEW p \in Procs, Refuse(p)
    PROVE  IInv'
  <1>1. /\ Ends(p) /\ UNCHANGED truth /\ clock' = clock /\ RunsStep
        /\ receipt' = receipt
    BY RunsStay DEF Refuse, AfterFailedCapture, Ends
  <1>2. LaneStep /\ TableStep
    BY <1>1, TruthStays
  <1>3. TablesInv' /\ LanesInv' /\ FeaturesInv'
    BY <1>1, <1>2, TruthMoves
  <1>4. ProcessesInv' /\ PassInv'
    BY <1>1, <1>2, ProcessEnds
  <1>5. ReceiptInv'
    BY <1>1, <1>2, ReceiptStays
  <1>q. QED BY <1>3, <1>4, <1>5 DEF IInv

LEMMA CaptureStep ==
    ASSUME IInv, NEW p \in Procs, Capture(p)
    PROVE  IInv'
  <1> DEFINE name == StageOf(p)
  <1>1. /\ proc[p].at > 0 /\ name \notin Programs
        /\ lane' = WithSuccess(WithHealth(lane, name, "ok"), name)
        /\ StoreRows(name) \/ UNCHANGED tables
        /\ proc' = [proc EXCEPT ![p] = NextStage(p)]
        /\ clock' = clock /\ RunsStep /\ receipt' = receipt
    BY RunsStay DEF Capture, Capturing, Programs
  <1>2. LaneStep /\ \A l \in Lanes : l = PlanOf(name).lane => lane'[l].success = clock
    BY <1>1, SuccessStep DEF IInv
  <1>3. TableStep
    BY <1>1, StoreStep, UnchangedTables DEF IInv
  <1>4. TablesInv' /\ LanesInv' /\ FeaturesInv'
    BY <1>1, <1>2, <1>3, TruthMoves
  <1>5. StageDone(p)
    <2> SUFFICES ASSUME p = "cycle", proc[p].at <= 6
                 PROVE  lane'[CycleStages[proc[p].at]].success = clock
      BY DEF StageDone
    <2>1. proc[p].at \in 1..6
      BY <1>1 DEF IInv, ProcessesInv, Process
    <2>2. name = CycleStages[proc[p].at]
      BY ProcsAre DEF StageOf
    <2>3. name \in Lanes /\ PlanOf(name).lane = name
      BY <2>1, <2>2, FirstCaptures
    <2> HIDE DEF name
    <2>q. QED BY <1>2, <2>2, <2>3
  <1>6. ProcessesInv' /\ PassInv'
    BY <1>1, <1>2, <1>5, NextStageMoves, ProcessMoves
  <1>7. ReceiptInv'
    BY <1>1, <1>2, ReceiptStays
  <1>q. QED BY <1>4, <1>6, <1>7 DEF IInv

LEMMA FailCaptureStep ==
    ASSUME IInv, NEW p \in Procs, FailCapture(p)
    PROVE  IInv'
  <1> DEFINE name == StageOf(p)
  <1>1. /\ lane' = WithHealth(lane, name, "failed")
        /\ StoreRows(name) \/ UNCHANGED tables
        /\ Ends(p) /\ clock' = clock /\ RunsStep /\ receipt' = receipt
    BY RunsStay DEF FailCapture, AfterFailedCapture, Ends
  <1>2. LaneStep
    BY <1>1, HealthStep DEF IInv
  <1>3. TableStep
    BY <1>1, StoreStep, UnchangedTables DEF IInv
  <1>4. TablesInv' /\ LanesInv' /\ FeaturesInv'
    BY <1>1, <1>2, <1>3, TruthMoves
  <1>5. ProcessesInv' /\ PassInv'
    BY <1>1, <1>2, ProcessEnds
  <1>6. ReceiptInv'
    BY <1>1, <1>2, ReceiptStays
  <1>q. QED BY <1>4, <1>5, <1>6 DEF IInv

LEMMA CrashStep ==
    ASSUME IInv, NEW p \in Procs, Crash(p)
    PROVE  IInv'
  <1>0. DOMAIN draft = Builders /\ draft' = [draft EXCEPT ![p] = NoRun] /\ features' = features
    BY DEF IInv, FeaturesInv, Crash
  <1>1. Ends(p) /\ clock' = clock /\ RunsStep /\ receipt' = receipt
    BY <1>0 DEF Crash, Ends, RunsStep
  <1>2. LaneStep /\ TableStep
    <2>1. CASE UNCHANGED truth
      BY <2>1, TruthStays
    <2>2. CASE StoreRows(StageOf(p)) /\ UNCHANGED lane
      BY <2>2, StoreStep, UnchangedLanes DEF IInv
    <2>3. CASE StoreRows(StageOf(p)) /\ lane' = WithHealth(lane, StageOf(p), "ok")
      BY <2>3, StoreStep, HealthStep DEF IInv
    <2>q. QED BY <2>1, <2>2, <2>3 DEF Crash
  <1>3. TablesInv' /\ LanesInv' /\ FeaturesInv'
    BY <1>1, <1>2, TruthMoves
  <1>4. ProcessesInv' /\ PassInv'
    BY <1>1, <1>2, ProcessEnds
  <1>5. ReceiptInv'
    BY <1>1, <1>2, ReceiptStays
  <1>q. QED BY <1>3, <1>4, <1>5 DEF IInv

LEMMA BuildStep ==
    ASSUME IInv, NEW w \in Builders, Build(w), features' = features, UNCHANGED tables
    PROVE  RunsStep
  <1>1. DOMAIN draft = Builders /\ draft' = [draft EXCEPT ![w] = GlobalRun]
    BY DEF IInv, FeaturesInv, Build
  <1>q. QED BY <1>1 DEF RunsStep

LEMMA PublishStep ==
    ASSUME IInv, NEW w \in Builders, Publish(w)
    PROVE  RunsStep
  <1>1. /\ DOMAIN draft = Builders /\ draft' = [draft EXCEPT ![w] = NoRun]
        /\ features' = draft[w]
    BY DEF IInv, FeaturesInv, Publish
  <1>q. QED BY <1>1 DEF RunsStep

LEMMA BuildGlobalStep ==
    ASSUME IInv, NEW p \in Procs, BuildGlobal(p)
    PROVE  IInv'
  <1>1. /\ Build(p) /\ features' = features /\ UNCHANGED truth /\ UNCHANGED tables
        /\ clock' = clock /\ receipt' = receipt /\ proc' = proc
    BY DEF BuildGlobal, truth
  <1>2. p \in Builders
    BY DEF Builders
  <1>3. RunsStep
    BY <1>1, <1>2, BuildStep
  <1>q. QED BY <1>1, <1>3, PassesRest

LEMMA PublishGlobalStep ==
    ASSUME IInv, NEW p \in Procs, PublishGlobal(p)
    PROVE  IInv'
  <1>1. /\ At(p, "global") /\ Publish(p) /\ proc' = [proc EXCEPT ![p] = NextStage(p)]
        /\ UNCHANGED truth /\ clock' = clock /\ receipt' = receipt
    BY DEF PublishGlobal
  <1>2. LaneStep /\ TableStep
    BY <1>1, TruthStays
  <1>3. RunsStep
    BY <1>1, PublishStep DEF Builders
  <1>4. TablesInv' /\ LanesInv' /\ FeaturesInv'
    BY <1>1, <1>2, <1>3, TruthMoves
  <1>5. proc[p].at > 0 /\ StageDone(p)
    BY <1>1, ProgramDone DEF At, Programs
  <1>6. ProcessesInv' /\ PassInv'
    BY <1>1, <1>2, <1>5, NextStageMoves, ProcessMoves
  <1>7. ReceiptInv'
    BY <1>1, <1>2, ReceiptStays
  <1>q. QED BY <1>4, <1>6, <1>7 DEF IInv

LEMMA MaterializeSpotStep ==
    ASSUME IInv, NEW p \in Procs, MaterializeSpot(p)
    PROVE  IInv'
  <1>1. /\ At(p, "spot") /\ proc' = [proc EXCEPT ![p] = NextStage(p)]
        /\ UNCHANGED truth /\ clock' = clock /\ receipt' = receipt /\ RunsStep
    BY RunsStay DEF MaterializeSpot
  <1>2. LaneStep /\ TableStep
    BY <1>1, TruthStays
  <1>3. TablesInv' /\ LanesInv' /\ FeaturesInv'
    BY <1>1, <1>2, TruthMoves
  <1>4. proc[p].at > 0 /\ StageDone(p)
    BY <1>1, ProgramDone DEF At, Programs
  <1>5. ProcessesInv' /\ PassInv'
    BY <1>1, <1>2, <1>4, NextStageMoves, ProcessMoves
  <1>6. ReceiptInv'
    BY <1>1, <1>2, ReceiptStays
  <1>q. QED BY <1>3, <1>5, <1>6 DEF IInv

LEMMA PassGivesUp ==
    ASSUME IInv, NEW p \in Procs, RefuseFeatures(p) \/ ScoreFails(p)
    PROVE  IInv'
  <1>1. /\ Ends(p) /\ UNCHANGED truth /\ clock' = clock /\ RunsStep
        /\ receipt' = receipt
    BY RunsStay DEF RefuseFeatures, ScoreFails, Ends
  <1>2. LaneStep /\ TableStep
    BY <1>1, TruthStays
  <1>3. TablesInv' /\ LanesInv' /\ FeaturesInv'
    BY <1>1, <1>2, TruthMoves
  <1>4. ProcessesInv' /\ PassInv'
    BY <1>1, <1>2, ProcessEnds
  <1>5. ReceiptInv'
    BY <1>1, <1>2, ReceiptStays
  <1>q. QED BY <1>3, <1>4, <1>5 DEF IInv

LEMMA ScoreStep ==
    ASSUME IInv, NEW p \in Procs, Score(p)
    PROVE  IInv'
  <1>1. PICK eligible \in BOOLEAN :
            proc' = [proc EXCEPT ![p] = [NextStage(p) EXCEPT !.eligible = eligible]]
    BY DEF Score
  <1>2. /\ At(p, "score") /\ UNCHANGED truth /\ clock' = clock /\ receipt' = receipt
        /\ RunsStep
    BY RunsStay DEF Score
  <1>3. LaneStep /\ TableStep
    BY <1>2, TruthStays
  <1>4. TablesInv' /\ LanesInv' /\ FeaturesInv'
    BY <1>2, <1>3, TruthMoves
  <1>5. proc[p].at > 0 /\ StageDone(p)
    BY <1>2, ProgramDone DEF At, Programs
  <1>6. Moves(p)
    <2> DEFINE here == NextStage(p)
               next == [here EXCEPT !.eligible = eligible]
    <2>1. /\ here \in Process /\ here.at <= Len(Stages[p])
          /\ \/ here.at = 0
             \/ here.at = proc[p].at + 1 /\ here.started = proc[p].started
      BY <1>5, NextStageFits, IdleFits DEF IInv
    <2> HIDE DEF here
    <2>2. next \in Process /\ next.at = here.at /\ next.started = here.started
      BY <2>1 DEF Process
    <2>3. proc' = [proc EXCEPT ![p] = next]
      BY <1>1 DEF here
    <2> HIDE DEF next
    <2>q. QED BY <2>1, <2>2, <2>3 DEF Moves
  <1>7. ProcessesInv' /\ PassInv'
    BY <1>2, <1>3, <1>5, <1>6, ProcessMoves
  <1>8. ReceiptInv'
    BY <1>2, <1>3, ReceiptStays
  <1>q. QED BY <1>4, <1>7, <1>8 DEF IInv

LEMMA WriteReceiptStep ==
    ASSUME IInv, NEW p \in Procs, WriteReceipt(p)
    PROVE  IInv'
  <1>1. /\ At(p, "receipt") /\ proc' = [proc EXCEPT ![p] = NextStage(p)]
        /\ receipt' = [at |-> clock, started |-> proc[p].started, quote |-> quote,
                       ready |-> quote # Never /\ proc[p].eligible]
        /\ UNCHANGED truth /\ clock' = clock /\ RunsStep
    BY RunsStay DEF WriteReceipt
  <1>2. LaneStep /\ TableStep
    BY <1>1, TruthStays
  <1>3. TablesInv' /\ LanesInv' /\ FeaturesInv'
    BY <1>1, <1>2, TruthMoves
  <1>4. p = "cycle" /\ proc[p].at > 6 /\ StageDone(p)
    BY <1>1, ProgramDone DEF Programs
  <1>5. proc[p].at > 0 /\ proc[p].at \in Int
    BY <1>1 DEF At, IInv, ProcessesInv, Process
  <1>6. ProcessesInv' /\ PassInv'
    BY <1>1, <1>2, <1>4, <1>5, NextStageMoves, ProcessMoves
  <1>7. ReceiptInv'
    <2> DEFINE started == proc["cycle"].started
               at == proc["cycle"].at
    <2>1. receipt'.at = clock /\ receipt'.started = started /\ clock \in Nat
      BY <1>1, <1>4 DEF IInv, TablesInv
    <2>2. started \in 0..clock /\ Captured(started, at - 1) /\ at \in Int /\ at > 6
      BY <1>4, <1>5 DEF IInv, PassInv
    <2> HIDE DEF started, at
    <2>3. StillCaptured(started, at - 1)
      BY <1>2, <2>2, CapturedKept DEF IInv
    <2>4. StillCaptured(started, 6)
      BY <2>2, <2>3 DEF StillCaptured
    <2>q. QED BY <1>1, <2>1, <2>2, <2>4 DEF ReceiptInv, Captured, StillCaptured
  <1>q. QED BY <1>3, <1>6, <1>7 DEF IInv

LEMMA CliCaptureStep ==
    ASSUME IInv, CliCapture
    PROVE  IInv'
  <1>1. PICK name \in CliCaptures :
            /\ lane' = WithSuccess(WithHealth(lane, name, "ok"), name)
            /\ StoreRows(name) \/ UNCHANGED tables
    BY DEF CliCapture
  <1>2. clock' = clock /\ RunsStep /\ receipt' = receipt /\ proc' = proc
    BY RunsStay DEF CliCapture
  <1>3. LaneStep
    BY <1>1, SuccessStep DEF IInv
  <1>4. TableStep
    BY <1>1, StoreStep, UnchangedTables DEF IInv
  <1>q. QED BY <1>2, <1>3, <1>4, OutsideStep

LEMMA ObservationSteps ==
    ASSUME IInv, StampObservations \/ CommitObservations \/ LoseObservations
    PROVE  IInv'
  <1>1. clock' = clock /\ RunsStep /\ receipt' = receipt /\ proc' = proc
    BY RunsStay DEF StampObservations, CommitObservations, LoseObservations
  <1>2. CASE StampObservations
    <2>1. TableStep
      BY <1>2, StampStep DEF IInv
    <2>2. LaneStep
      BY <1>2, UnchangedLanes DEF IInv, StampObservations
    <2>q. QED BY <1>1, <2>1, <2>2, OutsideStep
  <1>3. CASE CommitObservations
    <2>1. PICK c \in pending : pending' = pending \ {c} /\ fred' = fred \cup FredRows(c)
      BY <1>3 DEF CommitObservations
    <2>2. OthersStay
      BY <1>3 DEF CommitObservations, OthersStay
    <2>3. TableStep
      BY <2>1, <2>2, EndStep DEF IInv
    <2>4. LaneStep
      BY <1>3, SuccessStep DEF IInv, CommitObservations
    <2>q. QED BY <1>1, <2>3, <2>4, OutsideStep
  <1>4. CASE LoseObservations
    <2>1. PICK c \in pending :
              /\ pending' = pending \ {c} /\ fred' \in {fred, fred \cup FredRows(c)}
              /\ \/ lane' = lane
                 \/ lane' = WithHealth(lane, "fred-observations", "failed")
                 \/ lane' = WithHealth(lane, "fred-observations", "ok")
                 \/ lane' = WithSuccess(WithHealth(lane, "fred-observations", "ok"),
                                        "fred-observations")
      BY <1>4 DEF LoseObservations
    <2>2. OthersStay
      BY <1>4 DEF LoseObservations, OthersStay
    <2>3. TableStep
      BY <2>1, <2>2, EndStep DEF IInv
    <2>4. LaneStep
      BY <2>1, UnchangedLanes, HealthStep, SuccessStep DEF IInv
    <2>q. QED BY <1>1, <2>3, <2>4, OutsideStep
  <1>q. QED BY <1>2, <1>3, <1>4

LEMMA CliRunSteps ==
    ASSUME IInv, CliBuild \/ CliPublish \/ CliDies
    PROVE  IInv'
  <1>1. UNCHANGED truth /\ UNCHANGED tables /\ clock' = clock /\ receipt' = receipt /\ proc' = proc
    BY DEF CliBuild, CliPublish, CliDies, truth
  <1>2. "operator" \in Builders
    BY DEF Builders
  <1>3. RunsStep
    <2>1. CASE CliBuild
      BY <1>1, <1>2, <2>1, BuildStep DEF CliBuild
    <2>2. CASE CliPublish
      BY <1>2, <2>2, PublishStep DEF CliPublish
    <2>3. CASE CliDies
      BY <1>2, <2>3 DEF CliDies, RunsStep, IInv, FeaturesInv
    <2>q. QED BY <2>1, <2>2, <2>3
  <1>q. QED BY <1>1, <1>3, PassesRest

LEMMA TickStep ==
    ASSUME IInv, Tick
    PROVE  IInv'
  <1>1. PICK d \in TickLengths : clock' = clock + d
    BY DEF Tick
  <1>2. UNCHANGED truth /\ RunsStep /\ proc' = proc /\ receipt' = receipt
    BY RunsStay DEF Tick
  <1>3. clock \in Nat /\ clock' \in Nat /\ clock <= clock' /\ StartMinute <= clock'
    BY <1>1, CycleAssumption DEF CycleAssumption, IInv, TablesInv
  <1>4. LaneStep /\ TableStep
    BY <1>2, TruthStays
  <1>5. TablesInv'
    <2>1. Keyed(fred)' /\ (\A r \in fred : r.at <= clock)'
      <3>1. ASSUME NEW r \in fred PROVE r.at <= clock'
        <4>1. r.at \in Nat /\ r.at <= clock
          BY DEF IInv, TablesInv, Keyed, Observation
        <4>q. QED BY <1>3, <4>1
      <3>2. fred' = fred
        BY <1>2 DEF truth, tables
      <3>q. QED BY <3>1, <3>2 DEF IInv, TablesInv, Keyed
    <2>2. \A c \in pending : c.at <= clock'
      <3>1. \A c \in pending : c.at \in Nat /\ c.at <= clock
        BY DEF IInv, TablesInv, Apart, Stamped
      <3>q. QED BY <1>3, <3>1
    <2>q. QED BY <1>2, <1>3, <2>1, <2>2 DEF IInv, TablesInv, truth, tables
  <1>6. LanesInv'
    <2>1. ASSUME NEW l \in Lanes PROVE lane[l].success <= clock'
      <3>1. lane[l].success \in Int /\ lane[l].success <= clock
        BY DEF IInv, LanesInv, LaneRow, Never
      <3>q. QED BY <1>3, <3>1
    <2>q. QED BY <1>2, <2>1 DEF IInv, LanesInv, truth
  <1>7. FeaturesInv'
    BY <1>2, <1>3, <1>4, FeaturesKept DEF IInv
  <1>8. ProcessesInv' /\ PassInv'
    BY <1>2, <1>3, <1>4, ProcessesStay
  <1>9. ReceiptInv'
    BY <1>2, <1>3, <1>4, ReceiptKept DEF IInv
  <1>q. QED BY <1>5, <1>6, <1>7, <1>8, <1>9 DEF IInv

-----------------------------------------------------------------------------
(* The theorems.                                                           *)

LEMMA InitIInv == Init => IInv
  <1> SUFFICES ASSUME Init PROVE IInv
    OBVIOUS
  <1> DEFINE row == [date |-> 0, at |-> EarlierCapture, value |-> EarlierValue]
  <1>1. /\ clock = StartMinute /\ StartMinute \in Nat
        /\ EarlierCapture \in Nat /\ EarlierCapture <= StartMinute
    BY CycleAssumption DEF CycleAssumption, Init
  <1>2. TablesInv
    <2>1. fred = {row} /\ row \in Observation /\ row.at <= clock
      BY <1>1 DEF Init, Observation, Values
    <2> HIDE DEF row
    <2>2. Keyed(fred)
      BY <2>1, FS_Singleton DEF Keyed
    <2>3. \A r \in fred : r.at <= clock
      BY <2>1
    <2>4. pending = {} /\ Apart(fred, pending)
      BY DEF Init, Apart
    <2>q. QED BY <1>1, <2>2, <2>3, <2>4 DEF Init, TablesInv
  <1>3. LanesInv
    <2>1. ASSUME NEW l \in Lanes PROVE lane[l] \in LaneRow /\ lane[l].success <= clock
      <3>1. CASE l = "fred-observations"
        <4>1. lane[l] = [success |-> EarlierCapture, health |-> "ok"]
          BY <3>1 DEF Init
        <4>q. QED BY <1>1, <4>1 DEF LaneRow
      <3>2. CASE l # "fred-observations"
        <4>1. lane[l] = [success |-> Never, health |-> "missing"]
          BY <3>2 DEF Init
        <4>q. QED BY <1>1, <4>1 DEF LaneRow, Never
      <3>q. QED BY <3>1, <3>2
    <2>q. QED BY <2>1 DEF Init, LanesInv
  <1>4. FeaturesInv
    <2>1. RunInv(NoRun, fred, pending, clock)
      BY <1>1, NoRunInv
    <2>q. QED BY <2>1 DEF Init, FeaturesInv
  <1>5. ProcessesInv
    <2>1. \A p \in Procs : Idle \in Process /\ Idle.at <= Len(Stages[p])
      BY IdleFits
    <2>q. QED BY <2>1 DEF Init, ProcessesInv
  <1>6. PassInv
    BY ProcsAre DEF Init, PassInv, Idle
  <1>7. ReceiptInv
    BY <1>1 DEF Init, ReceiptInv, NoReceipt, Never
  <1>q. QED BY <1>2, <1>3, <1>4, <1>5, <1>6, <1>7 DEF IInv

LEMMA StutterStep ==
    ASSUME IInv, UNCHANGED vars
    PROVE  IInv'
  <1>1. UNCHANGED truth /\ clock' = clock /\ RunsStep /\ proc' = proc /\ receipt' = receipt
    BY RunsStay DEF vars
  <1>q. QED BY <1>1, PassesRest

LEMMA NextIInv == IInv /\ [Next]_vars => IInv'
  <1> SUFFICES ASSUME IInv, [Next]_vars PROVE IInv'
    OBVIOUS
  <1>1. ASSUME NEW p \in Procs, Work(p) PROVE IInv'
    <2>1. CASE Begin(p)
      BY <2>1, BeginStep
    <2>2. CASE Refuse(p)
      BY <2>2, RefuseStep
    <2>3. CASE Capture(p)
      BY <2>3, CaptureStep
    <2>4. CASE FailCapture(p)
      BY <2>4, FailCaptureStep
    <2>5. CASE BuildGlobal(p) \/ PublishGlobal(p)
      BY <2>5, BuildGlobalStep, PublishGlobalStep
    <2>6. CASE MaterializeSpot(p)
      BY <2>6, MaterializeSpotStep
    <2>7. CASE RefuseFeatures(p) \/ ScoreFails(p)
      BY <2>7, PassGivesUp
    <2>8. CASE Score(p)
      BY <2>8, ScoreStep
    <2>9. CASE WriteReceipt(p)
      BY <2>9, WriteReceiptStep
    <2>q. QED
      BY <1>1, <2>1, <2>2, <2>3, <2>4, <2>5, <2>6, <2>7, <2>8, <2>9 DEF Work
  <1>2. ASSUME NEW p \in Procs, Crash(p) PROVE IInv'
    BY <1>2, CrashStep
  <1>3. CASE CliCapture
    BY <1>3, CliCaptureStep
  <1>4. CASE \/ StampObservations \/ CommitObservations \/ LoseObservations
             \/ CliBuild \/ CliPublish \/ CliDies
    BY <1>4, ObservationSteps, CliRunSteps
  <1>5. CASE Tick
    BY <1>5, TickStep
  <1>6. CASE UNCHANGED vars
    BY <1>6, StutterStep
  <1>q. QED BY <1>1, <1>2, <1>3, <1>4, <1>5, <1>6 DEF Next

(* However the cycle, the collector and the operator interleave, fail and  *)
(* crash, and whatever time passes between their steps, the invariant      *)
(* holds.                                                                  *)
THEOREM CycleInvariance == Spec => []IInv
  <1>1. Init => IInv
    BY InitIInv
  <1>2. IInv /\ [Next]_vars => IInv'
    BY NextIInv
  <1>q. QED BY <1>1, <1>2, PTL DEF Spec

LEMMA IInvTypeOK == IInv => TypeOK
  <1> SUFFICES ASSUME IInv PROVE TypeOK
    OBVIOUS
  <1>1. /\ \A r \in fred : r.at <= clock /\ r.value \in Values
        /\ \A c \in pending : c.at <= clock /\ c.value \in FredValues
    BY DEF IInv, TablesInv, Keyed, Observation, Apart, Stamped
  <1>2. proc \in [Procs -> Process] /\ \A p \in Procs : proc[p].at <= Len(Stages[p])
    BY DEF IInv, ProcessesInv
  <1>q. QED BY <1>1, <1>2
            DEF IInv, TypeOK, TablesInv, LanesInv, FeaturesInv, RunInv, ReceiptInv, Process

LEMMA IInvReceipt == IInv => ReceiptMeansWholePass
  <1> SUFFICES ASSUME IInv, receipt.at # Never,
                      NEW l \in SpotRequired, FreshnessWindow[l] <= 30
               PROVE  lane[l].success >= receipt.started
    BY DEF ReceiptMeansWholePass
  <1>1. PICK i \in 1..6 : CycleStages[i] = l
    BY ShortWindows
  <1>2. Captured(receipt.started, 6) /\ i <= 6
    BY DEF IInv, ReceiptInv
  <1>q. QED BY <1>1, <1>2 DEF Captured

(* Tables, lanes, processes and receipts keep their types, no captured row *)
(* is from the future, and no process is past its last stage.              *)
THEOREM CycleTypeOK == Spec => []TypeOK
  BY CycleInvariance, IInvTypeOK, PTL

(* A receipt is only written by a pass that captured every lane with a     *)
(* short window itself, and no later fault, crash or capture takes that    *)
(* back.                                                                   *)
THEOREM ReceiptsMeanWholePasses == Spec => []ReceiptMeansWholePass
  BY CycleInvariance, IInvReceipt, PTL

(* The macro value of a closed bucket is the last observation, by date and *)
(* then by capture, that was known at its end, for any observations and any*)
(* number of captures before and after; only captures in flight while the  *)
(* tables were read are not counted (_fred_feature_values).                *)
THEOREM MacrosAreLastKnown == Spec => []MacroIsLastKnown
  <1>1. IInv => MacroIsLastKnown
    BY DEF IInv, FeaturesInv, RunInv, MacroIsLastKnown
  <1>q. QED BY <1>1, CycleInvariance, PTL

(* The latest run is one that somebody built.                              *)
LEMMA RunsArePublished ==
    ASSUME [Next]_vars, features' # features
    PROVE  \E w \in Builders : features' = draft[w]
  <1>1. ASSUME NEW p \in Procs, Work(p) \/ Crash(p)
        PROVE  PublishGlobal(p) \/ features' = features
    BY <1>1 DEF Work, Crash, Begin, Refuse, Capture, FailCapture, BuildGlobal,
                MaterializeSpot, RefuseFeatures, Score, ScoreFails, WriteReceipt, runs
  <1>2. CliPublish \/ features' = features \/ \E p \in Procs : Work(p) \/ Crash(p)
    BY DEF Next, vars, CliCapture, StampObservations, CommitObservations, LoseObservations,
           CliBuild, CliDies, Tick, runs
  <1>q. QED BY <1>1, <1>2 DEF CliPublish, PublishGlobal, Publish, Builders

(* One observation at most is the last one known.                          *)
LEMMA LastIsOne ==
    ASSUME NEW rows, Keyed(rows), NEW known, known \subseteq rows,
           NEW u \in LastValues(known), NEW v \in LastValues(known)
    PROVE  u = v
  <1>1. CASE known = {}
    BY <1>1 DEF LastValues
  <1>2. CASE known # {}
    <2>1. PICK r \in LastOf(known), t \in LastOf(known) : u = r.value /\ v = t.value
      BY <1>2 DEF LastValues
    <2>2. /\ r \in known /\ \A s \in known : s.date < r.date \/ (s.date = r.date /\ s.at <= r.at)
          /\ t \in known /\ \A s \in known : s.date < t.date \/ (s.date = t.date /\ s.at <= t.at)
      BY DEF LastOf
    <2>3. r.date \in Nat /\ t.date \in Nat /\ r.at \in Nat /\ t.at \in Nat
      BY <2>2 DEF Keyed, Observation
    <2>4. r.date = t.date /\ r.at = t.at
      BY <2>2, <2>3
    <2>q. QED BY <2>1, <2>2, <2>4 DEF Keyed
  <1>q. QED BY <1>1, <1>2

(* Two runs agree on a bucket that was over when each of them read the     *)
(* tables, if no capture got its time before the end of the bucket and was *)
(* still in flight.                                                        *)
Settled(b, run) ==
    BucketEnd(b) < run.at /\ \A t \in run.inFlight : t > BucketEnd(b)

LEMMA RunsAgree ==
    ASSUME NEW rows, Keyed(rows), NEW b, NEW run, NEW other,
           JoinsLastKnown(run, rows), JoinsLastKnown(other, rows),
           b \in DOMAIN run.rows, b \in DOMAIN other.rows, BucketEnd(b) \in Nat,
           run.inFlight \subseteq Nat, other.inFlight \subseteq Nat,
           Settled(b, run), Settled(b, other)
    PROVE  run.rows[b].macro = other.rows[b].macro
  <1> DEFINE known == {r \in rows : r.date <= DateOf(b) /\ r.at <= BucketEnd(b)}
  <1>1. \A r \in rows : r.at \in Nat
    BY DEF Keyed, Observation
  <1>2. \A r \in rows : r.at <= BucketEnd(b) =>
            r.at \notin run.inFlight /\ r.at \notin other.inFlight
    BY <1>1 DEF Settled
  <1>3. KnownAt(b, run, rows) = known /\ KnownAt(b, other, rows) = known
    BY <1>2 DEF KnownAt
  <1>4. known \subseteq rows
    OBVIOUS
  <1> HIDE DEF known
  <1>5. run.rows[b].macro \in LastValues(known) /\ other.rows[b].macro \in LastValues(known)
    BY <1>3 DEF JoinsLastKnown, Settled
  <1>q. QED BY <1>4, <1>5, LastIsOne

(* Materializing again does not rewrite the past: a quarter hour that was  *)
(* over when both runs read the tables keeps its macro value, although its *)
(* date may have been captured again, with another value, in between -     *)
(* unless a capture was in flight that had got its time before the end of  *)
(* the quarter hour.                                                       *)
PastIsStable ==
    [][\A b \in DOMAIN features.rows \cap DOMAIN features'.rows :
          Settled(b, features) /\ Settled(b, features') =>
              features'.rows[b].macro = features.rows[b].macro]_vars

(* No feature run, of the cycle or by hand, gives a quarter hour that was  *)
(* over before another macro value than it had, whatever was captured      *)
(* since, but for the captures in flight when either run read the tables.  *)
THEOREM PastsAreStable == Spec => PastIsStable
  <1> DEFINE Kept == \A b \in DOMAIN features.rows \cap DOMAIN features'.rows :
                        Settled(b, features) /\ Settled(b, features') =>
                            features'.rows[b].macro = features.rows[b].macro
  <1>1. IInv /\ [Next]_vars => [Kept]_vars
    <2> SUFFICES ASSUME IInv, [Next]_vars PROVE Kept
      OBVIOUS
    <2> SUFFICES ASSUME NEW b \in DOMAIN features.rows, b \in DOMAIN features'.rows,
                        Settled(b, features), Settled(b, features')
                 PROVE  features'.rows[b].macro = features.rows[b].macro
      OBVIOUS
    <2>1. CASE features' = features
      BY <2>1
    <2>2. CASE features' # features
      <3>1. PICK w \in Builders : features' = draft[w]
        BY <2>2, RunsArePublished
      <3>2. RunInv(features, fred, pending, clock) /\ RunInv(draft[w], fred, pending, clock)
        BY DEF IInv, FeaturesInv
      <3> DEFINE old == features
                 new == draft[w]
      <3>3. /\ JoinsLastKnown(old, fred) /\ JoinsLastKnown(new, fred) /\ b \in Nat
            /\ old.inFlight \subseteq Nat /\ new.inFlight \subseteq Nat
        BY <3>2 DEF RunInv
      <3>4. Settled(b, old) /\ Settled(b, new) /\ b \in DOMAIN new.rows
        BY <3>1
      <3>5. BucketEnd(b) \in Nat
        BY <3>3 DEF BucketEnd, BucketMinutes
      <3>6. Keyed(fred)
        BY DEF IInv, TablesInv
      <3> HIDE DEF old, new
      <3>7. new.rows[b].macro = old.rows[b].macro
        BY <3>3, <3>4, <3>5, <3>6, RunsAgree DEF old
      <3>q. QED BY <3>1, <3>7 DEF old, new
    <2>q. QED BY <2>1, <2>2
  <1>q. QED BY <1>1, CycleInvariance, PTL DEF Spec, PastIsStable
====
