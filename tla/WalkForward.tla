---------------------------- MODULE WalkForward -----------------------------
(***************************************************************************)
(* PaperPracticeRuntime.run_backtest_walk_forward: the history after the    *)
(* training days is cut into windows; each is replayed bar by bar under the *)
(* active profile into a book of its own, and its last close moves the      *)
(* profile before the next window begins.  Each step ends with a commit; an *)
(* exception or a crash leaves the commits so far, and whoever calls again  *)
(* begins with the first window.                                            *)
(*                                                                          *)
(* A time is the index of a bucket of cadence_minutes in the replayed       *)
(* history.  What a bar holds is drawn when a replay first reads it, and    *)
(* stays: the rows of a feature run and the candles do not change.          *)
(***************************************************************************)
EXTENDS PracticeRules, BacktestTruth, FiniteSets

CONSTANTS
  InitialProfile,              \* payload of the active revision at the start
  StopLossBps, TakeProfitBps,  \* the keys of the payload that no patch moves
  Bars,           \* what a scored bar may hold
  WindowEnds,     \* the last bar of each window
  StartingCash, QuoteSize, FeeBps,  \* of each window's book
  LotsPerUsdc,    \* lamports per unit of USDC at price one
  LiveReasons,    \* why the live loop may close a session meanwhile
  MaxRuns,        \* bound on the runs ever started
  MaxLivePatches  \* bound on the patches of the live loop

Profile == [conf: 55 .. 95, cooldown: InitialProfile.cooldown .. 12,
            timeStop: 4 .. InitialProfile.timeStop]

ASSUME WalkForwardAssumption ==
  /\ InitialProfile.cooldown \in Nat /\ InitialProfile.timeStop \in Nat
  /\ InitialProfile \in Profile
  /\ StopLossBps \in Nat \ {0} /\ TakeProfitBps \in Nat \ {0}
  /\ Bars \subseteq [price: Nat \ {0}, conf: Nat, regime: Regimes]
  /\ WindowEnds \in Seq(Nat \ {0})
  /\ \A v, w \in DOMAIN WindowEnds : v < w => WindowEnds[v] < WindowEnds[w]
  /\ StartingCash \in Nat /\ QuoteSize \in Nat \ {0} /\ FeeBps \in Nat /\ FeeBps <= 10000
  /\ LotsPerUsdc \in Nat \ {0} /\ MaxRuns \in Nat
  /\ LiveReasons \subseteq Reasons /\ MaxLivePatches \in Nat

VARIABLES
  history,    \* the bars that some run has read
  revisions,  \* paper_practice_profile_revision_v1; the last is active
  sessions,   \* backtest_session_v1 with the metadata of its window, and its book
  ladders,    \* the runs that wrote a summary with completed_ladder
  walk        \* the run in progress

vars == <<history, revisions, sessions, ladders, walk>>

Windows == DOMAIN WindowEnds
FirstBar(w) == IF w = 1 THEN 1 ELSE WindowEnds[w - 1] + 1

CloseReasons == Reasons \cup {"window_end"}
Revision == [profile: Profile, source: Nat]  \* of a session here, or 0
Session == [run: Nat, window: Windows, revision: Nat, book: Book]
Stages == {"off", "window", "open", "replay", "settle", "close", "review"}

(* The locals of a run.  entry is the bar of the open position (0: none),   *)
(* cost what was quoted for it, reason the last close of the window.        *)
Walk == [stage: Stages, run: Nat, window: Nat, revision: Nat, bar: Nat,
         entry: Nat, cost: Nat, reason: CloseReasons]

NoWalk(run) ==
  [stage |-> "off", run |-> run, window |-> 0, revision |-> 0,
   bar |-> 0, entry |-> 0, cost |-> 0, reason |-> "window_end"]

Current == Len(sessions)
CurrentBook == sessions[Current].book
LoadedProfile == revisions[walk.revision].profile

-----------------------------------------------------------------------------
(* The checks that precede the windows (history, training profile, strategy *)
(* report, candles) end in an Abort when they fail.  A window without bars   *)
(* is left out by the code, and is no window here.                           *)
StartRun ==
  /\ walk.stage = "off"
  /\ walk.run < MaxRuns
  /\ walk' = [NoWalk(walk.run + 1) EXCEPT !.stage = "window", !.window = 1]
  /\ UNCHANGED <<history, revisions, sessions, ladders>>

Abort ==
  /\ walk.stage # "off"
  /\ walk' = NoWalk(walk.run)
  /\ UNCHANGED <<history, revisions, sessions, ladders>>

(* Mutant: the profile is loaded once, before the first window. *)
RevisionOfRun == IF walk.revision = 0 THEN Len(revisions) ELSE walk.revision

ActiveRevision == Len(revisions)

(* A window is scored on the rows up to its end, with however many models,  *)
(* and the regime models are compared; then the profile is loaded again.    *)
LoadWindow ==
  /\ walk.stage = "window" /\ walk.window \in Windows
  /\ walk' = [walk EXCEPT !.stage = "open", !.revision = ActiveRevision]
  /\ UNCHANGED <<history, revisions, sessions, ladders>>

OpenBook ==
  /\ walk.stage = "open"
  /\ sessions' = Append(sessions, [run |-> walk.run, window |-> walk.window,
                                   revision |-> walk.revision,
                                   book |-> NewBook(StartingCash, FeeBps)])
  /\ walk' = [walk EXCEPT !.stage = "replay", !.bar = FirstBar(walk.window),
                          !.entry = 0, !.cost = 0, !.reason = "window_end"]
  /\ UNCHANGED <<history, revisions, ladders>>

-----------------------------------------------------------------------------
(* One bar of the window. *)

Rounded(n, d) == (2 * n + d) \div (2 * d)

(* _historical_entry_reason_codes; the advisory report targets "up" and     *)
(* allows the profile's own regime.                                         *)
EntryBlocked(profile, bar) == bar.regime # "long_friendly" \/ bar.conf < profile.conf

(* Mutant: the hold window is counted from the bar after the entry. *)
HistoricalExitLate(profile, pnlBps, held, regime) ==
  IF pnlBps <= -StopLossBps THEN "stop_loss"
  ELSE IF pnlBps >= TakeProfitBps THEN "take_profit"
  ELSE IF held > profile.timeStop THEN "time_stop"
  ELSE IF regime \in {"risk_off", "no_trade"} THEN "regime_degraded"
  ELSE "none"

(* _historical_exit_reason: the rules of the live loop but for the risk gate's. *)
HistoricalExit(profile, pnlBps, held, regime) ==
  IF pnlBps <= -StopLossBps THEN "stop_loss"
  ELSE IF pnlBps >= TakeProfitBps THEN "take_profit"
  ELSE IF held >= profile.timeStop THEN "time_stop"
  ELSE IF regime \in {"risk_off", "no_trade"} THEN "regime_degraded"
  ELSE "none"

QuoteUsdc == AtMost(QuoteSize, CurrentCash(CurrentBook))
TokensFor(usdc, price) == Rounded(usdc * LotsPerUsdc, price)
ProceedsAt(price) == Rounded(CurrentBook.tokens * price, LotsPerUsdc)
PnlBpsAt(price) == ((ProceedsAt(price) - walk.cost) * 10000) \div walk.cost

BookBecomes(book) ==
  sessions' = [sessions EXCEPT ![Current].book = book]

NextBar(entry, cost, reason) ==
  walk' = [walk EXCEPT !.bar = @ + 1, !.entry = entry, !.cost = cost, !.reason = reason]

(* A blocked bar, and one with nothing left to quote, is passed over. *)
PassOver(bar) ==
  /\ walk.entry = 0
  /\ EntryBlocked(LoadedProfile, bar) \/ QuoteUsdc <= 0 \/ TokensFor(QuoteUsdc, bar.price) <= 0
  /\ NextBar(0, 0, walk.reason)
  /\ UNCHANGED sessions

(* A buy that the owner refuses, for cash that does not cover quote and fee, *)
(* raises out of the run: only Abort is left.                                *)
Enter(bar) ==
  /\ walk.entry = 0
  /\ ~EntryBlocked(LoadedProfile, bar)
  /\ LET usdc == QuoteUsdc
         tokens == TokensFor(usdc, bar.price)
     IN /\ BuyAccepted(CurrentBook, walk.bar, usdc, tokens)
        /\ BookBecomes(Bought(CurrentBook, walk.bar, usdc, tokens))
        /\ NextBar(walk.bar, usdc, walk.reason)

HoldOrExit(bar) ==
  /\ walk.entry # 0
  /\ LET reason == HistoricalExit(LoadedProfile, PnlBpsAt(bar.price),
                                  walk.bar - walk.entry, bar.regime)
     IN \/ /\ reason = "none"
           /\ NextBar(walk.entry, walk.cost, walk.reason)
           /\ UNCHANGED sessions
        \/ /\ reason # "none"
           /\ SellAccepted(CurrentBook, walk.bar, ProceedsAt(bar.price), CurrentBook.tokens)
           /\ BookBecomes(Sold(CurrentBook, walk.bar, ProceedsAt(bar.price),
                               CurrentBook.tokens))
           /\ NextBar(0, 0, reason)

ReplayBar ==
  /\ walk.stage = "replay" /\ walk.bar <= WindowEnds[walk.window]
  /\ \E bar \in Bars :
       /\ IF walk.bar \in DOMAIN history
          THEN bar = history[walk.bar] /\ UNCHANGED history
          ELSE history' = Append(history, bar)
       /\ PassOver(bar) \/ Enter(bar) \/ HoldOrExit(bar)
  /\ UNCHANGED <<revisions, ladders>>

-----------------------------------------------------------------------------
(* The end of the window. *)

EndReplay ==
  /\ walk.stage = "replay" /\ walk.bar > WindowEnds[walk.window]
  /\ walk' = [walk EXCEPT !.stage = IF walk.entry = 0 THEN "close" ELSE "settle"]
  /\ UNCHANGED <<history, revisions, sessions, ladders>>

LastBar == WindowEnds[walk.window]

(* What is still held is sold in the last bucket; a position that was bought *)
(* there is refused by the owner, for an event that is no later than the buy. *)
Settle ==
  /\ walk.stage = "settle"
  /\ LET proceeds == ProceedsAt(history[LastBar].price) IN
       /\ SellAccepted(CurrentBook, LastBar, proceeds, CurrentBook.tokens)
       /\ BookBecomes(Sold(CurrentBook, LastBar, proceeds, CurrentBook.tokens))
  /\ walk' = [walk EXCEPT !.stage = "close", !.entry = 0, !.cost = 0, !.reason = "window_end"]
  /\ UNCHANGED <<history, revisions, ladders>>

CloseBook ==
  /\ walk.stage = "close"
  /\ CloseAccepted(CurrentBook)
  /\ BookBecomes(Closed(CurrentBook, LastBar))
  /\ walk' = [walk EXCEPT !.stage = "review"]
  /\ UNCHANGED <<history, revisions, ladders>>

(* The patch for the window's last close is proposed, reviewed and compared; *)
(* it is applied only when it was accepted and selected.  window_end has no  *)
(* patch.                                                                    *)
ReviewWindow ==
  /\ walk.stage = "review"
  /\ \/ /\ walk.reason # "window_end"
        /\ revisions' = Append(revisions,
             [profile |-> Patched(LoadedProfile, revisions[Len(revisions)].profile,
                                  walk.reason),
              source |-> Current])
     \/ UNCHANGED revisions
  /\ walk' = [walk EXCEPT !.stage = "window", !.window = @ + 1]
  /\ UNCHANGED <<history, sessions, ladders>>

(* Mutant: the last window is left out. *)
ButTheLastDone == walk.window >= Len(WindowEnds)

AllWindowsDone == walk.window \notin Windows

(* The summary that lets the practice loop start. *)
FinishRun ==
  /\ walk.stage = "window" /\ AllWindowsDone
  /\ ladders' = ladders \cup {walk.run}
  /\ walk' = NoWalk(walk.run)
  /\ UNCHANGED <<history, revisions, sessions>>

-----------------------------------------------------------------------------
(* Meanwhile the live loop may run: a paper session that it closes moves the *)
(* same profile.  PaperPractice has the loop itself; here it is its patch.   *)
(* Only LoadWindow and ReviewWindow read the revisions, so that a patch      *)
(* anywhere in a window is one before its review.                            *)
OfLiveLoop == {r \in DOMAIN revisions : revisions[r].source = 0}  \* and the first

(* _ensure_historical_ladder_completed: the loop starts after a completed   *)
(* ladder.  Its iteration has loaded a revision that was active since then  *)
(* and since its own last patch.                                            *)
MayHaveLoaded(revision) ==
  /\ \E run \in ladders : \A r \in DOMAIN revisions \ OfLiveLoop :
       sessions[revisions[r].source].run <= run => r <= revision
  /\ \A r \in OfLiveLoop : r <= revision

LivePatch ==
  /\ walk.stage \in {"window", "review"}
  /\ Cardinality(OfLiveLoop) <= MaxLivePatches
  /\ \E loaded \in DOMAIN revisions, reason \in LiveReasons :
       /\ MayHaveLoaded(loaded)
       /\ revisions' = Append(revisions,
            [profile |-> Patched(revisions[loaded].profile, revisions[Len(revisions)].profile,
                                 reason),
             source |-> 0])
  /\ UNCHANGED <<history, sessions, ladders, walk>>

-----------------------------------------------------------------------------
Init ==
  /\ history = << >>
  /\ revisions = << [profile |-> InitialProfile, source |-> 0] >>
  /\ sessions = << >>
  /\ ladders = {}
  /\ walk = NoWalk(0)

Next ==
  \/ StartRun \/ LoadWindow \/ OpenBook \/ ReplayBar \/ EndReplay \/ Settle
  \/ CloseBook \/ ReviewWindow \/ FinishRun \/ Abort \/ LivePatch

Spec == Init /\ [][Next]_vars

-----------------------------------------------------------------------------
(* Properties.                                                              *)

(* Every table holds rows of its type and every reference is to a row; in   *)
(* particular no sequence of windows patches the profile out of its bounds. *)
TypeOK ==
  /\ history \in Seq(Bars)
  /\ revisions \in Seq(Revision) /\ revisions # << >>
  /\ sessions \in Seq(Session)
  /\ \A s \in DOMAIN sessions : sessions[s].revision \in DOMAIN revisions
  /\ ladders \subseteq 1 .. walk.run
  /\ walk \in Walk /\ walk.revision \in 0 .. Len(revisions)

(* No money appears or disappears in a book, whatever was bought and sold   *)
(* and whenever the run stopped: cash plus the cost of what is held, less   *)
(* the realized result, is the starting cash, and none of them is negative. *)
Balanced(book) ==
  /\ CurrentCash(book) + book.basis - book.realized = book.starting
  /\ CurrentCash(book) >= 0 /\ book.tokens >= 0 /\ book.basis >= 0
  /\ book.tokens = 0 => book.basis = 0

BooksBalance == \A s \in DOMAIN sessions : Balanced(sessions[s].book)

(* The fills of a book lie in its window in the order of time, a buy and    *)
(* the sale of all it bought in turns; nothing is held longer than the time *)
(* stop of the revision that the window was replayed with.                  *)
TradesInTurn ==
  \A s \in DOMAIN sessions :
    LET fills == sessions[s].book.fills
        w == sessions[s].window
    IN \A i \in DOMAIN fills :
         /\ FirstBar(w) <= fills[i].at /\ fills[i].at <= WindowEnds[w]
         /\ fills[i].side = IF i % 2 = 1 THEN "buy" ELSE "sell"
         /\ i > 1 => fills[i - 1].at < fills[i].at
         /\ i % 2 = 0 =>
              /\ fills[i].tokens = fills[i - 1].tokens
              /\ fills[i].at - fills[i - 1].at <=
                   revisions[sessions[s].revision].profile.timeStop

(* A run that reports a completed ladder has replayed every window once, in *)
(* order, and has closed every book with nothing left in it.                *)
CompletedLadder ==
  \A r \in ladders :
    LET mine == {s \in DOMAIN sessions : sessions[s].run = r} IN
      /\ {sessions[s].window : s \in mine} = Windows
      /\ \A s, t \in mine : s < t => sessions[s].window < sessions[t].window
      /\ \A s \in mine :
           sessions[s].book.status = "closed" /\ sessions[s].book.tokens = 0

(* A window is replayed with the revision that all windows before it led    *)
(* to, whatever runs failed in between, and its lesson is drawn from one    *)
(* closed book and the profile it was replayed with.  Only the live loop    *)
(* comes between, and keeps what the lesson does not name.                  *)
LessonsInOrder ==
  /\ \A s \in DOMAIN sessions : \A r \in 2 .. Len(revisions) :
       revisions[r].source \in 1 .. s - 1 => r <= sessions[s].revision
  /\ \A r \in 2 .. Len(revisions) : revisions[r].source # 0 =>
       LET s == revisions[r].source
           loaded == sessions[s].revision
       IN /\ s \in DOMAIN sessions /\ sessions[s].book.status = "closed"
          /\ loaded < r /\ \A q \in loaded + 1 .. r - 1 : revisions[q].source = 0
          /\ \E reason \in Reasons : revisions[r].profile =
               Patched(revisions[loaded].profile, revisions[r - 1].profile, reason)
          /\ \A q \in 2 .. Len(revisions) : revisions[q].source = s => q = r

(* A window is replayed blind: no revision in force in it was learnt from   *)
(* its bars or from later ones.                                             *)
ReplayIsBlind ==
  \A s \in DOMAIN sessions : \A r \in 2 .. sessions[s].revision :
    revisions[r].source # 0 => sessions[revisions[r].source].window < sessions[s].window
=============================================================================
