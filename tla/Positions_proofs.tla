-------------------------- MODULE Positions_proofs --------------------------
(***************************************************************************)
(* Theorems about the two ways to a position: CandleTrade, for every       *)
(* price scale, preset, target and lifetime, and CopyTrade, for every set  *)
(* of tasks, cap and number of trades.                                     *)
(***************************************************************************)
EXTENDS CandleTrade, CopyTrade, FiniteSetTheorems, TLAPS

-----------------------------------------------------------------------------
(* CandleTrade.  What the records of a scan, of the position and of the    *)
(* watchers hold.                                                          *)

Prices     == 0 .. Top - 1
Reasons    == {"resolution_win", "tp_hit", "resolution_loss", "sl_hit", "strategy_exit",
               "market_expired"}
Forces     == {p.force : p \in Presets}
BookReads  == [at : {"book"}, leg : [ask : Prices, wide : BOOLEAN], read : 0 .. Duration]
Shelves    == [Tokens -> BookReads \cup {Bare}]
Scans      == [at : {"books"}, now : 0 .. Duration, read : Shelves]
Candidates == [at : {"fill"}, side : Tokens, price : 1 .. Top - 1, cost : Nat,
               stamp : 0 .. Duration, now : 0 .. Duration, read : 0 .. Duration]
OpenRows   == [at : {"open"}, side : Tokens, entry : 1 .. Top - 1, tp : Nat, sl : Nat]
ClosedRows == [at : {"closed"}, side : Tokens, entry : 1 .. Top - 1, tp : Nat, sl : Nat,
               why : Reasons, exit : Prices]
Listings   == [at : {"listed"}, force : Forces]
Decisions  == [at : {"close"}, why : Reasons, mark : Prices]

MarketPart ==
  /\ left \in 0 .. Duration /\ book \in Quotes /\ over \in Tokens \cup {"undecided"}
  /\ preset \in Presets /\ misses \in 0 .. ExpiredLooks /\ reboots \in 0 .. MaxReboots
  /\ over # "undecided" => left = 0

RecordPart ==
  /\ shelf \in Shelves
  /\ pick \in {Idle} \cup Scans \cup Candidates
  /\ held \in {Bare} \cup OpenRows \cup ClosedRows
  /\ hands \in [Loops -> {Idle} \cup Listings \cup Decisions]

\* A scan under way is young, its books are not much older, and the preset it began
\* with is still the user's.
ScanPart ==
  /\ pick # Idle => held = Bare /\ preset.floor <= pick.now
  /\ pick.at = "books" =>
       /\ left <= pick.now /\ pick.now - left <= ScanTime
       /\ \A t \in Tokens : pick.read[t] # Bare => pick.read[t].read - pick.now <= CacheTtl
  /\ pick.at = "fill" =>
       /\ left <= pick.stamp /\ pick.now - pick.stamp <= ScanTime
       /\ pick.read - pick.now <= CacheTtl

\* A reason to close that is true now, and stays true while time runs out.
TrueReason(why, mark) ==
  /\ why = "market_expired" => left = 0
  /\ why = "strategy_exit" => (\E p \in Presets : left <= p.force) \/ mark <= FlipStop
  /\ why \in {"tp_hit", "resolution_win"} => (held.side = "yes" => mark > held.entry)
  /\ why \in {"sl_hit", "resolution_loss"} => (held.side = "yes" => mark < held.entry)

HandPart ==
  \A w \in Loops :
    /\ held = Bare => hands[w] = Idle
    /\ Open /\ hands[w].at = "close" => TrueReason(hands[w].why, hands[w].mark)

\* The inductive invariant of the candle.
CandleInv == MarketPart /\ RecordPart /\ ScanPart /\ HandPart

\* What the assumption says of the bounds, of a preset, of a target and of a book.
LEMMA ScaleFacts ==
  ASSUME CandleAssumption
  PROVE  /\ Top \in Nat \ {0} /\ Duration \in Nat /\ CacheTtl \in Nat /\ TobStale \in Nat
         /\ ScanTime \in Nat /\ MaxReboots \in Nat
BY DEF CandleAssumption

LEMMA TargetFacts ==
  ASSUME CandleAssumption, NEW target \in Targets
  PROVE  target[1] \in Nat /\ target[2] \in Nat
BY DEF CandleAssumption

LEMMA PresetFacts ==
  ASSUME CandleAssumption, NEW p \in Presets
  PROVE  /\ p.floor \in Nat /\ p.lo \in Nat /\ p.hi \in Nat
         /\ p.underdog \in BOOLEAN /\ p.force \in Int
BY DEF CandleAssumption, Never

LEMMA QuoteFacts ==
  ASSUME CandleAssumption, NEW b \in Quotes, NEW t \in Tokens
  PROVE  b[t] \in [ask : Prices, wide : BOOLEAN] /\ b[t].ask \in Prices
BY DEF CandleAssumption, Prices

LEMMA CandleInitHolds ==
  ASSUME CandleAssumption, CandleInit
  PROVE  CandleInv
<1>1. MarketPart
  BY ScaleFacts DEF CandleInit, MarketPart, ExpiredLooks
<1>2. RecordPart
  BY DEF CandleInit, RecordPart, Shelves, NoBooks
<1>3. ScanPart
  BY DEF CandleInit, ScanPart, Idle
<1>4. HandPart
  BY DEF CandleInit, HandPart, Open, Bare, Idle
<1> QED BY <1>1, <1>2, <1>3, <1>4 DEF CandleInv

-----------------------------------------------------------------------------
(* The exchange, the clock and the user.                                   *)

LEMMA TickDownKeeps ==
  ASSUME CandleAssumption, CandleInv, TickDown
  PROVE  CandleInv'
<1> USE DEF CandleInv, entryVars, exitVars
<1>1. /\ left' = left - 1 /\ left' \in 0 .. Duration
      /\ UNCHANGED <<book, over, preset, pick, held, hands, misses, reboots>>
  BY ScaleFacts DEF TickDown, MarketPart
<1>2. MarketPart'
  BY <1>1, ScaleFacts DEF MarketPart, TickDown
<1>3. RecordPart'
  <2>1. shelf' \in Shelves
    BY DEF TickDown, RecordPart, Shelves
  <2> QED BY <1>1, <2>1 DEF RecordPart
<1>4. ScanPart'
  <2>1. pick.at = "books" => pick.now \in 0 .. Duration /\ pick.now - left < ScanTime
    BY DEF TickDown, RecordPart, Scans, Candidates, Idle
  <2>2. pick.at = "fill" => pick.stamp \in 0 .. Duration
    BY DEF RecordPart, Scans, Candidates, Idle
  <2> QED BY <1>1, <2>1, <2>2, ScaleFacts DEF ScanPart, MarketPart
<1>5. HandPart'
  <2>1. \A p \in Presets : left <= p.force => left' <= p.force
    BY <1>1, PresetFacts DEF MarketPart
  <2>2. left # 0
    BY DEF TickDown, MarketPart
  <2> QED BY <1>1, <2>1, <2>2 DEF HandPart, TrueReason, Open
<1> QED BY <1>2, <1>3, <1>4, <1>5

LEMMA MarketKeeps ==
  ASSUME CandleAssumption, CandleInv, BookMoves \/ ResultArrives \/ SelectPreset
  PROVE  CandleInv'
<1> USE DEF CandleInv, entryVars, exitVars, BookMoves, ResultArrives, SelectPreset
<1>1. UNCHANGED <<left, shelf, pick, held, hands, misses, reboots>>
  OBVIOUS
<1>2. MarketPart'
  BY <1>1 DEF MarketPart
<1>3. RecordPart'
  BY <1>1 DEF RecordPart
<1>4. ScanPart'
  <2>1. CASE SelectPreset
    <3>1. pick = Idle
      BY <2>1 DEF ScanPart, Open, Bare
    <3> QED BY <1>1, <3>1 DEF ScanPart, Idle
  <2>2. CASE BookMoves \/ ResultArrives
    BY <1>1, <2>2 DEF ScanPart
  <2> QED BY <2>1, <2>2
<1>5. HandPart'
  BY <1>1 DEF HandPart, TrueReason, Open
<1> QED BY <1>2, <1>3, <1>4, <1>5

LEMMA RebootKeeps ==
  ASSUME CandleAssumption, CandleInv, Reboot
  PROVE  CandleInv'
<1> USE DEF CandleInv, Reboot
<1>1. MarketPart'
  BY ScaleFacts DEF MarketPart, ExpiredLooks
<1>2. RecordPart'
  BY DEF RecordPart, Shelves, NoBooks
<1>3. ScanPart' /\ HandPart'
  BY DEF ScanPart, HandPart, Idle, Open
<1> QED BY <1>1, <1>2, <1>3

-----------------------------------------------------------------------------
(* Entry.                                                                  *)

\* What the steps of a scan leave alone.
ScanOnly == UNCHANGED <<left, book, over, preset, held, hands, misses, reboots>>

LEMMA ScanOnlyKeeps ==
  ASSUME CandleInv, ScanOnly, shelf' \in Shelves,
         pick' \in {Idle} \cup Scans \cup Candidates, ScanPart'
  PROVE  CandleInv'
BY DEF CandleInv, ScanOnly, MarketPart, RecordPart, HandPart, TrueReason, Open

LEMMA StartScanKeeps ==
  ASSUME CandleAssumption, CandleInv, StartScan
  PROVE  CandleInv'
<1> USE DEF CandleInv
<1>1. ScanOnly /\ shelf' = shelf
  BY DEF StartScan, ScanOnly, exitVars
<1>2. pick' = [at |-> "books", now |-> left, read |-> NoBooks] /\ held = Bare
  BY DEF StartScan
<1>3. pick' \in Scans
  BY <1>2 DEF Scans, Shelves, NoBooks, MarketPart
<1>4. ScanPart'
  BY <1>1, <1>2, ScaleFacts DEF StartScan, InWindow, ScanPart, ScanOnly, NoBooks, MarketPart
<1> QED BY <1>1, <1>3, <1>4, ScanOnlyKeeps DEF RecordPart

\* A book from the cache is at most CacheTtl old, a new one is of this moment.
LEMMA ReadBookKeeps ==
  ASSUME CandleAssumption, CandleInv, NEW t \in Tokens, ReadBook(t)
  PROVE  CandleInv'
<1> USE DEF CandleInv
<1> DEFINE got == IF Kept(t, left) THEN shelf[t]
                  ELSE [at |-> "book", leg |-> book[t], read |-> left]
<1>1. ScanOnly /\ pick.at = "books"
  BY DEF ReadBook, ScanOnly, exitVars
<1>2. pick' = [pick EXCEPT !.read[t] = got] /\ shelf' = [shelf EXCEPT ![t] = got]
  BY DEF ReadBook
<1>3. pick \in Scans
  BY <1>1 DEF RecordPart, Candidates, Idle
<1>4. got \in BookReads /\ got.read - left <= CacheTtl
  <2>1. CASE Kept(t, left)
    BY <2>1 DEF Kept, RecordPart, Shelves, Bare
  <2>2. CASE ~Kept(t, left)
    <3>1. book[t] \in [ask : Prices, wide : BOOLEAN]
      BY QuoteFacts DEF MarketPart
    <3> QED BY <2>2, <3>1, ScaleFacts DEF BookReads, MarketPart
  <2> QED BY <2>1, <2>2
<1> HIDE DEF got
<1>5. shelf' \in Shelves
  BY <1>2, <1>4 DEF RecordPart, Shelves
<1>6. /\ pick'.at = "books" /\ pick'.now = pick.now
      /\ pick'.read = [pick.read EXCEPT ![t] = got] /\ pick.read \in Shelves
      /\ pick.now \in 0 .. Duration
  BY <1>2, <1>3 DEF Scans
<1>7. pick' \in Scans
  BY <1>2, <1>3, <1>4 DEF Scans, Shelves
<1>8. left <= pick.now /\ pick.now - left <= ScanTime /\ preset.floor <= pick.now /\ held = Bare
  BY <1>1 DEF ScanPart, Idle
<1>9. \A u \in Tokens : pick'.read[u] # Bare => pick'.read[u].read - pick'.now <= CacheTtl
  <2> SUFFICES ASSUME NEW u \in Tokens, pick'.read[u] # Bare
               PROVE  pick'.read[u].read - pick'.now <= CacheTtl
    OBVIOUS
  <2>1. CASE u = t
    <3>1. pick'.read[u] = got /\ got.read \in 0 .. Duration
      BY <1>4, <1>6, <2>1 DEF Shelves, BookReads
    <3> QED BY <1>4, <1>6, <1>8, <3>1, ScaleFacts DEF MarketPart
  <2>2. CASE u # t
    BY <1>1, <1>6, <2>2 DEF ScanPart, Shelves
  <2> QED BY <2>1, <2>2
<1>10. ScanPart'
  BY <1>1, <1>6, <1>8, <1>9 DEF ScanPart, ScanOnly, Idle
<1> QED BY <1>1, <1>5, <1>7, <1>10, ScanOnlyKeeps

LEMMA DropKeeps ==
  ASSUME CandleAssumption, CandleInv, BookFails \/ Refuse
  PROVE  CandleInv'
<1>1. ScanOnly /\ shelf' = shelf /\ pick' = Idle
  BY DEF BookFails, Refuse, ScanOnly, exitVars
<1>2. ScanPart'
  BY <1>1 DEF ScanPart, Idle
<1> QED BY <1>1, <1>2, ScanOnlyKeeps DEF CandleInv, RecordPart

\* One of the two tokens is the one the preset enters.
LEMMA EnteredToken ==
  ASSUME preset.underdog \in BOOLEAN
  PROVE  Entered \in Tokens
<1>1. Favoured \in Tokens
  BY DEF Favoured, Tokens
<1>2. \E t \in Tokens : (t = Favoured) = ~preset.underdog
  <2>1. CASE preset.underdog = TRUE
    <3>1. PICK t \in Tokens : t # Favoured
      BY DEF Tokens
    <3> QED BY <2>1, <3>1
  <2>2. CASE preset.underdog = FALSE
    BY <1>1, <2>2
  <2> QED BY <2>1, <2>2
<1> QED BY <1>2 DEF Entered

\* The candidate takes the clock of its scan and the age of its book along.
LEMMA EvaluateKeeps ==
  ASSUME CandleAssumption, CandleInv, EvaluateMarket
  PROVE  CandleInv'
<1> USE DEF CandleInv
<1>1. ScanOnly /\ shelf' = shelf /\ pick.at = "books" /\ \A t \in Tokens : pick.read[t] # Bare
  BY DEF EvaluateMarket, ScanOnly, exitVars
<1>2. pick \in Scans
  BY <1>1 DEF RecordPart, Candidates, Idle
<1>3. Entered \in Tokens
  BY EnteredToken, PresetFacts DEF MarketPart
<1>4. /\ pick.read[Entered] \in BookReads
      /\ AskOf(Entered) \in Prices /\ AskOf("yes") \in Prices /\ AskOf("no") \in Prices
  BY <1>1, <1>2, <1>3 DEF Scans, Shelves, BookReads, AskOf, Tokens
<1>5. /\ left <= pick.now /\ pick.now - left <= ScanTime /\ preset.floor <= pick.now
      /\ held = Bare /\ pick.read[Entered].read - pick.now <= CacheTtl
  BY <1>1, <1>3 DEF ScanPart, Idle
<1>6. CASE ~Attractive
  <2>1. pick' = Idle
    BY <1>6 DEF EvaluateMarket
  <2>2. ScanPart'
    BY <2>1 DEF ScanPart, Idle
  <2> QED BY <1>1, <2>1, <2>2, ScanOnlyKeeps DEF RecordPart
<1>7. CASE Attractive
  <2>1. pick' = [at |-> "fill", side |-> Entered, price |-> AskOf(Entered), cost |-> Cost,
                 stamp |-> left, now |-> pick.now, read |-> pick.read[Entered].read]
    BY <1>7 DEF EvaluateMarket
  <2>2. AskOf(Entered) \in 1 .. Top - 1 /\ Cost \in Nat
    BY <1>3, <1>4, <1>7, ScaleFacts DEF Attractive, Cost, Prices
  <2>3. pick' \in Candidates
    BY <1>2, <1>3, <1>4, <2>1, <2>2 DEF Candidates, Scans, BookReads, MarketPart
  <2>4. ScanPart'
    BY <1>1, <1>5, <2>1, ScaleFacts DEF ScanPart, ScanOnly, Idle, MarketPart
  <2> QED BY <1>1, <2>3, <2>4, ScanOnlyKeeps DEF RecordPart
<1> QED BY <1>6, <1>7

LEMMA FillKeeps ==
  ASSUME CandleAssumption, CandleInv, FillPick
  PROVE  CandleInv'
<1> USE DEF CandleInv
<1>1. PICK target \in Targets :
        held' = [at |-> "open", side |-> pick.side, entry |-> pick.price,
                 tp |-> target[1], sl |-> target[2]]
  BY DEF FillPick
<1>2. /\ pick' = Idle /\ shelf' = NoBooks /\ held = Bare /\ pick.at = "fill"
      /\ UNCHANGED <<left, book, over, preset, hands, misses, reboots>>
  BY DEF FillPick, exitVars
<1>3. pick \in Candidates
  BY <1>2 DEF RecordPart, Scans, Idle
<1>4. held' \in OpenRows
  BY <1>1, <1>3, ScaleFacts DEF OpenRows, Candidates
<1>5. MarketPart'
  BY <1>2 DEF MarketPart
<1>6. RecordPart'
  BY <1>2, <1>4 DEF RecordPart, Shelves, NoBooks
<1>7. ScanPart'
  BY <1>2 DEF ScanPart, Idle
<1>8. HandPart'
  BY <1>2, <1>4 DEF HandPart, OpenRows, Bare, Idle, Open
<1> QED BY <1>5, <1>6, <1>7, <1>8

-----------------------------------------------------------------------------
(* Exit.                                                                   *)

\* What the steps of a watcher before its write leave alone.
HandsOnly == UNCHANGED <<left, book, over, preset, shelf, pick, held, reboots>>

LEMMA HandsOnlyKeeps ==
  ASSUME CandleInv, HandsOnly, misses' \in 0 .. ExpiredLooks, NEW w \in Loops,
         NEW to \in {Idle} \cup Listings \cup Decisions, hands' = [hands EXCEPT ![w] = to],
         held # Bare,
         Open /\ to.at = "close" => TrueReason(to.why, to.mark)
  PROVE  CandleInv'
<1>1. MarketPart' /\ ScanPart'
  BY DEF CandleInv, HandsOnly, MarketPart, ScanPart
<1>2. RecordPart'
  BY DEF CandleInv, HandsOnly, RecordPart
<1>3. HandPart'
  BY DEF CandleInv, HandsOnly, HandPart, RecordPart, TrueReason, Open
<1> QED BY <1>1, <1>2, <1>3 DEF CandleInv

\* A watcher at work has a position in hand.
LEMMA HandHeld ==
  ASSUME CandleInv, NEW w \in Loops, hands[w] # Idle
  PROVE  held \in OpenRows \cup ClosedRows /\ held # Bare
BY DEF CandleInv, HandPart, RecordPart

LEMMA ListHeldKeeps ==
  ASSUME CandleAssumption, CandleInv, NEW w \in Loops, ListHeld(w)
  PROVE  CandleInv'
<1> DEFINE to == [at |-> "listed", force |-> preset.force]
<1>1. HandsOnly /\ misses' = misses /\ hands' = [hands EXCEPT ![w] = to]
  BY DEF ListHeld, HandsOnly, entryVars
<1>2. to \in Listings /\ to.at # "close"
  BY DEF Listings, Forces, CandleInv, MarketPart
<1>3. held # Bare
  BY DEF ListHeld, Open, Bare
<1>4. misses' \in 0 .. ExpiredLooks
  BY <1>1 DEF CandleInv, MarketPart
<1> QED BY <1>1, <1>2, <1>3, <1>4, HandsOnlyKeeps

\* On the "yes" side a target is met only by a price that went that way.
LEMMA TargetIsReal ==
  ASSUME CandleAssumption, held \in OpenRows \cup ClosedRows, held.side = "yes",
         NEW mark \in Prices
  PROVE  /\ TakesProfit(mark) => mark > held.entry
         /\ StopsLoss(mark) => mark < held.entry
<1> DEFINE e == held.entry
<1>1. e \in Nat \ {0} /\ held.tp \in Nat /\ held.sl \in Nat /\ mark \in Nat
  BY ScaleFacts DEF OpenRows, ClosedRows, Prices
<1>2. Gain(mark) = 100 * (mark - e) /\ Basis = e
  BY DEF Gain, Basis
<1>3. ASSUME TakesProfit(mark)
      PROVE  mark > e
  <2>1. held.tp * e > 0 /\ 100 * (mark - e) >= held.tp * e
    BY <1>1, <1>2, <1>3 DEF TakesProfit
  <2> QED BY <1>1, <2>1
<1>4. ASSUME StopsLoss(mark)
      PROVE  mark < e
  <2>1. held.sl * e > 0 /\ 100 * (mark - e) <= -held.sl * e
    BY <1>1, <1>2, <1>4 DEF StopsLoss
  <2>2. -held.sl * e < 0
    BY <1>1, <2>1
  <2> QED BY <1>1, <2>1, <2>2
<1> QED BY <1>3, <1>4

\* What the watcher decides on a price is true of it.
LEMMA VerdictIsTrue ==
  ASSUME CandleAssumption, CandleInv, held \in OpenRows \cup ClosedRows,
         NEW mark \in Prices, NEW force \in Forces
  PROVE  /\ Verdict(force, mark) \in Reasons \cup {"hold"}
         /\ TrueReason(Verdict(force, mark), mark)
<1>1. CASE TakesProfit(mark)
  <2>1. Verdict(force, mark) \in {"resolution_win", "tp_hit"}
    BY <1>1 DEF Verdict
  <2>2. held.side = "yes" => mark > held.entry
    BY <1>1, TargetIsReal
  <2> QED BY <2>1, <2>2 DEF Reasons, TrueReason
<1>2. CASE ~TakesProfit(mark) /\ StopsLoss(mark)
  <2>1. Verdict(force, mark) \in {"resolution_loss", "sl_hit"}
    BY <1>2 DEF Verdict
  <2>2. held.side = "yes" => mark < held.entry
    BY <1>2, TargetIsReal
  <2> QED BY <2>1, <2>2 DEF Reasons, TrueReason
<1>3. CASE ~TakesProfit(mark) /\ ~StopsLoss(mark) /\ StrategyExits(force, mark)
  <2>1. Verdict(force, mark) = "strategy_exit"
    BY <1>3 DEF Verdict
  <2>2. (\E p \in Presets : left <= p.force) \/ mark <= FlipStop
    BY <1>3 DEF StrategyExits, Forces
  <2> QED BY <2>1, <2>2 DEF Reasons, TrueReason
<1>4. CASE ~TakesProfit(mark) /\ ~StopsLoss(mark) /\ ~StrategyExits(force, mark)
  <2>1. Verdict(force, mark) = "hold"
    BY <1>4 DEF Verdict
  <2> QED BY <2>1 DEF TrueReason
<1> QED BY <1>1, <1>2, <1>3, <1>4

LEMMA WatchKeeps ==
  ASSUME CandleAssumption, CandleInv, NEW w \in Loops, Watch(w)
  PROVE  CandleInv'
<1> DEFINE mark == book[held.side].ask
           why  == Verdict(hands[w].force, mark)
           to   == IF why = "hold" THEN Idle ELSE ToClose(why, mark)
<1>1. HandsOnly /\ misses' = 0 /\ hands' = [hands EXCEPT ![w] = to] /\ hands[w].at = "listed"
  BY DEF Watch, LiveMark, HandsOnly, entryVars
<1>2. held \in OpenRows \cup ClosedRows /\ held # Bare
  BY <1>1, HandHeld DEF Idle
<1>3. hands[w].force \in Forces
  BY <1>1 DEF CandleInv, RecordPart, Listings, Decisions, Idle
<1>4. mark \in Prices
  BY <1>2, QuoteFacts DEF CandleInv, MarketPart, OpenRows, ClosedRows
<1>5. why \in Reasons \cup {"hold"} /\ TrueReason(why, mark)
  BY <1>2, <1>3, <1>4, VerdictIsTrue
<1> HIDE DEF mark, why
<1>6. to \in {Idle} \cup Decisions /\ (to.at = "close" => TrueReason(to.why, to.mark))
  BY <1>4, <1>5 DEF ToClose, Decisions, Idle
<1> HIDE DEF to
<1>7. misses' \in 0 .. ExpiredLooks
  BY <1>1 DEF ExpiredLooks
<1> QED BY <1>1, <1>2, <1>6, <1>7, HandsOnlyKeeps

\* Without a price a watcher decides only once the candle is over.
LEMMA WatchBlindKeeps ==
  ASSUME CandleAssumption, CandleInv, NEW w \in Loops, WatchBlind(w)
  PROVE  CandleInv'
<1> DEFINE n  == misses + 1
           to == IF Expired(n) THEN ToClose("market_expired", held.entry) ELSE Idle
<1>1. /\ HandsOnly /\ hands' = [hands EXCEPT ![w] = to] /\ hands[w].at = "listed"
      /\ misses' = IF n < ExpiredLooks THEN n ELSE ExpiredLooks
  BY DEF WatchBlind, HandsOnly, entryVars
<1>2. held \in OpenRows \cup ClosedRows /\ held # Bare
  BY <1>1, HandHeld DEF Idle
<1>3. held.entry \in Prices
  BY <1>2, ScaleFacts DEF OpenRows, ClosedRows, Prices
<1>4. Expired(n) => left = 0
  BY DEF Expired, CandleInv, MarketPart
<1>5. to \in {Idle} \cup Decisions
  BY <1>3 DEF ToClose, Decisions, Reasons
<1>6. to.at = "close" => TrueReason(to.why, to.mark)
  BY <1>4 DEF ToClose, TrueReason, Idle
<1>7. misses' \in 0 .. ExpiredLooks
  BY <1>1 DEF CandleInv, MarketPart, ExpiredLooks
<1> HIDE DEF to
<1> QED BY <1>1, <1>2, <1>5, <1>6, <1>7, HandsOnlyKeeps

LEMMA WatchResolvedKeeps ==
  ASSUME CandleAssumption, CandleInv, WatchResolved
  PROVE  CandleInv'
<1> DEFINE to == ToClose("market_expired", held.entry)
<1>1. HandsOnly /\ misses' = misses /\ hands' = [hands EXCEPT !["main"] = to]
  BY DEF WatchResolved, HandsOnly, entryVars
<1>2. held \in OpenRows
  BY DEF WatchResolved, Open, CandleInv, RecordPart, ClosedRows, Bare
<1>3. to \in Decisions
  BY <1>2, ScaleFacts DEF ToClose, Decisions, Reasons, OpenRows, Prices
<1>4. TrueReason(to.why, to.mark)
  BY DEF WatchResolved, ToClose, TrueReason, CandleInv, MarketPart
<1>5. held # Bare /\ "main" \in Loops /\ misses' \in 0 .. ExpiredLooks
  BY <1>1, <1>2 DEF OpenRows, Bare, Loops, CandleInv, MarketPart
<1> HIDE DEF to
<1> QED BY <1>1, <1>3, <1>4, <1>5, HandsOnlyKeeps

LEMMA CloseHeldKeeps ==
  ASSUME CandleAssumption, CandleInv, NEW w \in Loops, CloseHeld(w)
  PROVE  CandleInv'
<1>1. /\ hands' = [hands EXCEPT ![w] = Idle] /\ hands[w].at = "close"
      /\ UNCHANGED <<left, book, over, preset, shelf, pick, reboots>>
      /\ misses' \in {misses, 0}
  BY DEF CloseHeld, entryVars
<1>2. hands[w] \in Decisions
  BY <1>1 DEF CandleInv, RecordPart, Listings, Idle
<1>3. CASE ~Open
  <2>1. HandsOnly /\ misses' = misses
    BY <1>1, <1>3 DEF CloseHeld, Writes, HandsOnly
  <2>2. held # Bare /\ Idle.at # "close" /\ misses' \in 0 .. ExpiredLooks
    BY <1>1, <2>1, HandHeld DEF Idle, CandleInv, MarketPart
  <2> QED BY <1>1, <2>1, <2>2, HandsOnlyKeeps
<1>4. CASE Open
  <2>1. held \in OpenRows
    BY <1>4 DEF Open, CandleInv, RecordPart, ClosedRows, Bare
  <2>2. held' = [at |-> "closed", side |-> held.side, entry |-> held.entry, tp |-> held.tp,
                 sl |-> held.sl, why |-> hands[w].why, exit |-> hands[w].mark]
    BY <1>4 DEF CloseHeld, Writes
  <2>3. held' \in ClosedRows
    BY <1>2, <2>1, <2>2 DEF ClosedRows, OpenRows, Decisions
  <2>4. MarketPart'
    BY <1>1 DEF CandleInv, MarketPart, ExpiredLooks
  <2>5. RecordPart'
    BY <1>1, <2>3 DEF CandleInv, RecordPart
  <2>6. ScanPart'
    <3>1. pick = Idle
      BY <2>1 DEF CandleInv, ScanPart, OpenRows, Bare
    <3> QED BY <1>1, <3>1 DEF ScanPart, Idle
  <2>7. HandPart'
    BY <2>3 DEF HandPart, Open, ClosedRows, Bare
  <2> QED BY <2>4, <2>5, <2>6, <2>7 DEF CandleInv
<1> QED BY <1>3, <1>4

LEMMA CandleStepKeeps ==
  ASSUME CandleAssumption, CandleInv, [CandleNext]_candleVars
  PROVE  CandleInv'
<1>1. CASE CandleNext
  BY <1>1, TickDownKeeps, MarketKeeps, RebootKeeps, StartScanKeeps, ReadBookKeeps, DropKeeps,
     EvaluateKeeps, FillKeeps, ListHeldKeeps, WatchKeeps, WatchBlindKeeps, CloseHeldKeeps,
     WatchResolvedKeeps DEF CandleNext
<1>2. CASE UNCHANGED candleVars
  BY <1>2 DEF candleVars, CandleInv, MarketPart, RecordPart, ScanPart, HandPart, TrueReason,
     Open
<1> QED BY <1>1, <1>2

-----------------------------------------------------------------------------
(* What a step may do to the position.                                     *)

\* Only a fill opens it, only a watcher closes it.
LEMMA WhoMoves ==
  ASSUME [CandleNext]_candleVars, held' # held
  PROVE  FillPick \/ \E w \in Loops : CloseHeld(w)
BY DEF CandleNext, candleVars, entryVars, exitVars, TickDown, BookMoves, ResultArrives,
   SelectPreset, Reboot, StartScan, ReadBook, BookFails, EvaluateMarket, Refuse, ListHeld,
   Watch, WatchBlind, WatchResolved

\* The record types of a candle's state.
THEOREM CandleTyped ==
  ASSUME CandleAssumption
  PROVE  CandleSpec => []CandleTypeOK
<1>1. CandleInit => CandleInv
  BY CandleInitHolds
<1>2. CandleInv /\ [CandleNext]_candleVars => CandleInv'
  BY CandleStepKeeps
<1>3. CandleInv => CandleTypeOK
  BY DEF CandleInv, MarketPart, RecordPart, CandleTypeOK, Shelves, Scans, Candidates, Idle,
     OpenRows, ClosedRows, Bare
<1> QED BY <1>1, <1>2, <1>3, PTL DEF CandleSpec

\* late_entry_v3.scan, get_book and gate 3b-0 of _process_candidate: for every preset,
\* cache lifetime and duration of a scan, a fill follows the clock and the book it
\* rests on within a bound.  The gate on the age of a candidate is on (0 turns it off).
THEOREM EntryIsBounded ==
  ASSUME CandleAssumption, TobStale # 0
  PROVE  CandleSpec => EntryBounded
<1>1. CandleInit => CandleInv
  BY CandleInitHolds
<1>2. CandleInv /\ [CandleNext]_candleVars => CandleInv'
  BY CandleStepKeeps
<1> DEFINE Bound ==
      held = Bare /\ held' # Bare =>
        /\ pick.now - left <= ScanTime + TobStale
        /\ pick.read - left <= CacheTtl + ScanTime + TobStale
        /\ left + ScanTime + TobStale >= preset.floor
<1>3. CandleInv /\ [CandleNext]_candleVars => [Bound]_candleVars
  <2> SUFFICES ASSUME CandleInv, [CandleNext]_candleVars, held = Bare, held' # Bare
               PROVE  /\ pick.now - left <= ScanTime + TobStale
                      /\ pick.read - left <= CacheTtl + ScanTime + TobStale
                      /\ left + ScanTime + TobStale >= preset.floor
    OBVIOUS
  <2>1. FillPick
    BY WhoMoves DEF CloseHeld, Writes, Open, Bare
  <2>2. pick.at = "fill" /\ pick.stamp - left <= TobStale
    BY <2>1 DEF FillPick, FreshEnough
  <2>3. /\ pick.stamp \in Int /\ pick.now \in Int /\ pick.read \in Int
    BY <2>2 DEF CandleInv, RecordPart, Candidates, Scans, Idle
  <2>4. /\ pick.now - pick.stamp <= ScanTime /\ pick.read - pick.now <= CacheTtl
        /\ preset.floor <= pick.now
    BY <2>2 DEF CandleInv, ScanPart, Idle
  <2>5. preset.floor \in Int /\ left \in Int
    BY PresetFacts DEF CandleInv, MarketPart
  <2> QED BY <2>2, <2>3, <2>4, <2>5, ScaleFacts
<1> QED BY <1>1, <1>2, <1>3, PTL DEF CandleSpec, EntryBounded

\* exit_watcher.evaluate, _market_actually_expired, paper.close_position: for every
\* price scale, target and preset, a position is closed once and for a true reason.
THEOREM ExitIsHonest ==
  ASSUME CandleAssumption
  PROVE  CandleSpec => ExitHonest
<1>1. CandleInit => CandleInv
  BY CandleInitHolds
<1>2. CandleInv /\ [CandleNext]_candleVars => CandleInv'
  BY CandleStepKeeps
<1> DEFINE Honest ==
     /\ held.at = "closed" => held' = held
     /\ Open /\ held'.at = "closed" =>
          CASE held'.why = "market_expired" -> left = 0
            [] held'.why = "strategy_exit" ->
                 (\E p \in Presets : left <= p.force) \/ held'.exit <= FlipStop
            [] held'.why \in {"tp_hit", "resolution_win"} ->
                 held.side = "yes" => held'.exit > held.entry
            [] held'.why \in {"sl_hit", "resolution_loss"} ->
                 held.side = "yes" => held'.exit < held.entry
<1>3. CandleInv /\ [CandleNext]_candleVars => [Honest]_candleVars
  <2> SUFFICES ASSUME CandleInv, [CandleNext]_candleVars
               PROVE  Honest
    OBVIOUS
  <2>1. held.at = "closed" => held' = held
    BY WhoMoves DEF FillPick, CloseHeld, Writes, Open, Bare
  <2>2. ASSUME Open, held'.at = "closed"
        PROVE  /\ held'.why \in Reasons
               /\ held'.why = "market_expired" => left = 0
               /\ held'.why = "strategy_exit" =>
                    (\E p \in Presets : left <= p.force) \/ held'.exit <= FlipStop
               /\ held'.why \in {"tp_hit", "resolution_win"} =>
                    (held.side = "yes" => held'.exit > held.entry)
               /\ held'.why \in {"sl_hit", "resolution_loss"} =>
                    (held.side = "yes" => held'.exit < held.entry)
    <3>1. PICK w \in Loops : CloseHeld(w)
      BY <2>2, WhoMoves DEF Open, FillPick, Bare
    <3>2. hands[w].at = "close" /\ held'.why = hands[w].why /\ held'.exit = hands[w].mark
      BY <2>2, <3>1 DEF CloseHeld, Writes
    <3>3. hands[w].why \in Reasons
      BY <3>2 DEF CandleInv, RecordPart, Listings, Decisions, Idle
    <3>4. TrueReason(hands[w].why, hands[w].mark)
      BY <2>2, <3>2 DEF CandleInv, HandPart
    <3> QED BY <3>2, <3>3, <3>4 DEF TrueReason
  <2> QED BY <2>1, <2>2 DEF Reasons
<1> QED BY <1>1, <1>2, <1>3, PTL DEF CandleSpec, ExitHonest

-----------------------------------------------------------------------------
(* CopyTrade: the daily cap of a task.                                     *)

One(b) == IF b THEN 1 ELSE 0

\* Job j has found the cap of task t not used up and has not paid its copy; or
\* has paid it and not recorded it.
Pending(j, t)   == pc[j] \in {"user", "gate", "fill"} /\ TaskOf(j) = t
Recording(j, t) == pc[j] = "record" /\ TaskOf(j) = t

Pendings(t)   == One(Pending(Monitor, t)) + One(Pending(Track, t))
Recordings(t) == One(Recording(Monitor, t)) + One(Recording(Track, t))

\* What a fault or a crash may have lost.
Lost == copyFaults + 2 * restarts

\* What a task has paid today is recorded, about to be, or lost; and what the
\* jobs may still pay was let through below the cap.
SpendCounts(t) ==
  /\ copied[t] <= spend[t] + Recordings(t) + Lost
  /\ copied[t] + Pendings(t) <= config.cap + 1 + Lost
  /\ Pendings(t) > 0 => config.cap > 0

\* The types this argument needs; what stands in todo is of no matter to it.
SpendTypes ==
  /\ config \in Configs /\ taskStatus \in [Tasks -> {"none", "active", "paused", "deleted"}]
  /\ tapped \in [Tasks -> {"none", "active", "paused"}]
  /\ spend \in [Tasks -> Nat] /\ copied \in [Tasks -> Nat]
  /\ copyFaults \in Nat /\ restarts \in Nat
  /\ pc = [j \in Jobs |-> pc[j]] /\ todo = [j \in Jobs |-> todo[j]]

\* The inductive invariant.
SpendInv ==
  /\ SpendTypes
  /\ \A t \in Tasks : taskStatus[t] # "deleted" => SpendCounts(t)

LEMMA CapFacts ==
  ASSUME CopyAssumption, SpendTypes
  PROVE  config.cap \in Nat /\ Monitor # Track /\ Monitor \in Jobs /\ Track \in Jobs
<1>1. config.cap \in Nat
  BY DEF CopyAssumption, SpendTypes, Config
<1>2. Monitor # Track
  <2>1. SUFFICES ASSUME Monitor = Track PROVE FALSE
    OBVIOUS
  <2>2. Jobs = {Monitor}
    BY <2>1 DEF Jobs
  <2>3. Cardinality({Monitor}) = 1
    BY FS_Singleton
  <2> QED BY <2>2, <2>3 DEF CopyAssumption
<1> QED BY <1>1, <1>2 DEF Jobs

LEMMA SpendInitHolds ==
  ASSUME CopyAssumption, CopyInit
  PROVE  SpendInv
<1>1. SpendTypes
  BY DEF CopyInit, SpendTypes
<1>2. config.cap \in Nat /\ Monitor \in Jobs /\ Track \in Jobs
  BY <1>1, CapFacts
<1>3. ASSUME NEW t \in Tasks PROVE SpendCounts(t)
  <2>1. Pendings(t) = 0 /\ Recordings(t) = 0
    BY <1>2 DEF CopyInit, Pendings, Recordings, Pending, Recording, One
  <2>2. copied[t] = 0 /\ spend[t] = 0 /\ Lost = 0
    BY DEF CopyInit, Lost
  <2> QED BY <1>2, <2>1, <2>2 DEF SpendCounts
<1> QED BY <1>1, <1>3 DEF SpendInv

\* What job j does to the sums of task t: it pays what it records or loses, it
\* pays what was let through, or it lets through below the cap.
SpendMoves(j, t) ==
  /\ copied'[t] + spend[t] + One(Recording(j, t)) + copyFaults
       <= copied[t] + spend'[t] + One(Recording(j, t)') + copyFaults'
  /\ \/ /\ copied'[t] + One(Pending(j, t)') + copyFaults <= copied[t] + One(Pending(j, t)) + copyFaults'
        /\ Pending(j, t)' => Pending(j, t)
     \/ /\ copied'[t] = copied[t] /\ copyFaults' = copyFaults
        /\ spend[t] < config.cap /\ ~Recording(j, t)

\* The other job stands where it stood.
OthersStand(j) == \A i \in Jobs \ {j} : pc'[i] = pc[i] /\ todo'[i] = todo[i]

LEMMA SpendSum ==
  ASSUME CopyAssumption, SpendTypes, SpendTypes', NEW j \in Jobs, OthersStand(j),
         UNCHANGED <<config, restarts>>, NEW t \in Tasks, SpendCounts(t), SpendMoves(j, t)
  PROVE  SpendCounts(t)'
<1>1. config.cap \in Nat /\ copyFaults \in Nat /\ copyFaults' \in Nat /\ restarts \in Nat
      /\ spend[t] \in Nat /\ spend'[t] \in Nat /\ copied[t] \in Nat /\ copied'[t] \in Nat
  BY CapFacts DEF SpendTypes
<1>2. PICK i \in Jobs : i # j /\ Jobs = {i, j}
  BY CapFacts DEF Jobs
<1>3. /\ Pending(i, t)' = Pending(i, t) /\ Recording(i, t)' = Recording(i, t)
      /\ ~(Pending(i, t) /\ Recording(i, t))
  BY <1>2 DEF OthersStand, Pending, Recording, TaskOf
<1>4. /\ Pendings(t) = One(Pending(i, t)) + One(Pending(j, t))
      /\ Pendings(t)' = One(Pending(i, t)) + One(Pending(j, t)')
      /\ Recordings(t) = One(Recording(i, t)) + One(Recording(j, t))
      /\ Recordings(t)' = One(Recording(i, t)) + One(Recording(j, t)')
  <2>1. (i = Monitor /\ j = Track) \/ (i = Track /\ j = Monitor)
    BY <1>2 DEF Jobs
  <2>2. \A b : One(b) \in {0, 1}
    BY DEF One
  <2> QED BY <1>3, <2>1, <2>2 DEF Pendings, Recordings
<1>5. /\ One(Pending(i, t)) \in {0, 1} /\ One(Pending(j, t)) \in {0, 1} /\ One(Pending(j, t)') \in {0, 1}
      /\ One(Recording(i, t)) \in {0, 1} /\ One(Recording(j, t)) \in {0, 1}
      /\ One(Recording(j, t)') \in {0, 1}
      /\ One(Pending(i, t)) + One(Recording(i, t)) <= 1
  BY <1>3 DEF One
<1>6. copied'[t] <= spend'[t] + Recordings(t)' + Lost'
  BY <1>1, <1>4, <1>5 DEF SpendCounts, SpendMoves, Lost
<1>7. CASE /\ copied'[t] + One(Pending(j, t)') + copyFaults <= copied[t] + One(Pending(j, t)) + copyFaults'
           /\ Pending(j, t)' => Pending(j, t)
  <2>1. copied'[t] + Pendings(t)' <= config.cap + 1 + Lost'
    BY <1>1, <1>4, <1>5, <1>7 DEF SpendCounts, Lost
  <2>2. Pendings(t)' > 0 => config.cap > 0
    <3>1. One(Pending(j, t)') <= One(Pending(j, t))
      BY <1>7 DEF One
    <3> QED BY <1>1, <1>4, <1>5, <3>1 DEF SpendCounts
  <2> QED BY <1>6, <2>1, <2>2 DEF SpendCounts
<1>8. CASE /\ copied'[t] = copied[t] /\ copyFaults' = copyFaults
           /\ spend[t] < config.cap /\ ~Recording(j, t)
  <2>1. One(Recording(j, t)) = 0
    BY <1>8 DEF One
  <2>2. copied'[t] + Pendings(t)' <= config.cap + 1 + Lost'
    BY <1>1, <1>4, <1>5, <1>8, <2>1 DEF SpendCounts, Lost
  <2> QED BY <1>1, <1>6, <1>8, <2>2 DEF SpendCounts
<1> QED BY <1>7, <1>8 DEF SpendMoves

\* Where a job stands after it has given up a trade.
LEMMA EndMoves ==
  ASSUME SpendTypes, NEW j \in Jobs, NEW from, End(j) \/ Advance(j, from) \/ Raise(j, from)
  PROVE  /\ pc' = [i \in Jobs |-> pc'[i]] /\ todo' = [i \in Jobs |-> todo'[i]]
         /\ pc'[j] \in {"idle", "check"} /\ OthersStand(j)
<1>1. PICK to, left1 :
        to \in {"idle", "check"} /\ pc' = [pc EXCEPT ![j] = to] /\ todo' = [todo EXCEPT ![j] = left1]
  BY DEF End, Advance, Raise
<1> QED BY <1>1 DEF SpendTypes, OthersStand

LEMMA GoMoves ==
  ASSUME SpendTypes, NEW j \in Jobs, NEW from, NEW to, Go(j, from, to)
  PROVE  /\ pc' = [i \in Jobs |-> pc'[i]] /\ pc[j] = from /\ pc'[j] = to
         /\ \A i \in Jobs \ {j} : pc'[i] = pc[i]
BY DEF Go, SpendTypes

\* What the two reads of a tick do to the job.
LEMMA ListShape ==
  ASSUME NEW j \in Jobs, List(j)
  PROVE  /\ UNCHANGED world /\ pc[j] = "list"
         /\ \/ End(j)
            \/ Go(j, "list", "fetch") /\ \E x : todo' = [todo EXCEPT ![j] = x]
BY DEF List, Go

LEMMA FetchShape ==
  ASSUME NEW j \in Jobs, Fetch(j)
  PROVE  /\ UNCHANGED world /\ pc[j] = "fetch"
         /\ \/ End(j)
            \/ Go(j, "fetch", "check") /\ \E x : todo' = [todo EXCEPT ![j] = x]
BY Zenon DEF Fetch, Go

LEMMA BumpShape ==
  ASSUME NEW j \in Jobs, Bump(j)
  PROVE  /\ UNCHANGED <<config, taskStatus, tapped, spend, copied, copyFaults, restarts>>
         /\ pc[j] = "check"
         /\ \/ End(j)
            \/ UNCHANGED pc /\ \E x : todo' = [todo EXCEPT ![j] = x]
BY DEF Bump, Untouched, bounds

\* A step that pays, records and lets through nothing.
Unpaid(j) ==
  /\ UNCHANGED <<spend, copied>> /\ copyFaults <= copyFaults'
  /\ pc[j] # "record" /\ pc'[j] # "record"
  /\ pc'[j] \in {"user", "gate", "fill"} =>
       pc[j] \in {"user", "gate", "fill"} /\ todo'[j] = todo[j]

LEMMA UnpaidMoves ==
  ASSUME SpendTypes, SpendTypes', NEW j \in Jobs, Unpaid(j), NEW t \in Tasks
  PROVE  SpendMoves(j, t)
<1>1. copyFaults \in Nat /\ copyFaults' \in Nat /\ spend[t] \in Nat /\ copied[t] \in Nat
  BY DEF SpendTypes
<1>2. One(Recording(j, t)) = 0 /\ One(Recording(j, t)') = 0
  BY DEF Unpaid, Recording, One
<1>3. Pending(j, t)' => Pending(j, t)
  BY DEF Unpaid, Pending, TaskOf
<1>4. One(Pending(j, t)') <= One(Pending(j, t)) /\ One(Pending(j, t)') \in {0, 1} /\ One(Pending(j, t)) \in {0, 1}
  BY <1>3 DEF One
<1> QED BY <1>1, <1>2, <1>3, <1>4 DEF SpendMoves, Unpaid

\* The frame of a step of one job.
Framed(j) ==
  /\ UNCHANGED <<config, taskStatus, tapped, restarts>>
  /\ copyFaults' \in Nat /\ copyFaults <= copyFaults'
  /\ pc' = [i \in Jobs |-> pc'[i]] /\ todo' = [i \in Jobs |-> todo'[i]]
  /\ OthersStand(j)

LEMMA FramedSteps ==
  ASSUME SpendTypes, NEW j \in Jobs, JobStep(j)
  PROVE  Framed(j)
<1>0. copyFaults \in Nat /\ todo = [i \in Jobs |-> todo[i]]
  BY DEF SpendTypes
<1> USE <1>0 DEF Framed, world, taskVars, orderVars, feedVars, switches, bounds, CopyFault, Untouched,
              OthersStand
<1>1. CASE Start(j) \/ StartBlind(j)
  BY <1>1, GoMoves DEF Start, StartBlind
<1>2. CASE List(j) \/ Fetch(j)
  <2>1. UNCHANGED world
    BY <1>2, ListShape, FetchShape
  <2>2. CASE End(j)
    BY <2>1, <2>2, EndMoves
  <2>3. ASSUME NEW from, NEW to, NEW x, Go(j, from, to), todo' = [todo EXCEPT ![j] = x]
        PROVE  Framed(j)
    BY <2>1, <2>3, GoMoves
  <2> QED BY <1>2, <2>2, <2>3, ListShape, FetchShape
<1>4. CASE FetchFails(j)
  BY <1>4, EndMoves DEF FetchFails
<1>5. CASE Bump(j)
  <2>1. CASE End(j)
    BY <1>5, <2>1, EndMoves, BumpShape
  <2>2. ASSUME NEW x, UNCHANGED pc, todo' = [todo EXCEPT ![j] = x] PROVE Framed(j)
    BY <1>5, <2>2, BumpShape DEF SpendTypes
  <2> QED BY <1>5, <2>1, <2>2, BumpShape
<1>6. CASE Check(j) \/ CheckSpend(j) \/ LoadUser(j) \/ GateApproves(j) \/ GateRefuses(j)
  BY <1>6, GoMoves, EndMoves DEF Check, CheckSpend, LoadUser, GateApproves, GateRefuses, Refused
<1>7. CASE ReadFails(j) \/ EngineFails(j) \/ WriteFails(j)
  BY <1>7, EndMoves DEF ReadFails, EngineFails, WriteFails
<1>8. CASE Fill(j)
  BY <1>8, GoMoves DEF Fill
<1>9. CASE Record(j) \/ Mark(j)
  BY <1>9, GoMoves, EndMoves DEF Record, Mark
<1> QED BY <1>1, <1>2, <1>4, <1>5, <1>6, <1>7, <1>8, <1>9 DEF JobStep, Process

\* Every step of a job but the check of the cap, the payment and its record.
LEMMA UnpaidSteps ==
  ASSUME SpendTypes, NEW j \in Jobs, JobStep(j), ~Fill(j), ~Record(j),
         ~(WriteFails(j) /\ pc[j] = "record"),
         ~(CheckSpend(j) /\ Go(j, "spend", "user") /\ UNCHANGED todo)
  PROVE  Unpaid(j)
<1>0. copyFaults <= copyFaults'
  BY FramedSteps DEF Framed
<1> USE <1>0 DEF Unpaid, world, taskVars, orderVars, feedVars, switches, bounds, Untouched
<1>1. CASE Start(j) \/ StartBlind(j)
  BY <1>1, GoMoves DEF Start, StartBlind
<1>2. CASE List(j) \/ Fetch(j)
  <2>1. UNCHANGED world /\ pc[j] \in {"list", "fetch"}
    BY <1>2, ListShape, FetchShape
  <2>2. pc'[j] \in {"idle", "check", "fetch"}
    BY <1>2, EndMoves, GoMoves, ListShape, FetchShape
  <2> QED BY <2>1, <2>2
<1>4. CASE FetchFails(j)
  BY <1>4, EndMoves DEF FetchFails
<1>5. CASE Bump(j)
  <2>1. pc'[j] \in {"idle", "check"}
    BY <1>5, EndMoves, BumpShape
  <2> QED BY <1>5, <2>1, BumpShape
<1>6. CASE Check(j) \/ CheckSpend(j)
  <2>1. UNCHANGED world /\ pc[j] \in {"check", "spend"}
    BY <1>6 DEF Check, CheckSpend
  <2>2. pc'[j] \in {"idle", "check", "spend"}
    <3>1. CASE Check(j)
      BY <3>1, EndMoves, GoMoves DEF Check
    <3>2. CASE CheckSpend(j)
      BY <3>2, EndMoves DEF CheckSpend
    <3> QED BY <1>6, <3>1, <3>2
  <2> QED BY <2>1, <2>2
<1>3. CASE LoadUser(j) \/ GateApproves(j) \/ GateRefuses(j)
  BY <1>3, GoMoves DEF LoadUser, GateApproves, GateRefuses, Refused
<1>7. CASE ReadFails(j) \/ EngineFails(j) \/ WriteFails(j)
  BY <1>7, EndMoves DEF ReadFails, EngineFails, WriteFails, Advance
<1>8. CASE Mark(j)
  BY <1>8, EndMoves DEF Mark
<1> QED BY <1>1, <1>2, <1>3, <1>4, <1>5, <1>6, <1>7, <1>8 DEF JobStep, Process

\* Every step of a job leaves counts of what was spent and copied.
LEMMA SpendTypesKept ==
  ASSUME CopyAssumption, SpendTypes, NEW j \in Jobs, JobStep(j)
  PROVE  spend' \in [Tasks -> Nat] /\ copied' \in [Tasks -> Nat]
<1>1. copyFaults' \in Nat
  BY FramedSteps DEF Framed
<1>2. CASE UNCHANGED <<spend, copied>>
  BY <1>2 DEF SpendTypes
<1>3. CASE Fill(j)
  BY <1>3 DEF Fill, SpendTypes
<1>4. CASE Record(j)
  BY <1>4 DEF Record, SpendTypes
<1>5. CASE CheckSpend(j) \/ WriteFails(j)
  BY <1>2, <1>5 DEF CheckSpend, WriteFails, world, taskVars
<1> QED BY <1>2, <1>3, <1>4, <1>5, UnpaidSteps DEF Unpaid

\* The check of the cap, the payment, its record and the loss of its record.
LEMMA PaidMoves ==
  ASSUME CopyAssumption, SpendTypes, NEW j \in Jobs, NEW t \in Tasks,
         copyFaults' \in Nat, spend' \in [Tasks -> Nat], copied' \in [Tasks -> Nat],
         taskStatus[t] # "deleted",
         \/ Fill(j) \/ Record(j) \/ (WriteFails(j) /\ pc[j] = "record")
         \/ (CheckSpend(j) /\ Go(j, "spend", "user") /\ UNCHANGED todo)
  PROVE  SpendMoves(j, t)
<1> DEFINE mine == TaskOf(j) = t
<1>1. /\ copyFaults \in Nat /\ spend[t] \in Nat /\ copied[t] \in Nat /\ One(mine) \in {0, 1}
      /\ spend \in [Tasks -> Nat] /\ copied \in [Tasks -> Nat] /\ config.cap \in Nat
  BY CapFacts DEF SpendTypes, One
<1>2. CASE Fill(j)
  <2>1. /\ pc[j] = "fill" /\ UNCHANGED <<todo, spend, copyFaults>>
        /\ \/ copied' = copied /\ pc'[j] = "mark"
           \/ copied' = [copied EXCEPT ![TaskOf(j)] = @ + 1] /\ pc'[j] = "record"
    BY <1>2, GoMoves DEF Fill, bounds
  <2>2. One(Recording(j, t)) = 0 /\ One(Pending(j, t)') = 0 /\ One(Pending(j, t)) = One(mine)
    BY <2>1 DEF Recording, Pending, One
  <2>3. CASE copied' = copied /\ pc'[j] = "mark"
    <3>1. One(Recording(j, t)') = 0 /\ ~Pending(j, t)'
      BY <2>3 DEF Recording, Pending, One
    <3> HIDE DEF mine
    <3> QED BY <1>1, <2>1, <2>2, <2>3, <3>1 DEF SpendMoves
  <2>4. CASE copied' = [copied EXCEPT ![TaskOf(j)] = @ + 1] /\ pc'[j] = "record"
    <3>1. One(Recording(j, t)') = One(mine) /\ ~Pending(j, t)'
      BY <2>1, <2>4 DEF Recording, Pending, One, TaskOf
    <3>2. copied'[t] = copied[t] + One(mine)
      <4>1. CASE TaskOf(j) = t
        BY <1>1, <2>4, <4>1 DEF One
      <4>2. CASE TaskOf(j) # t
        BY <1>1, <2>4, <4>2 DEF One
      <4> QED BY <4>1, <4>2
    <3> HIDE DEF mine
    <3> QED BY <1>1, <2>1, <2>2, <3>1, <3>2 DEF SpendMoves
  <2> QED BY <2>1, <2>3, <2>4
<1>3. CASE Record(j)
  <2>1. CASE taskStatus[TaskOf(j)] = "deleted"
    <3>1. pc[j] = "record" /\ pc'[j] \in {"idle", "check"} /\ UNCHANGED <<spend, copied, copyFaults>>
      BY <1>3, <2>1, EndMoves DEF Record, bounds
    <3>2. ~Recording(j, t) /\ ~Recording(j, t)' /\ ~Pending(j, t)' /\ ~Pending(j, t)
      BY <2>1, <3>1 DEF Recording, Pending
    <3> QED BY <1>1, <3>1, <3>2 DEF SpendMoves, One
  <2>2. CASE taskStatus[TaskOf(j)] # "deleted"
    <3>1. /\ pc[j] = "record" /\ pc'[j] = "mark" /\ UNCHANGED <<todo, copied, copyFaults>>
          /\ spend' = [spend EXCEPT ![TaskOf(j)] = @ + 1]
      BY <1>3, <2>2, GoMoves DEF Record, bounds
    <3>2. /\ One(Recording(j, t)) = One(mine) /\ One(Recording(j, t)') = 0
          /\ ~Pending(j, t) /\ ~Pending(j, t)' /\ One(Pending(j, t)) = 0 /\ One(Pending(j, t)') = 0
      BY <3>1 DEF Recording, Pending, One
    <3>3. spend'[t] = spend[t] + One(mine)
      <4>1. CASE TaskOf(j) = t
        BY <1>1, <3>1, <4>1 DEF One
      <4>2. CASE TaskOf(j) # t
        BY <1>1, <3>1, <4>2 DEF One
      <4> QED BY <4>1, <4>2
    <3> HIDE DEF mine
    <3> QED BY <1>1, <3>1, <3>2, <3>3 DEF SpendMoves
  <2> QED BY <2>1, <2>2
<1>4. CASE WriteFails(j) /\ pc[j] = "record"
  <2>1. pc'[j] \in {"idle", "check"} /\ UNCHANGED <<spend, copied>> /\ copyFaults' = copyFaults + 1
    BY <1>4, EndMoves DEF WriteFails, CopyFault, taskVars
  <2>2. /\ One(Recording(j, t)') = 0 /\ One(Recording(j, t)) \in {0, 1}
        /\ ~Pending(j, t)' /\ One(Pending(j, t)) = 0 /\ One(Pending(j, t)') = 0
    BY <1>4, <2>1 DEF Recording, Pending, One
  <2> QED BY <1>1, <2>1, <2>2 DEF SpendMoves
<1>5. CASE CheckSpend(j) /\ Go(j, "spend", "user") /\ UNCHANGED todo
  <2>1. pc[j] = "spend" /\ pc'[j] = "user" /\ UNCHANGED <<spend, copied, copyFaults>>
    BY <1>5, GoMoves DEF CheckSpend, world, taskVars, bounds
  <2>2. ~(SpentToday(TaskOf(j)) >= config.cap)
    <3>1. SUFFICES ASSUME SpentToday(TaskOf(j)) >= config.cap PROVE FALSE
      OBVIOUS
    <3>2. pc'[j] \in {"idle", "check"}
      BY <1>5, <3>1, EndMoves DEF CheckSpend
    <3> QED BY <2>1, <3>2
  <2>3. One(Recording(j, t)) = 0 /\ One(Recording(j, t)') = 0 /\ ~Recording(j, t)
    BY <2>1 DEF Recording, One
  <2>4. CASE TaskOf(j) = t
    <3>1. spend[t] < config.cap
      BY <1>1, <2>2, <2>4 DEF SpentToday
    <3> QED BY <1>1, <2>1, <2>3, <3>1 DEF SpendMoves
  <2>5. CASE TaskOf(j) # t
    <3>1. ~Pending(j, t) /\ ~Pending(j, t)' /\ One(Pending(j, t)) = 0 /\ One(Pending(j, t)') = 0
      BY <1>5, <2>5 DEF Pending, One, TaskOf
    <3> QED BY <1>1, <2>1, <2>3, <3>1 DEF SpendMoves
  <2> QED BY <2>4, <2>5
<1> QED BY <1>2, <1>3, <1>4, <1>5

LEMMA JobSpends ==
  ASSUME CopyAssumption, SpendInv, NEW j \in Jobs, JobStep(j)
  PROVE  SpendInv'
<1>1. Framed(j)
  BY FramedSteps DEF SpendInv
<1>2. SpendTypes'
  BY <1>1, SpendTypesKept DEF SpendInv, SpendTypes, Framed
<1>3. ASSUME NEW t \in Tasks, taskStatus'[t] # "deleted" PROVE SpendCounts(t)'
  <2>1. taskStatus[t] # "deleted" /\ SpendCounts(t)
    BY <1>1, <1>3 DEF SpendInv, Framed
  <2>2. copyFaults' \in Nat /\ spend' \in [Tasks -> Nat] /\ copied' \in [Tasks -> Nat]
    BY <1>2 DEF SpendTypes
  <2>3. SpendMoves(j, t)
    BY <1>2, <2>1, <2>2, PaidMoves, UnpaidSteps, UnpaidMoves DEF SpendInv
  <2> QED BY <1>1, <1>2, <2>1, <2>3, SpendSum DEF SpendInv, Framed
<1> QED BY <1>2, <1>3 DEF SpendInv

\* The user, the operator, the leader and the clock touch no sum; a task that is
\* deleted stays so.
LEMMA OutsideSpends ==
  ASSUME CopyAssumption, SpendInv, Environment
  PROVE  SpendInv'
<1>0. \A t \in Tasks : Recordings(t) \in Nat /\ Pendings(t) \in {0, 1, 2}
  BY DEF Recordings, Pendings, One
<1>1. config.cap \in Nat /\ copyFaults \in Nat /\ restarts \in Nat
  BY CapFacts DEF SpendInv, SpendTypes
<1>2. ASSUME UNCHANGED <<config, pc, todo, copied, copyFaults, restarts>>, spend' \in [Tasks -> Nat],
             taskStatus' \in [Tasks -> {"none", "active", "paused", "deleted"}],
             tapped' \in [Tasks -> {"none", "active", "paused"}],
             \A t \in Tasks : taskStatus'[t] # "deleted" => taskStatus[t] # "deleted" /\ spend'[t] = spend[t]
      PROVE  SpendInv'
  <2>1. SpendTypes'
    BY <1>2 DEF SpendInv, SpendTypes
  <2>2. ASSUME NEW t \in Tasks, taskStatus'[t] # "deleted" PROVE SpendCounts(t)'
    BY <1>2, <2>2 DEF SpendInv, SpendCounts, Pendings, Recordings, Pending, Recording, TaskOf, Lost
  <2> QED BY <2>1, <2>2 DEF SpendInv
<1>3. ASSUME UNCHANGED <<config, taskStatus, tapped, spend, copied, pc, todo, copyFaults, restarts>>
      PROVE  SpendInv'
  BY <1>2, <1>3 DEF SpendInv, SpendTypes
<1> USE DEF Jobless, Console, taskVars, switches, bounds
<1>4. CASE LeaderTrades \/ (\E n \in Trades : Buffer(n) \/ TradeAge(n)) \/ (\E k \in Keys : AgeKey(k))
  BY <1>3, <1>4 DEF LeaderTrades, Buffer, TradeAge, AgeKey
<1>5. CASE UserSwitch \/ AdminSwitch \/ KillSwitch
  BY <1>3, <1>5 DEF UserSwitch, AdminSwitch, KillSwitch
<1>6. ASSUME NEW t \in Tasks, Create(t) \/ Tap(t) \/ Tapped(t) \/ PatchMode(t) \/ Delete(t)
                         \/ (\E s \in {"active", "paused"} : Patch(t, s))
      PROVE  SpendInv'
  <2>1. CASE Create(t)
    BY <1>2, <1>6, <2>1 DEF Create, SpendInv, SpendTypes
  <2>2. CASE Tap(t)
    BY <1>2, <1>6, <2>2 DEF Tap, SpendInv, SpendTypes
  <2>3. CASE Tapped(t)
    BY <1>2, <1>6, <2>3 DEF Tapped, SpendInv, SpendTypes
  <2>4. CASE PatchMode(t)
    BY <1>3, <1>6, <2>4 DEF PatchMode
  <2>5. CASE Delete(t)
    BY <1>2, <1>6, <2>5 DEF Delete, SpendInv, SpendTypes
  <2>6. ASSUME NEW s \in {"active", "paused"}, Patch(t, s) PROVE SpendInv'
    BY <1>2, <1>6, <2>6 DEF Patch, SpendInv, SpendTypes
  <2> QED BY <1>6, <2>1, <2>2, <2>3, <2>4, <2>5, <2>6
<1>7. CASE Midnight
  <2>1. /\ \A t \in Tasks : spend'[t] = 0 /\ copied'[t] = 0
        /\ UNCHANGED <<config, taskStatus, tapped, pc, todo, copyFaults, restarts>>
    BY <1>7 DEF Midnight
  <2>2. SpendTypes'
    BY <1>7, <2>1 DEF Midnight, SpendInv, SpendTypes
  <2>3. ASSUME NEW t \in Tasks, taskStatus'[t] # "deleted" PROVE SpendCounts(t)'
    <3>1. Pendings(t)' = Pendings(t) /\ Recordings(t)' = Recordings(t) /\ Lost' = Lost /\ Lost \in Nat
      BY <1>1, <2>1 DEF Pendings, Recordings, Pending, Recording, TaskOf, Lost
    <3>2. Pendings(t) > 0 => config.cap > 0
      BY <2>1, <2>3 DEF SpendInv, SpendCounts
    <3> QED BY <1>0, <1>1, <2>1, <3>1, <3>2 DEF SpendCounts
  <2> QED BY <2>2, <2>3 DEF SpendInv
<1>8. CASE Restart
  <2>1. /\ UNCHANGED <<config, taskStatus, spend, copied, copyFaults>> /\ restarts' = restarts + 1
        /\ \A j \in Jobs : pc'[j] = "idle"
    BY <1>8 DEF Restart
  <2>2. SpendTypes'
    BY <1>8, <2>1 DEF Restart, SpendInv, SpendTypes
  <2>3. ASSUME NEW t \in Tasks, taskStatus'[t] # "deleted" PROVE SpendCounts(t)'
    <3>1. Monitor \in Jobs /\ Track \in Jobs
      BY DEF Jobs
    <3>2. Pendings(t)' = 0 /\ Recordings(t)' = 0 /\ Lost' = Lost + 2 /\ Lost \in Nat
      BY <1>1, <2>1, <3>1 DEF Pendings, Recordings, Pending, Recording, Lost, One
    <3>3. SpendCounts(t) /\ spend[t] \in Nat /\ copied[t] \in Nat
      BY <2>1, <2>3 DEF SpendInv, SpendTypes
    <3>4. Recordings(t) \in {0, 1, 2}
      BY DEF Recordings, One
    <3> QED BY <1>0, <1>1, <2>1, <3>2, <3>3, <3>4 DEF SpendCounts
  <2> QED BY <2>2, <2>3 DEF SpendInv
<1> QED BY <1>4, <1>5, <1>6, <1>7, <1>8 DEF Environment

LEMMA SpendStep ==
  ASSUME CopyAssumption, SpendInv, [CopyNext]_copyVars
  PROVE  SpendInv'
<1>1. CASE UNCHANGED copyVars
  BY <1>1 DEF copyVars, world, taskVars, bounds, SpendInv, SpendTypes, SpendCounts, Pendings, Recordings,
              Pending, Recording, TaskOf, Lost
<1> QED BY <1>1, JobSpends, OutsideSpends DEF CopyNext

\* The cap of a day is passed by one copy more than the cap at most, and by what
\* a write that failed or a crash lost: for every set of tasks, every cap and
\* every order in which the two jobs meet the trades.
THEOREM CapOfTheDay ==
  ASSUME CopyAssumption
  PROVE  CopySpec => []SpendCap
<1>1. CopyInit => SpendInv
  BY SpendInitHolds
<1>2. SpendInv /\ [CopyNext]_copyVars => SpendInv'
  BY SpendStep
<1>3. SpendInv => SpendCap
  <2> SUFFICES ASSUME SpendInv, NEW t \in Tasks, taskStatus[t] # "deleted"
               PROVE  copied[t] <= config.cap + 1 + copyFaults + 2 * restarts
    BY DEF SpendCap
  <2>1. SpendCounts(t) /\ copied[t] \in Nat /\ copyFaults \in Nat /\ restarts \in Nat /\ config.cap \in Nat
    BY CapFacts DEF SpendInv, SpendTypes
  <2>2. Pendings(t) \in {0, 1, 2}
    BY DEF Pendings, One
  <2> QED BY <2>1, <2>2 DEF SpendCounts, Lost
<1> QED BY <1>1, <1>2, <1>3, PTL DEF CopySpec
=============================================================================
