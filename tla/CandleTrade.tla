---------------------------- MODULE CandleTrade -----------------------------
(***************************************************************************)
(* One user's position on one candle market, from the scan that finds it   *)
(* to its exit.  A scan of late_entry_v3 reads the clock, then the order   *)
(* books of both tokens (cached by integrations/polymarket.py), picks a    *)
(* side and a price; services/signal_scan checks that pick and the paper   *)
(* engine fills it.  Two exit watchers of domain/execution, the one of     *)
(* every position and the fast one of candles near their end, then read    *)
(* the token's price and close by take-profit, stop-loss, the preset's     *)
(* fixed time, the flip stop, or because the market is gone.               *)
(*                                                                         *)
(* Prices are ticks of 1/Top, time is what remains of the candle.  Forced  *)
(* closes, claims and the redemption of a resolved market are Settlement's.*)
(***************************************************************************)
EXTENDS Integers

CONSTANTS
  Top,        \* ticks in a dollar
  Duration,   \* time units of the candle
  Presets,    \* parameter records of the presets a user may select
  Targets,    \* pairs <<tp, sl>> of percentages, 0 for none
  Quotes,     \* books the exchange may show, one leg [ask, wide] per token
  CacheTtl,   \* units get_book keeps a book
  TobStale,   \* units of TOB_STALE_MS
  MaxCost,    \* ticks of MAX_SPREAD
  MinEdge,    \* ticks of MIN_COMPLETE_SET_EDGE
  Eps,        \* ticks of _RESOLUTION_PRICE_EPS
  FlipStop,   \* ticks of LATE_ENTRY_FLIP_STOP
  Near,       \* units of CLOSE_SWEEP_EXIT_NEAR_SEC
  ScanTime,   \* bound: units from a scan's reading of the clock to its pick
  MaxReboots  \* bound: restarts of the process

Tokens   == {"yes", "no"}
Loops    == {"main", "fast"}
ExpiredLooks == 3  \* _EXPIRED_TICK_THRESHOLD
Never    == -1     \* no fixed-time exit

ASSUME CandleAssumption ==
  /\ Top \in Nat \ {0} /\ Duration \in Nat /\ CacheTtl \in Nat /\ TobStale \in Nat
  /\ ScanTime \in Nat /\ MaxReboots \in Nat /\ Near \in Nat /\ MinEdge \in Nat
  /\ MaxCost \in Nat /\ Eps \in Nat /\ FlipStop \in Nat /\ Targets \subseteq Nat \X Nat
  /\ Presets \subseteq [window : Nat, floor : Nat, lo : Nat, hi : Nat, lean : Nat,
                        narrow : BOOLEAN, underdog : BOOLEAN, force : Nat \cup {Never}]
  /\ Quotes \subseteq [Tokens -> [ask : 0 .. Top - 1, wide : BOOLEAN]]

VARIABLES
  left,    \* what remains of the candle
  book,    \* what the exchange shows; an ask of 0 is an empty leg
  over,    \* markets.resolved and winning_side: "undecided", or the token that won
  preset,  \* the parameters of the user's active preset
  shelf,   \* shelf[t] : the cached book of a token and when it was read
  pick,    \* the scan: its clock, the books it has read, then its candidate
  held,    \* the position
  hands,   \* hands[w] : the exit watcher w has decided and not yet written
  misses,  \* _price_fail_counts of the position
  reboots  \* restarts so far

candleVars == <<left, book, over, preset, shelf, pick, held, hands, misses, reboots>>
entryVars  == <<shelf, pick>>
exitVars   == <<hands, misses>>

Bare    == [at |-> "none"]
Idle    == [at |-> "idle"]
NoBooks == [t \in Tokens |-> Bare]
Open    == held.at = "open"
Ended   == held.at = "closed"  \* bound: exchange, clock and user stop at the close

CandleTypeOK ==
  /\ left \in 0 .. Duration /\ book \in Quotes /\ over \in Tokens \cup {"undecided"}
  /\ preset \in Presets /\ misses \in 0 .. ExpiredLooks /\ reboots \in 0 .. MaxReboots
  /\ DOMAIN shelf = Tokens /\ DOMAIN hands = Loops
  /\ pick.at \in {"idle", "books", "fill"} /\ held.at \in {"none", "open", "closed"}

CandleInit ==
  /\ left = Duration /\ book \in Quotes /\ over = "undecided" /\ preset \in Presets
  /\ shelf = NoBooks /\ pick = Idle /\ held = Bare /\ hands = [w \in Loops |-> Idle]
  /\ misses = 0 /\ reboots = 0

-----------------------------------------------------------------------------
(* The exchange, the clock and the user.                                   *)

\* A cached book is dropped once it is older than its time to live.
Kept(t, now) == shelf[t].at = "book" /\ shelf[t].read - now <= CacheTtl

\* A scan takes at most ScanTime up to its pick: its requests have timeouts.
TickDown ==
  /\ left > 0 /\ ~Ended /\ (pick.at = "books" => pick.now - left < ScanTime)
  /\ left' = left - 1
  /\ shelf' = [t \in Tokens |-> IF Kept(t, left') THEN shelf[t] ELSE Bare]
  /\ UNCHANGED <<book, over, preset, pick, held, exitVars, reboots>>

BookMoves ==
  /\ ~Ended /\ book' \in Quotes
  /\ UNCHANGED <<left, over, preset, entryVars, held, exitVars, reboots>>

\* The result arrives some time after the end (market sync).
ResultArrives ==
  /\ left = 0 /\ ~Ended /\ over = "undecided" /\ over' \in Tokens
  /\ UNCHANGED <<left, book, preset, entryVars, held, exitVars, reboots>>

\* The watchers read active_preset from the settings, not from the position.
SelectPreset ==
  /\ Open /\ preset' \in Presets
  /\ UNCHANGED <<left, book, over, entryVars, held, exitVars, reboots>>

\* A restart forgets the scan, the watchers' passes, the counts and, without
\* Redis, the cache.
Reboot ==
  /\ reboots < MaxReboots /\ ~Ended /\ reboots' = reboots + 1
  /\ pick' = Idle /\ hands' = [w \in Loops |-> Idle] /\ misses' = 0
  /\ shelf' \in {shelf, NoBooks}
  /\ UNCHANGED <<left, book, over, preset, held>>

-----------------------------------------------------------------------------
(* Entry.                                                                  *)

\* One reading of the clock serves every market of the scan.  The candle must
\* be inside the preset's window and not past its floor.
InWindow(now) == now > 0 /\ preset.floor <= now /\ now <= preset.window

StartScan ==
  /\ pick = Idle /\ held = Bare /\ InWindow(left)
  /\ pick' = [at |-> "books", now |-> left, read |-> NoBooks]
  /\ UNCHANGED <<left, book, over, preset, shelf, held, exitVars, reboots>>

\* The two books are asked for together and may come from different moments.
ReadBook(t) ==
  /\ pick.at = "books" /\ pick.read[t] = Bare
  /\ LET got == IF Kept(t, left) THEN shelf[t]
                ELSE [at |-> "book", leg |-> book[t], read |-> left]
     IN pick' = [pick EXCEPT !.read[t] = got] /\ shelf' = [shelf EXCEPT ![t] = got]
  /\ UNCHANGED <<left, book, over, preset, held, exitVars, reboots>>

\* A failed request is an empty book, which ends the scan of this market.
BookFails ==
  /\ pick.at = "books" /\ pick' = Idle
  /\ UNCHANGED <<left, book, over, preset, shelf, held, exitVars, reboots>>

AskOf(t) == pick.read[t].leg.ask
Cost     == AskOf("yes") + AskOf("no")
Favoured == IF AskOf("yes") > AskOf("no") THEN "yes" ELSE "no"
Lean     == IF Favoured = "yes" THEN AskOf("yes") - AskOf("no") ELSE AskOf("no") - AskOf("yes")

\* The underdog preset enters the cheap side.
Entered == CHOOSE t \in Tokens : (t = Favoured) = ~preset.underdog

\* The gates of _evaluate_market: both legs quoted and, for the preset that
\* asks for it, narrow; a lean to one side, a sane total, a price in the band.
Attractive ==
  /\ \A t \in Tokens : AskOf(t) > 0 /\ (preset.narrow => ~pick.read[t].leg.wide)
  /\ Lean >= preset.lean /\ Cost <= MaxCost
  /\ preset.lo <= AskOf(Entered) /\ AskOf(Entered) < preset.hi

\* The candidate is stamped now, however old its books are.
EvaluateMarket ==
  /\ pick.at = "books" /\ \A t \in Tokens : pick.read[t] # Bare
  /\ pick' = IF Attractive
             THEN [at |-> "fill", side |-> Entered, price |-> AskOf(Entered), cost |-> Cost,
                   stamp |-> left, now |-> pick.now, read |-> pick.read[Entered].read]
             ELSE Idle
  /\ UNCHANGED <<left, book, over, preset, shelf, held, exitVars, reboots>>

\* The gate on the age of the candidate and the one on what the set costs.
\* Mutant of FreshEnough: the age of the candidate is not checked.
FreshEnough_Any == TRUE
FreshEnough == TobStale = 0 \/ pick.stamp - left <= TobStale
EdgeEnough  == MinEdge = 0 \/ Top - pick.cost >= MinEdge

\* _process_candidate and the paper fill, at the candidate's own price.  The
\* cache plays no part after it (bound: one entry).
FillPick ==
  /\ pick.at = "fill" /\ held = Bare /\ FreshEnough /\ EdgeEnough
  /\ \E target \in Targets :
       held' = [at |-> "open", side |-> pick.side, entry |-> pick.price,
                tp |-> target[1], sl |-> target[2]]
  /\ pick' = Idle /\ shelf' = NoBooks
  /\ UNCHANGED <<left, book, over, preset, exitVars, reboots>>

\* A check of this module or one of ScanJobs or TradeEntry refuses it.
Refuse ==
  /\ pick.at = "fill" /\ pick' = Idle
  /\ UNCHANGED <<left, book, over, preset, shelf, held, exitVars, reboots>>

-----------------------------------------------------------------------------
(* Exit.                                                                   *)

\* The return of _return_pct times 100 is Gain / Basis.  For "no" it is that of
\* the other token, although entry and mark are prices of the "no" token.
Gain(mark) == 100 * (IF held.side = "yes" THEN mark - held.entry ELSE held.entry - mark)
Basis      == IF held.side = "yes" THEN held.entry ELSE Top - held.entry

TakesProfit(mark) == held.tp > 0 /\ Gain(mark) >= held.tp * Basis
StopsLoss(mark)   == held.sl > 0 /\ Gain(mark) <= -held.sl * Basis
Extreme(mark)     == mark <= Eps \/ mark >= Top - Eps

\* evaluate_exit of late_entry_v3: the fixed time of the preset listed with the
\* position, then the flip stop.
\* Mutant of StrategyExits: the fixed time has to be met to the second.
StrategyExits_AtTime(force, mark) == (left = force /\ left > 0) \/ mark <= FlipStop
StrategyExits(force, mark) == left <= force \/ mark <= FlipStop

Verdict(force, mark) ==
  CASE TakesProfit(mark) -> IF Extreme(mark) THEN "resolution_win" ELSE "tp_hit"
    [] ~TakesProfit(mark) /\ StopsLoss(mark)
         -> IF Extreme(mark) THEN "resolution_loss" ELSE "sl_hit"
    [] ~TakesProfit(mark) /\ ~StopsLoss(mark) /\ StrategyExits(force, mark) -> "strategy_exit"
    [] OTHER -> "hold"

ToClose(why, mark) == [at |-> "close", why |-> why, mark |-> mark]

\* Both list open positions of unresolved markets; the fast one those of candle
\* presets near the end.
ListHeld(w) ==
  /\ Open /\ over = "undecided" /\ hands[w] = Idle
  /\ w = "fast" => preset.force # Never /\ left <= Near
  /\ hands' = [hands EXCEPT ![w] = [at |-> "listed", force |-> preset.force]]
  /\ UNCHANGED <<left, book, over, preset, entryVars, held, misses, reboots>>

\* get_live_market_price: the price of the side's own token; 0 when its leg is
\* empty, which is no price.
LiveMark == book[held.side].ask

\* The watcher has a price: it decides on it, and the count starts again.
Watch(w) ==
  /\ hands[w].at = "listed" /\ LiveMark > 0 /\ misses' = 0
  /\ LET mark == LiveMark
         why  == Verdict(hands[w].force, mark)
     IN hands' = [hands EXCEPT ![w] = IF why = "hold" THEN Idle ELSE ToClose(why, mark)]
  /\ UNCHANGED <<left, book, over, preset, entryVars, held, reboots>>

\* Mutant of Expired: only the count decides.
Expired_Count(n) == n >= ExpiredLooks

\* No price: an empty book, or the requests failed.  The count goes up; from the
\* third time on the database says whether the market is over.
Expired(n) == n >= ExpiredLooks /\ (left = 0 \/ over # "undecided")

WatchBlind(w) ==
  /\ hands[w].at = "listed"
  /\ LET n == misses + 1
     IN /\ misses' = IF n < ExpiredLooks THEN n ELSE ExpiredLooks
        /\ hands' = [hands EXCEPT ![w] =
                       IF Expired(n) THEN ToClose("market_expired", held.entry) ELSE Idle]
  /\ UNCHANGED <<left, book, over, preset, entryVars, held, reboots>>

\* Phase B of the main watcher: a resolved market on which this side lost.
WatchResolved ==
  /\ Open /\ over # "undecided" /\ over # held.side /\ hands["main"] = Idle
  /\ hands' = [hands EXCEPT !["main"] = ToClose("market_expired", held.entry)]
  /\ UNCHANGED <<left, book, over, preset, entryVars, held, misses, reboots>>

\* The row is written only if it is still open.
Writes(w) == Open

CloseHeld(w) ==
  /\ hands[w].at = "close" /\ hands' = [hands EXCEPT ![w] = Idle]
  /\ held' = IF Writes(w)
             THEN [at |-> "closed", side |-> held.side, entry |-> held.entry, tp |-> held.tp,
                   sl |-> held.sl, why |-> hands[w].why, exit |-> hands[w].mark]
             ELSE held
  /\ misses' = IF Writes(w) /\ hands[w].why = "market_expired" THEN 0 ELSE misses
  /\ UNCHANGED <<left, book, over, preset, entryVars, reboots>>

CandleNext ==
  \/ TickDown \/ BookMoves \/ ResultArrives \/ SelectPreset \/ Reboot
  \/ StartScan \/ (\E t \in Tokens : ReadBook(t)) \/ BookFails \/ EvaluateMarket
  \/ FillPick \/ Refuse
  \/ \E w \in Loops : ListHeld(w) \/ Watch(w) \/ WatchBlind(w) \/ CloseHeld(w)
  \/ WatchResolved

CandleSpec == CandleInit /\ [][CandleNext]_candleVars

-----------------------------------------------------------------------------
(* Properties.                                                             *)

\* A fill is bounded from the scan's reading of the clock and of the book: it
\* comes at most a scan and the age of a candidate after the one, and a cached
\* book longer after the other.  So a preset's floor can be missed by that much
\* and no more (late_entry_v3.scan, get_book, gate 3b-0 of _process_candidate).
EntryBounded ==
  [][held = Bare /\ held' # Bare =>
       /\ pick.now - left <= ScanTime + TobStale
       /\ pick.read - left <= CacheTtl + ScanTime + TobStale
       /\ left + ScanTime + TobStale >= preset.floor]_candleVars

\* A position is closed once, and for a reason that is true: as expired only when
\* the candle is over, by the strategy only at some preset's fixed time or at the
\* flip stop, and on the "yes" side by a target only when the price went that way
\* (exit_watcher.evaluate, _market_actually_expired, paper.close_position).
ExitHonest ==
  [][/\ held.at = "closed" => held' = held
     /\ Open /\ held'.at = "closed" =>
          CASE held'.why = "market_expired" -> left = 0
            [] held'.why = "strategy_exit" ->
                 (\E p \in Presets : left <= p.force) \/ held'.exit <= FlipStop
            [] held'.why \in {"tp_hit", "resolution_win"} ->
                 held.side = "yes" => held'.exit > held.entry
            [] held'.why \in {"sl_hit", "resolution_loss"} ->
                 held.side = "yes" => held'.exit < held.entry]_candleVars

\* A position of a preset with a fixed-time exit does not outlive its candle while
\* the result is out: the price comes and the watcher closes at that time, or it
\* stays away and the third look after the end closes (run_once, evaluate_exit).
CandleEnds ==
  Open ~> held.at = "closed" \/ over # "undecided" \/ preset.force = Never

\* What a position closed at its take-profit target got is not less than it cost:
\* the mark is the "current market price for this position's side"
\* (registry.OpenPositionForExit.current_price, exit_watcher._return_pct).
ProfitIsProfit == held.at = "closed" /\ held.why = "tp_hit" => held.exit >= held.entry
=============================================================================
