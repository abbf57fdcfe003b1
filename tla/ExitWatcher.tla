----------------------------- MODULE ExitWatcher -----------------------------
(***************************************************************************)
(* The tasks that close positions before resolution: the exit watcher's    *)
(* 30-second job, the candle job that runs the same pass on a scoped       *)
(* query, and the close requests of the web terminal and of Telegram.      *)
(*                                                                         *)
(* A closer works on a row it read earlier; between that read and its next *)
(* statement every other task may run.  Prices are not modelled: what a    *)
(* price makes the watcher decide (hold or exit) is a choice.              *)
(***************************************************************************)
EXTENDS PositionBook

CONSTANTS
  Watchers,      \* the scheduler jobs that run the exit watcher's pass
  MainWatcher,   \* exit_watch; the other one is close_sweep_exit_fast
  Manuals,       \* close requests that may be in flight together
  Candle,        \* positions whose owner runs a candle preset
  Forceable,     \* positions whose owner may press force-close
  ExpiredTicks,  \* _EXPIRED_TICK_THRESHOLD
  NoPosition     \* the position of an idle closer

Closers == Watchers \union Manuals

ASSUME WatcherAssumption ==
  /\ MainWatcher \in Watchers
  /\ Watchers \intersect Manuals = {}
  /\ Candle \subseteq Positions
  /\ Forceable \subseteq Positions
  /\ NoPosition \notin Positions
  /\ ExpiredTicks \in Nat \ {0}

VARIABLES
  force,      \* positions.force_close_intent
  batch,      \* batch[w] : rows of the watcher's snapshot still to process,
              \*            with the force_close_intent that was read
  at,         \* at[c]  : where closer c stands
  on,         \* on[c]  : the position it works on
  failCount,  \* _price_fail_counts, shared by the two watchers
  sold        \* sold[p] : SELL orders of p the broker accepted

closerVars == <<force, batch, at, on, failCount, sold>>

\* idle    between ticks (between requests for a manual closer)
\* scan    Phase A, about to fetch the price of a row of the batch
\* check   price missing on enough ticks; about to read the markets row
\* expire  about to run close_as_expired
\* hold    about to run update_current_price
\* close   about to call router.close
\* sell    live row claimed, SELL about to be submitted
\* finish  SELL accepted, about to close the row
\* reopen  SELL raised, about to roll the claim back
\* sweep   Phase B
Places == {"idle", "scan", "check", "expire", "hold", "close",
           "sell", "finish", "reopen", "sweep"}

\* A closer in one of these places holds the claim of its row.
Claimed(c) == at[c] \in {"sell", "finish", "reopen"}

CloserTypeOK ==
  /\ force \in [Positions -> BOOLEAN]
  /\ batch \in [Watchers -> SUBSET (Positions \X BOOLEAN)]
  /\ at \in [Closers -> Places]
  /\ on \in [Closers -> Positions \union {NoPosition}]
  /\ failCount \in [Positions -> 0 .. ExpiredTicks]
  /\ sold \in [Positions -> Nat]

CloserInit ==
  /\ force = [p \in Positions |-> FALSE]
  /\ batch = [w \in Watchers |-> {}]
  /\ at = [c \in Closers |-> "idle"]
  /\ on = [c \in Closers |-> NoPosition]
  /\ failCount = [p \in Positions |-> 0]
  /\ sold = [p \in Positions |-> 0]

Goto(c, place, p) ==
  /\ at' = [at EXCEPT ![c] = place]
  /\ on' = [on EXCEPT ![c] = p]

\* Done with a row: a watcher takes the next one, a manual closer answers.
NextRow(c) == Goto(c, IF c \in Watchers THEN "scan" ELSE "idle", NoPosition)

Take(w, row) == batch' = [batch EXCEPT ![w] = @ \ {row}]

-----------------------------------------------------------------------------
(* The watcher's pass over its snapshot.                                   *)

\* mark_force_close_intent_for_position / _for_user.
ForceClose(p) ==
  /\ p \in Forceable
  /\ status[p] = "open" /\ ~force[p]
  /\ force' = [force EXCEPT ![p] = TRUE]
  /\ UNCHANGED <<bookVars, batch, at, on, failCount, sold, faults>>

\* Mutant of Load: the query forgets the force_close_intent column.
Load_NoIntent(w) ==
  /\ at[w] = "idle"
  /\ batch' = [batch EXCEPT ![w] = {<<p, FALSE>> : p \in
                  {q \in Positions : /\ status[q] = "open" /\ ~resolved
                                     /\ w # MainWatcher => q \in Candle}}]
  /\ Goto(w, "scan", NoPosition)
  /\ UNCHANGED <<bookVars, force, failCount, sold, faults>>

\* list_open_for_exit, or list_open_candle_positions_for_exit.
Load(w) ==
  /\ at[w] = "idle"
  /\ LET rows == {p \in Positions : /\ status[p] = "open"
                                    /\ ~resolved
                                    /\ w # MainWatcher => p \in Candle}
     IN batch' = [batch EXCEPT ![w] = {<<p, force[p]>> : p \in rows}]
  /\ Goto(w, "scan", NoPosition)
  /\ UNCHANGED <<bookVars, force, failCount, sold, faults>>

\* Both fetches returned None: count the tick, and look at the market when the
\* count has reached the threshold.
PriceMissing(w, row) ==
  LET p == row[1] IN
  /\ at[w] = "scan" /\ row \in batch[w] /\ ~row[2]
  /\ Take(w, row)
  /\ IF failCount[p] + 1 >= ExpiredTicks
     THEN failCount' = [failCount EXCEPT ![p] = ExpiredTicks] /\ Goto(w, "check", p)
     ELSE failCount' = [failCount EXCEPT ![p] = @ + 1] /\ UNCHANGED <<at, on>>
  /\ UNCHANGED <<bookVars, force, sold, faults>>

\* _market_actually_expired.
CheckExpired(w) ==
  /\ at[w] = "check"
  /\ IF resolved \/ due
     THEN Goto(w, "expire", on[w]) /\ UNCHANGED failCount
     ELSE NextRow(w) /\ failCount' = [failCount EXCEPT ![on[w]] = ExpiredTicks]
  /\ UNCHANGED <<bookVars, force, batch, sold, faults>>

\* _close_expired_position: the counter is dropped only if the row was closed.
Expire(w) ==
  /\ at[w] = "expire"
  /\ ExpireRow(on[w])
  /\ failCount' = [failCount EXCEPT ![on[w]] = IF status[on[w]] = "open" THEN 0 ELSE @]
  /\ NextRow(w)
  /\ UNCHANGED <<marketVars, force, batch, sold, faults>>

\* A price arrived: the counter is dropped, and evaluate holds or exits.
Priced(w, row) ==
  /\ at[w] = "scan" /\ row \in batch[w] /\ ~row[2]
  /\ Take(w, row)
  /\ failCount' = [failCount EXCEPT ![row[1]] = 0]
  /\ \E decision \in {"hold", "close"} : Goto(w, decision, row[1])
  /\ UNCHANGED <<bookVars, force, sold, faults>>

\* force_close_intent skips the price and always exits.
Forced(w, row) ==
  /\ at[w] = "scan" /\ row \in batch[w] /\ row[2]
  /\ Take(w, row)
  /\ Goto(w, "close", row[1])
  /\ UNCHANGED <<bookVars, force, failCount, sold, faults>>

\* _act_on_decision, hold branch.
Hold(w) ==
  /\ at[w] = "hold"
  /\ MarkRow(on[w])
  /\ NextRow(w)
  /\ UNCHANGED <<marketVars, force, batch, failCount, sold, faults>>

\* Phase A is over: the main watcher loads the losing and the undecided rows of
\* resolved markets, the candle job stops.
EndScan(w) ==
  /\ at[w] = "scan" /\ batch[w] = {}
  /\ IF w = MainWatcher
     THEN /\ Goto(w, "sweep", NoPosition)
          /\ batch' = [batch EXCEPT ![w] =
                         {<<p, force[p]>> : p \in
                            {q \in Positions : /\ status[q] = "open" /\ resolved
                                               /\ ~decided \/ q \notin Winners}}]
     ELSE Goto(w, "idle", NoPosition) /\ UNCHANGED batch
  /\ UNCHANGED <<bookVars, force, failCount, sold, faults>>

SweepExpire(w, row) ==
  /\ at[w] = "sweep" /\ row \in batch[w]
  /\ Take(w, row)
  /\ ExpireRow(row[1])
  /\ UNCHANGED <<marketVars, force, at, on, failCount, sold, faults>>

EndSweep(w) ==
  /\ at[w] = "sweep" /\ batch[w] = {}
  /\ Goto(w, "idle", NoPosition)
  /\ UNCHANGED <<bookVars, force, batch, failCount, sold, faults>>

-----------------------------------------------------------------------------
(* Closing one row.                                                        *)

\* A user asks to close a position: the handler reads the row as open.
ManualClose(m, p) ==
  /\ at[m] = "idle"
  /\ status[p] = "open"
  /\ Goto(m, "close", p)
  /\ UNCHANGED <<bookVars, force, batch, failCount, sold, faults>>

\* router.close on a paper row.
ClosePaper(c) ==
  /\ at[c] = "close" /\ on[c] \notin Live
  /\ PaperCloseRow(on[c])
  /\ NextRow(c)
  /\ UNCHANGED <<marketVars, force, batch, failCount, sold, faults>>

\* Mutant of ClaimLive: the row is read as open and claimed without a guard.
ClaimLive_Unguarded(c) ==
  /\ at[c] = "close" /\ on[c] \in Live
  /\ status' = [status EXCEPT ![on[c]] = "closing"]
  /\ Goto(c, "sell", on[c])
  /\ UNCHANGED <<redeemed, pnl, ledger, marketVars, force, batch, failCount, sold, faults>>

\* router.close on a live row: claim it, or find it taken and stop.
ClaimLive(c) ==
  /\ at[c] = "close" /\ on[c] \in Live
  /\ IF status[on[c]] = "open"
     THEN ClaimRow(on[c]) /\ Goto(c, "sell", on[c])
     ELSE UNCHANGED rowVars /\ NextRow(c)
  /\ UNCHANGED <<marketVars, force, batch, failCount, sold, faults>>

SellAccepted(c) ==
  /\ at[c] = "sell"
  /\ sold' = [sold EXCEPT ![on[c]] = @ + 1]
  /\ Goto(c, "finish", on[c])
  /\ UNCHANGED <<bookVars, force, batch, failCount, faults>>

\* post_order raised; the broker may have accepted the order all the same.
SellRaised(c) ==
  /\ at[c] = "sell"
  /\ Fault
  /\ \E n \in {0, 1} : sold' = [sold EXCEPT ![on[c]] = @ + n]
  /\ Goto(c, "reopen", on[c])
  /\ UNCHANGED <<bookVars, force, batch, failCount>>

FinishLive(c) ==
  /\ at[c] = "finish"
  /\ FinishRow(on[c])
  /\ NextRow(c)
  /\ UNCHANGED <<marketVars, force, batch, failCount, sold, faults>>

ReopenLive(c) ==
  /\ at[c] = "reopen"
  /\ ReopenRow(on[c])
  /\ NextRow(c)
  /\ UNCHANGED <<marketVars, force, batch, failCount, sold, faults>>

\* The statement after the SELL fails: the row stays 'closing'.
StatementLost(c) ==
  /\ at[c] \in {"finish", "reopen"}
  /\ Fault
  /\ NextRow(c)
  /\ UNCHANGED <<bookVars, force, batch, failCount, sold>>

-----------------------------------------------------------------------------
CloseStep(c) ==
  \/ ClosePaper(c)
  \/ ClaimLive(c)
  \/ SellAccepted(c)
  \/ SellRaised(c)
  \/ FinishLive(c)
  \/ ReopenLive(c)
  \/ StatementLost(c)

WatcherStep(w) ==
  \/ Load(w)
  \/ \E row \in batch[w] : \/ PriceMissing(w, row)
                           \/ Priced(w, row)
                           \/ Forced(w, row)
                           \/ SweepExpire(w, row)
  \/ CheckExpired(w)
  \/ Expire(w)
  \/ Hold(w)
  \/ EndScan(w)
  \/ EndSweep(w)
  \/ CloseStep(w)

ManualStep(m) == (\E p \in Positions : ManualClose(m, p)) \/ CloseStep(m)

CloserStep ==
  \/ \E w \in Watchers : WatcherStep(w)
  \/ \E m \in Manuals : ManualStep(m)
  \/ \E p \in Positions : ForceClose(p)

\* The process dies: every task is gone, and with it the watchers' memory.
CloserCrash ==
  /\ batch' = [w \in Watchers |-> {}]
  /\ at' = [c \in Closers |-> "idle"]
  /\ on' = [c \in Closers |-> NoPosition]
  /\ failCount' = [p \in Positions |-> 0]
  /\ UNCHANGED <<force, sold>>
=============================================================================
