------------------------------- MODULE ScanJobs -------------------------------
(***************************************************************************)
(* The two scan jobs of services/signal_scan: run_once, every 180 s, and   *)
(* run_close_sweep_fast, every 15 s, run candidates of late_entry_v3 of    *)
(* one user through the same steps, at the same time: circuit breaker,     *)
(* imbalance override, open-position check, direction limit, risk gate,    *)
(* fill, execution queue, fast top-up.  A step ends at an await, so every  *)
(* value read before it may be stale after it.                             *)
(*                                                                         *)
(* A tick carries at most one candidate: a second one would only be a      *)
(* slower tick.  Every stake is one unit.  The direction window and the    *)
(* top-up's cooldown outlast a run.  The dedup tables of TradeEntry are    *)
(* reduced to the orders, execution_queue (an audit) to its failures.      *)
(***************************************************************************)
EXTENDS Bankroll, FiniteSets

CONSTANTS
  Jobs, Main,    \* the two jobs, and which of them is run_once
  Markets,       \* candle markets
  Configs,       \* settings of the operator and of the user, see Config
  MaxOpen,       \* MAX_OPEN_POSITIONS, or the max_concurrent of the profile
  LiveCap,       \* live_capital_cap_usdc, in stakes
  DirectionLimit, \* SAFE_CLOSE_DIRECTION_LIMIT_PER_HOUR
  Strategies,    \* K.STRATEGY_AVAILABILITY
  MaxFaults, MaxRestarts

Sides == {"yes", "no"}
Keys  == Markets \X Sides

\* breaker: BANKROLL_CIRCUIT_BREAKER_ENABLED; override: SAFE_CLOSE_IMBALANCE_
\* OVERRIDE_ENABLED; topup: FLIP_HUNTER_FAST_TOPUP_ENABLED; safeClose: the
\* preset; live: trading_mode of a user who passes the live guards; keys: what
\* the strategy may propose; moves: what may happen around the jobs, a bound.
Moves  == {"wallet", "close", "age", "switch", "strategy", "restart"}
Config == [breaker : BOOLEAN, override : BOOLEAN, topup : BOOLEAN,
           safeClose : BOOLEAN, live : BOOLEAN, keys : SUBSET Keys, moves : SUBSET Moves]

ASSUME ScanAssumption ==
  /\ Main \in Jobs /\ IsFiniteSet(Jobs) /\ Configs \subseteq Config
  /\ Markets # {} /\ Balances # {}
  /\ MaxOpen \in Nat /\ LiveCap \in Nat /\ DirectionLimit \in Nat \ {0}
  /\ "late_entry_v3" \in Strategies
  /\ MaxFaults \in Nat /\ MaxRestarts \in Nat

VARIABLES
  config,    \* the settings of this run
  pc,        \* pc[j] : where job j stands
  balanceOf, \* balanceOf[j] : balance_usdc in the row its tick loaded
  cand,      \* cand[j] : market and side of its candidate
  lead,      \* lead[j] : a candidate, FALSE for a fast top-up
  aware,     \* aware[j] : the override asks for the side-aware check
  upsert,    \* upsert[j] : what its upsert of bankroll_circuit_state carries
  position,  \* position[k] : "none", "open", "closed" within 24 hours
  ordered,   \* keys with an order of today
  recent,    \* markets with an order within DEDUP_WINDOW_SECONDS
  log,       \* log[s] : _safe_close_direction_log
  cooled,    \* markets with a stamp in _fast_topup_last_at
  balance,   \* wallets.balance_usdc
  on,        \* auto_trade_on, not paused, enrolled
  enabledDb, \* strategies.enabled of late_entry_v3
  enabled,   \* not in _GLOBALLY_DISABLED_STRATEGIES
  leads,     \* leads[s] : candidates filled on side s in this process (history)
  faults, restarts

dictVars   == <<log, cooled, enabled>>
tableVars  == <<position, ordered, recent>>
userVars   == <<balance, on, enabledDb>>
bounds     == <<faults, restarts>>
carried    == <<balanceOf, cand, lead, aware, upsert>>
world      == <<config, bankrollVars, dictVars, tableVars, userVars, leads, bounds>>
vars       == <<pc, carried, world>>

Steps == {"idle", "restore", "refresh", "load", "scan", "breaker", "persist", "persistBlocked",
          "override", "open", "direction", "caps", "dedup", "cap", "fill", "queue", "topup"}

TypeOK ==
  /\ BankrollTypeOK /\ config \in Configs
  /\ pc \in [Jobs -> Steps] /\ balanceOf \in [Jobs -> Balances]
  /\ cand \in [Jobs -> Keys] /\ lead \in [Jobs -> BOOLEAN] /\ aware \in [Jobs -> BOOLEAN]
  /\ position \in [Keys -> {"none", "open", "closed"}] /\ ordered \subseteq Keys
  /\ recent \subseteq Markets /\ upsert \in [Jobs -> [baseline : Balances \union {0}, tripped : BOOLEAN]]
  /\ log \in [Sides -> Nat] /\ cooled \subseteq Markets
  /\ balance \in Balances /\ on \in BOOLEAN /\ enabledDb \in BOOLEAN /\ enabled \in BOOLEAN
  /\ leads \in [Sides -> Nat]
  /\ faults \in 0 .. MaxFaults /\ restarts \in 0 .. MaxRestarts

\* What an idle job carries.
NoBalance == CHOOSE b \in Balances : TRUE
NoKey     == CHOOSE k \in Keys : TRUE
NoRow     == [baseline |-> 0, tripped |-> FALSE]

Init ==
  /\ config \in Configs /\ BankrollInit
  /\ pc = [j \in Jobs |-> "idle"] /\ cand = [j \in Jobs |-> NoKey]
  /\ lead = [j \in Jobs |-> TRUE] /\ aware = [j \in Jobs |-> FALSE]
  /\ upsert = [j \in Jobs |-> NoRow] /\ balanceOf = [j \in Jobs |-> NoBalance]
  /\ balance \in IF config.breaker THEN Balances ELSE {NoBalance}  \* nothing else reads it
  /\ position = [k \in Keys |-> "none"] /\ ordered = {} /\ recent = {}
  /\ log = [s \in Sides |-> 0] /\ cooled = {}
  /\ on = TRUE /\ enabledDb = TRUE /\ enabled = TRUE
  /\ leads = [s \in Sides |-> 0]
  /\ faults = 0 /\ restarts = 0

-----------------------------------------------------------------------------
(* Helpers.                                                                *)

Go(j, from, to) == pc[j] = from /\ pc' = [pc EXCEPT ![j] = to]
Fault           == faults < MaxFaults /\ faults' = faults + 1 /\ UNCHANGED restarts

MarketOf(j) == cand[j][1]
SideOf(j)   == cand[j][2]
OpenKeys    == {k \in Keys : position[k] = "open"}
OpenOn(m, s) == <<m, s>> \in OpenKeys
Strategy(j)  == IF lead[j] THEN "late_entry_v3" ELSE "fast_topup"

\* compute_market_inventory: one leg is held and the other is not.
Imbalanced(m) == OpenOn(m, "yes") # OpenOn(m, "no")
Lagging(m)    == IF OpenOn(m, "yes") THEN "no" ELSE "yes"

\* The rest of a tick drops what it carries.
Stop(j, from) ==
  /\ Go(j, from, "idle")
  /\ balanceOf' = [balanceOf EXCEPT ![j] = NoBalance] /\ cand' = [cand EXCEPT ![j] = NoKey]
  /\ lead' = [lead EXCEPT ![j] = TRUE] /\ aware' = [aware EXCEPT ![j] = FALSE]
  /\ upsert' = [upsert EXCEPT ![j] = NoRow]

-----------------------------------------------------------------------------
(* A tick up to its candidate.                                             *)

StartMain ==
  /\ Go(Main, "idle", IF config.breaker THEN "restore" ELSE "refresh")
  /\ UNCHANGED <<carried, world>>

StartFast(j) ==
  /\ j # Main /\ Go(j, "idle", "refresh")
  /\ UNCHANGED <<carried, world>>

\* Only run_once restores.
Restore ==
  /\ Go(Main, "restore", "refresh")
  /\ RestoreDicts
  /\ UNCHANGED <<carried, config, dictVars, tableVars, userVars, leads, bounds>>

\* Its SELECT fails, and the scan goes on.
RestoreFails ==
  /\ Go(Main, "restore", "refresh") /\ Fault
  /\ UNCHANGED <<carried, config, bankrollVars, dictVars, tableVars, userVars, leads>>

\* _refresh_disabled_strategies: one set for both jobs.  The fast job leaves on
\* a disabled strategy, run_once asks _preset_allows later.
Refresh(j) ==
  /\ pc[j] = "refresh" /\ enabled' = enabledDb
  /\ IF j = Main \/ enabledDb THEN Go(j, "refresh", "load") /\ UNCHANGED carried
     ELSE Stop(j, "refresh")
  /\ UNCHANGED <<config, bankrollVars, log, cooled, tableVars, userVars, leads, bounds>>

\* Its query fails, and the previous set is kept.
RefreshFails(j) ==
  /\ pc[j] = "refresh" /\ Fault
  /\ IF j = Main \/ enabled THEN Go(j, "refresh", "load") /\ UNCHANGED carried
     ELSE Stop(j, "refresh")
  /\ UNCHANGED <<config, bankrollVars, dictVars, tableVars, userVars, leads>>

\* Mutant of Load: the query forgets the switches of the user.
Load_Anyone(j) ==
  /\ Go(j, "load", "scan") /\ balanceOf' = [balanceOf EXCEPT ![j] = balance]
  /\ UNCHANGED <<cand, lead, aware, upsert, world>>

\* _load_enrolled_users.
Load(j) ==
  /\ UNCHANGED world
  /\ IF on THEN /\ Go(j, "load", "scan")
                /\ balanceOf' = [balanceOf EXCEPT ![j] = balance]
                /\ UNCHANGED <<cand, lead, aware, upsert>>
     ELSE Stop(j, "load")

\* late_entry_v3 proposes k, unless run_once finds it disabled by now.
Propose(j, k) ==
  /\ k \in config.keys /\ (j = Main => enabled)
  /\ Go(j, "scan", IF config.breaker THEN "breaker" ELSE "override")
  /\ cand' = [cand EXCEPT ![j] = k]
  /\ UNCHANGED <<balanceOf, lead, aware, upsert, world>>

\* Nothing to propose; or the candidate is dropped for its market, liquidity,
\* price, age or edge, which are data, before the direction limit.
NoCandidate(j) == Stop(j, "scan") /\ UNCHANGED world
Dropped(j)     == Stop(j, "direction") /\ UNCHANGED world

-----------------------------------------------------------------------------
(* The checks of _process_candidate.                                       *)

\* Step 0a, with the balance the tick has loaded; the verdict is kept across the
\* upsert.
Breaker(j) ==
  /\ Evaluate(balanceOf[j])
  /\ LET blocked == latch' = "tripped" IN
       IF Transition
         THEN /\ Go(j, "breaker", IF blocked THEN "persistBlocked" ELSE "persist")
              /\ upsert' = [upsert EXCEPT ![j] = Row]
              /\ UNCHANGED <<balanceOf, cand, lead, aware>>
         ELSE IF blocked THEN Stop(j, "breaker")
              ELSE Go(j, "breaker", "override") /\ UNCHANGED carried
  /\ UNCHANGED <<config, dictVars, tableVars, userVars, leads, bounds>>

\* Where a candidate goes after its upsert, done or failed.
AfterPersist(j) ==
  \/ Go(j, "persist", "override")
     /\ upsert' = [upsert EXCEPT ![j] = NoRow] /\ UNCHANGED <<balanceOf, cand, lead, aware>>
  \/ Stop(j, "persistBlocked")

Persist(j) ==
  /\ AfterPersist(j) /\ PersistRow(upsert[j])
  /\ UNCHANGED <<config, dictVars, tableVars, userVars, leads, bounds>>

PersistFails(j) ==
  /\ AfterPersist(j) /\ Fault
  /\ UNCHANGED <<config, bankrollVars, dictVars, tableVars, userVars, leads>>

\* Step 1a-2: an imbalanced market turns the candidate to its lagging leg.
Override(j) ==
  /\ Go(j, "override", "open")
  /\ LET acts == config.override /\ config.safeClose /\ Imbalanced(MarketOf(j)) IN
       /\ aware' = [aware EXCEPT ![j] = acts]
       /\ cand' = IF acts THEN [cand EXCEPT ![j] = <<MarketOf(j), Lagging(MarketOf(j))>>] ELSE cand
  /\ UNCHANGED <<balanceOf, lead, upsert, world>>

\* Step 1b: _has_open_position_for_side, or _for_market with the closed ones.
CheckOpen(j) ==
  /\ UNCHANGED world
  /\ IF (aware[j] /\ cand[j] \in OpenKeys)
        \/ (~aware[j] /\ \E s \in Sides : position[<<MarketOf(j), s>>] # "none")
     THEN Stop(j, "open") ELSE Go(j, "open", "direction") /\ UNCHANGED carried

\* Its query fails: gate step 10 remains the safety net.
CheckOpenFails(j) ==
  /\ Go(j, "open", "direction") /\ Fault
  /\ UNCHANGED <<carried, config, bankrollVars, dictVars, tableVars, userVars, leads>>

\* Step 3d: _safe_close_recent_count, long before _safe_close_record_entry.
Direction(j) ==
  /\ UNCHANGED world
  /\ IF config.safeClose /\ log[SideOf(j)] >= DirectionLimit THEN Stop(j, "direction")
     ELSE Go(j, "direction", "caps") /\ UNCHANGED carried

-----------------------------------------------------------------------------
(* TradeEngine.execute: the gate and the fill.                             *)

\* The engine refuses: a top-up is stamped all the same.
Refused(j, from) ==
  /\ Stop(j, from)
  /\ cooled' = IF lead[j] THEN cooled ELSE cooled \union {MarketOf(j)}

\* Steps 0 to 9: the count of open positions, and the strategy of the signal.
GateCaps(j) ==
  /\ IF Cardinality(OpenKeys) >= MaxOpen \/ Strategy(j) \notin Strategies
     THEN Refused(j, "caps") ELSE Go(j, "caps", "dedup") /\ UNCHANGED <<carried, cooled>>
  /\ UNCHANGED <<config, bankrollVars, log, enabled, tableVars, userVars, leads, bounds>>

\* Steps 3 to 9 whose data is not modelled.
GateRefuses(j) ==
  /\ Refused(j, "caps")
  /\ UNCHANGED <<config, bankrollVars, log, enabled, tableVars, userVars, leads, bounds>>

\* Step 10: an order of this key, or one on this market a moment ago.
GateDedup(j) ==
  /\ IF cand[j] \in ordered \/ MarketOf(j) \in recent THEN Refused(j, "dedup")
     ELSE Go(j, "dedup", IF config.live THEN "cap" ELSE "fill") /\ UNCHANGED <<carried, cooled>>
  /\ UNCHANGED <<config, bankrollVars, log, enabled, tableVars, userVars, leads, bounds>>

\* Mutant of LiveExposure: the sum is read as zero, as after a failed query.
LiveExposure_Unread == 0

\* _open_live_exposure: in the live settings every open position is live.
LiveExposure == Cardinality(OpenKeys)

\* Step 15.
GateLiveCap(j) ==
  /\ IF LiveExposure + 1 > LiveCap THEN Refused(j, "cap")
     ELSE Go(j, "cap", "fill") /\ UNCHANGED <<carried, cooled>>
  /\ UNCHANGED <<config, bankrollVars, log, enabled, tableVars, userVars, leads, bounds>>

\* The query of the exposure fails, and zero is taken for its answer.
GateLiveCapUnread(j) ==
  /\ Go(j, "cap", "fill") /\ Fault /\ LiveCap >= 1
  /\ UNCHANGED <<carried, config, bankrollVars, dictVars, tableVars, userVars, leads>>

\* The engine opens the position with its order; a key that was ordered
\* meanwhile is a duplicate.
Fill(j) ==
  /\ IF cand[j] \in ordered
       THEN /\ Refused(j, "fill")
            /\ UNCHANGED <<tableVars, leads>>
       ELSE /\ Go(j, "fill", "queue")
            /\ position' = [position EXCEPT ![cand[j]] = "open"]
            /\ ordered' = ordered \union {cand[j]}
            /\ recent' = recent \union {MarketOf(j)}
            /\ leads' = IF lead[j] THEN [leads EXCEPT ![SideOf(j)] = @ + 1] ELSE leads
            /\ UNCHANGED <<carried, cooled>>
  /\ UNCHANGED <<config, bankrollVars, log, enabled, userVars, bounds>>

\* It raises, and nothing is stored.
FillFails(j) ==
  /\ Stop(j, "fill") /\ Fault
  /\ UNCHANGED <<config, bankrollVars, dictVars, tableVars, userVars, leads>>

-----------------------------------------------------------------------------
(* After a fill.                                                           *)

\* _insert_execution_queue and _mark_executed, then _safe_close_record_entry.
Queued(j) ==
  /\ IF lead[j] THEN Go(j, "queue", "topup") /\ UNCHANGED <<carried, cooled>>
     ELSE Refused(j, "queue")
  /\ log' = IF lead[j] /\ config.safeClose THEN [log EXCEPT ![SideOf(j)] = @ + 1] ELSE log
  /\ UNCHANGED <<config, bankrollVars, enabled, tableVars, userVars, leads, bounds>>

\* The INSERT fails: the entry stands, and its direction is not recorded.
QueueFails(j) ==
  /\ lead[j] /\ Stop(j, "queue") /\ Fault
  /\ UNCHANGED <<config, bankrollVars, dictVars, tableVars, userVars, leads>>

\* _maybe_fire_fast_topup: the lagging leg, straight to the engine.
TopUp(j) ==
  /\ UNCHANGED world
  /\ LET m == MarketOf(j) IN
       IF config.topup /\ m \notin cooled /\ Imbalanced(m) /\ Lagging(m) # SideOf(j)
         THEN /\ Go(j, "topup", "caps")
              /\ cand' = [cand EXCEPT ![j] = <<m, Lagging(m)>>]
              /\ lead' = [lead EXCEPT ![j] = FALSE]
              /\ UNCHANGED <<balanceOf, aware, upsert>>
         ELSE Stop(j, "topup")

\* Its price, spread or inventory stops it.
TopUpDropped(j) == config.topup /\ Stop(j, "topup") /\ UNCHANGED world

-----------------------------------------------------------------------------
(* The world around the jobs.                                              *)

\* Profits, losses, deposits and withdrawals.
Wallet(b) ==
  /\ "wallet" \in config.moves /\ b # balance /\ balance' = b
  /\ UNCHANGED <<pc, carried, config, bankrollVars, dictVars, tableVars, on, enabledDb, leads, bounds>>

\* A position of this user is closed.
Close(k) ==
  /\ "close" \in config.moves /\ position[k] = "open"
  /\ position' = [position EXCEPT ![k] = "closed"]
  /\ UNCHANGED <<pc, carried, config, bankrollVars, dictVars, ordered, recent, userVars, leads, bounds>>

\* An order gets older than DEDUP_WINDOW_SECONDS.
Age(m) ==
  /\ "age" \in config.moves /\ m \in recent /\ recent' = recent \ {m}
  /\ UNCHANGED <<pc, carried, config, bankrollVars, dictVars, position, ordered, userVars, leads,
                 bounds>>

\* The user turns auto-trade on or off.
Toggle ==
  /\ "switch" \in config.moves /\ on' = ~on
  /\ UNCHANGED <<pc, carried, config, bankrollVars, dictVars, tableVars, balance, enabledDb, leads,
                 bounds>>

\* The operator disables or enables the strategy.
ToggleStrategy ==
  /\ "strategy" \in config.moves /\ enabledDb' = ~enabledDb
  /\ UNCHANGED <<pc, carried, config, bankrollVars, dictVars, tableVars, balance, on, leads, bounds>>

\* The process dies with its dicts and its ticks.
Restart ==
  /\ "restart" \in config.moves /\ restarts < MaxRestarts /\ restarts' = restarts + 1 /\ UNCHANGED faults
  /\ pc' = [j \in Jobs |-> "idle"] /\ cand' = [j \in Jobs |-> NoKey]
  /\ lead' = [j \in Jobs |-> TRUE] /\ aware' = [j \in Jobs |-> FALSE]
  /\ upsert' = [j \in Jobs |-> NoRow] /\ balanceOf' = [j \in Jobs |-> NoBalance]
  /\ BankrollRestart
  /\ log' = [s \in Sides |-> 0] /\ cooled' = {} /\ enabled' = TRUE
  /\ leads' = [s \in Sides |-> 0]
  /\ UNCHANGED <<config, tableVars, userVars>>

JobStep(j) ==
  \/ (j = Main /\ (StartMain \/ Restore \/ RestoreFails)) \/ StartFast(j)
  \/ Refresh(j) \/ RefreshFails(j) \/ Load(j)
  \/ NoCandidate(j) \/ (\E k \in Keys : Propose(j, k))
  \/ Breaker(j) \/ Persist(j) \/ PersistFails(j)
  \/ Override(j) \/ CheckOpen(j) \/ CheckOpenFails(j) \/ Dropped(j) \/ Direction(j)
  \/ GateCaps(j) \/ GateRefuses(j) \/ GateDedup(j)
  \/ GateLiveCap(j) \/ GateLiveCapUnread(j) \/ Fill(j) \/ FillFails(j)
  \/ Queued(j) \/ QueueFails(j) \/ TopUp(j) \/ TopUpDropped(j)

Environment ==
  \/ (\E b \in Balances : Wallet(b))
  \/ (\E k \in Keys : Close(k))
  \/ (\E m \in Markets : Age(m))
  \/ Toggle \/ ToggleStrategy \/ Restart

Next == (\E j \in Jobs : JobStep(j)) \/ Environment

Spec == Init /\ [][Next]_vars

\* APScheduler starts each job again and asyncio resumes its awaits; the user,
\* the operator and the market owe nothing.
FairSpec == Spec /\ \A j \in Jobs : WF_vars(JobStep(j))

-----------------------------------------------------------------------------
(* Properties.                                                             *)

\* The direction limit counts before the engine runs and records after it: it
\* is exceeded by what the other jobs had in flight and by entries whose queue
\* row could not be written, and by nothing else.
DirectionCap ==
  config.safeClose =>
    \A s \in Sides : leads[s] <= DirectionLimit + (Cardinality(Jobs) - 1) + faults

\* The gate counts positions before the fill: the caps on open positions and
\* on live capital are exceeded by at most one position of each other job, the
\* live cap also by a read that failed.
EntryCaps ==
  LET open == Cardinality(OpenKeys)
      over == Cardinality(Jobs) - 1 IN
  /\ open <= MaxOpen + over
  /\ config.live => open <= LiveCap + over + faults

\* The three caps of an entry together: none is passed by more than the jobs
\* that were between a check and its fill (gate.py:181, :455, signal_scan_job).
CapsHold == DirectionCap /\ EntryCaps

\* A tick that has read a balance below the trip line of the first baseline
\* fills no candidate, whatever the other job has read before or since.
BreakerHolds ==
  \A j \in Jobs :
    config.breaker /\ pc[j] = "fill" => ~BelowTrip(balanceOf[j], first) \/ restarts > 0

\* When the user stays off, no tick gets past the query of the enrolled users
\* in the end; when the strategy stays disabled, none proposes a candidate: the
\* ticks in flight end, and a set that could not be refreshed is read again.
SwitchesTakeHold ==
  LET Before == {"idle", "restore", "refresh", "load"} IN
  /\ <>[](~on) => <>[](\A j \in Jobs : pc[j] \in Before)
  /\ <>[](~enabledDb) => <>[](\A j \in Jobs : pc[j] \in Before \union {"scan"})
=============================================================================
