----------------------------- MODULE TradeEntry -----------------------------
(***************************************************************************)
(* From a candidate to a position: the scan jobs run candidates through    *)
(* the open-position check (signal_scan_job.py), the risk gate             *)
(* (domain/risk/gate.py), the router and the live or paper engine.  Each   *)
(* database statement and each call of the broker is a step, so two scan   *)
(* jobs, the operator and the clock interleave.                            *)
(*                                                                         *)
(* One user, one trading day: the idempotency key of a candidate is its    *)
(* market and side.  The environment guards of live trading are set, the   *)
(* imbalance override of the open-position check is not taken, and the     *)
(* operator gives one command at a time.                                   *)
(***************************************************************************)
EXTENDS KillSwitch

CONSTANTS
  Markets,    \* markets with candidates
  Sides,      \* sides with candidates
  MaxEntryFaults,  \* bound on the calls that fail
  MaxRestarts \* bound on the restarts

ASSUME EntryAssumption ==
  /\ MaxEntryFaults \in Nat /\ MaxRestarts \in Nat
  /\ Markets # {} /\ Sides # {}

Jobs == Readers           \* run_once and run_close_sweep_fast
Keys == Markets \X Sides  \* _build_idempotency_key

VARIABLES
  pc,       \* pc[j] : where job j stands
  cand,     \* cand[j] : its candidate
  wantLive, \* wantLive[j] : trading_mode = 'live' when its tick loaded the user
  order,    \* order[k] : orders.status of key k, "none" before the INSERT
  recent,   \* recent[k] : that row is younger than DEDUP_WINDOW_SECONDS
  idem,     \* idem[k] : the row of k in idempotency_keys; an expired row stays
  position, \* position[k] : mode of the position opened for k
  buys,     \* buys[k] : orders for k that the broker accepted
  hidden,   \* keys whose accepted order was sent again and refused (history)
  entryFaults, restarts

jobVars   == <<pc, cand, wantLive>>
tableVars == <<order, recent, idem, position>>
broker    == <<buys, hidden>>
bounds    == <<entryFaults, restarts>>
entryVars      == <<switchVars, jobVars, tableVars, broker, bounds>>

EntryTypeOK ==
  /\ SwitchTypeOK
  /\ pc \in [Jobs -> {"idle", "pick", "open", "switch", "dedup", "record", "precheck",
                      "claim", "submit", "refused", "unknown", "persist", "paper", "flip"}]
  /\ cand \in [Jobs -> Keys]
  /\ wantLive \in [Jobs -> BOOLEAN]
  /\ order \in [Keys -> {"none", "pending", "submitted", "failed", "unknown",
                         "cancelled", "filled"}]
  /\ recent \in [Keys -> BOOLEAN] /\ idem \in [Keys -> {"none", "live", "expired"}]
  /\ position \in [Keys -> {"none", "paper", "live"}]
  /\ buys \in [Keys -> Nat] /\ hidden \subseteq Keys
  /\ entryFaults \in 0 .. MaxEntryFaults /\ restarts \in 0 .. MaxRestarts

EntryInit ==
  /\ SwitchInit
  /\ pc = [j \in Jobs |-> "idle"]
  /\ cand = [j \in Jobs |-> CHOOSE k \in Keys : TRUE]
  /\ wantLive = [j \in Jobs |-> FALSE]
  /\ order = [k \in Keys |-> "none"]
  /\ recent = [k \in Keys |-> FALSE] /\ idem = [k \in Keys |-> "none"]
  /\ position = [k \in Keys |-> "none"]
  /\ buys = [k \in Keys |-> 0] /\ hidden = {}
  /\ entryFaults = 0 /\ restarts = 0

Go(j, from, to) == pc[j] = from /\ pc' = [pc EXCEPT ![j] = to]
EntryFault           == /\ entryFaults < MaxEntryFaults /\ entryFaults' = entryFaults + 1
                        /\ UNCHANGED restarts

OnMarket(k)   == {l \in Keys : l[1] = k[1]}
SetOrder(k, s) == order' = [order EXCEPT ![k] = s]
AskerVars     == <<cand, wantLive, tableVars, broker>>

-----------------------------------------------------------------------------
(* A tick of a scan job and the candidates it picks.                       *)

\* _load_enrolled_users: the row of the user is read once per tick.
Tick(j) ==
  /\ autoOn /\ Go(j, "idle", "pick")
  /\ wantLive' = [wantLive EXCEPT ![j] = liveOn]
  /\ UNCHANGED <<switchVars, cand, tableVars, broker, bounds>>

EndTick(j) ==
  /\ Go(j, "pick", "idle")
  /\ wantLive' = [wantLive EXCEPT ![j] = FALSE]
  /\ UNCHANGED <<switchVars, cand, tableVars, broker, bounds>>

\* A strategy proposes key k.
Pick(j, k) ==
  /\ Go(j, "pick", "open")
  /\ cand' = [cand EXCEPT ![j] = k]
  /\ UNCHANGED <<switchVars, wantLive, tableVars, broker, bounds>>

\* _has_open_position_for_market.
CheckOpen(j) ==
  /\ Go(j, "open", IF \E k \in OnMarket(cand[j]) : position[k] # "none" THEN "pick" ELSE "switch")
  /\ UNCHANGED <<switchVars, AskerVars, bounds>>

\* Its query fails, and the candidate goes on.
CheckOpenFails(j) ==
  /\ Go(j, "open", "switch") /\ EntryFault
  /\ UNCHANGED <<switchVars, AskerVars>>

-----------------------------------------------------------------------------
(* The risk gate.                                                          *)

\* Where the answer of is_active leads: a user trading live is first moved to
\* paper.
Answered(j, on) ==
  Go(j, "switch", IF ~on THEN "dedup" ELSE IF wantLive[j] THEN "flip" ELSE "pick")

\* Step 1, is_active: a warm cache answers, also to a reader that waited for
\* the lock; a cold one is read under the lock.
AskSwitch(j) ==
  /\ UNCHANGED AskerVars
  /\ \/ /\ holder # j /\ cache # "none"
        /\ Answered(j, cache = "on") /\ UNCHANGED <<switchVars, bounds>>
     \/ pc[j] = "switch" /\ Acquire(j) /\ UNCHANGED <<pc, bounds>>
     \/ pc[j] = "switch" /\ Fetch(j) /\ UNCHANGED <<pc, bounds>>
     \/ Store(j) /\ Answered(j, fetched = "on") /\ UNCHANGED bounds

\* The read fails.
AskSwitchFails(j) ==
  /\ FetchFails(j) /\ Answered(j, TRUE) /\ EntryFault
  /\ UNCHANGED AskerVars

\* Steps 2 to 9 and 11 to 15, whose data is not modelled, refuse the candidate;
\* the drawdown halt moves a user trading live to paper.
GateRefuses(j) ==
  /\ \/ Go(j, "dedup", "pick")
     \/ Go(j, "record", "pick")
     \/ wantLive[j] /\ Go(j, "dedup", "flip")
  /\ UNCHANGED <<switchVars, AskerVars, bounds>>

\* Step 10: an unexpired idempotency key, or an order on the market within
\* DEDUP_WINDOW_SECONDS.
CheckDedup(j) ==
  /\ LET k == cand[j] IN
       Go(j, "dedup", IF idem[k] = "live" \/ \E l \in OnMarket(k) : recent[l]
                      THEN "pick" ELSE "record")
  /\ UNCHANGED <<switchVars, AskerVars, bounds>>

\* _record_idempotency: ON CONFLICT DO NOTHING does not renew an expired row.
RecordIdem(j) ==
  /\ Go(j, "record", IF wantLive[j] THEN "precheck" ELSE "paper")
  /\ idem' = [idem EXCEPT ![cand[j]] = IF @ = "none" THEN "live" ELSE @]
  /\ UNCHANGED <<switchVars, cand, wantLive, order, recent, position, broker, bounds>>

-----------------------------------------------------------------------------
(* The live engine.                                                        *)

\* The early look for an order with this idempotency key.
Precheck(j) ==
  /\ Go(j, "precheck", IF order[cand[j]] = "none" THEN "claim" ELSE "pick")
  /\ UNCHANGED <<switchVars, AskerVars, bounds>>

\* LivePreSubmitError before the claim: the router falls back to paper.
PreSubmitFails(j) ==
  /\ Go(j, "precheck", "paper") \/ Go(j, "claim", "paper")
  /\ EntryFault
  /\ UNCHANGED <<switchVars, AskerVars>>

\* INSERT INTO orders, when no order has the key yet.
Inserted(j, status) ==
  /\ SetOrder(cand[j], status)
  /\ recent' = [recent EXCEPT ![cand[j]] = TRUE]

\* Mutant of ClaimOrder: the INSERT without ON CONFLICT DO NOTHING and UNIQUE.
ClaimOrder_Unclaimed(j) ==
  /\ Go(j, "claim", "submit") /\ Inserted(j, "pending")
  /\ UNCHANGED <<switchVars, cand, wantLive, idem, position, broker, bounds>>

\* Claim the key with a 'pending' order, before the broker is called.
ClaimOrder(j) ==
  /\ \/ Go(j, "claim", "submit") /\ order[cand[j]] = "none" /\ Inserted(j, "pending")
     \/ Go(j, "claim", "pick") /\ order[cand[j]] # "none" /\ UNCHANGED <<order, recent>>
  /\ UNCHANGED <<switchVars, cand, wantLive, idem, position, broker, bounds>>

Bought(j) == buys' = [buys EXCEPT ![cand[j]] = @ + 1] /\ UNCHANGED hidden

\* post_order: the broker accepts.
SubmitAccepted(j) ==
  /\ Go(j, "submit", "persist") /\ Bought(j)
  /\ UNCHANGED <<switchVars, cand, wantLive, tableVars, bounds>>

\* ClobAuthError: the signature failed or the broker refused the order, or it
\* had accepted the order, its answer was lost, and adapter.py sent the same
\* request again and got a 400, 401 or 403 for it.
SubmitRefused(j) ==
  /\ Go(j, "submit", "refused") /\ EntryFault
  /\ \/ UNCHANGED broker
     \/ buys' = [buys EXCEPT ![cand[j]] = @ + 1] /\ hidden' = hidden \cup {cand[j]}
  /\ UNCHANGED <<switchVars, cand, wantLive, tableVars>>

\* Mutant of SubmitAmbiguous: every failure is taken for a refusal.
SubmitAmbiguous_Refused(j) ==
  /\ Go(j, "submit", "refused") /\ EntryFault
  /\ Bought(j) \/ UNCHANGED broker
  /\ UNCHANGED <<switchVars, cand, wantLive, tableVars>>

\* Any other exception: the broker may hold the order or not.
SubmitAmbiguous(j) ==
  /\ Go(j, "submit", "unknown") /\ EntryFault
  /\ Bought(j) \/ UNCHANGED broker
  /\ UNCHANGED <<switchVars, cand, wantLive, tableVars>>

\* The order is marked 'failed', and the router falls back to paper.
MarkFailed(j) ==
  /\ Go(j, "refused", "paper") /\ SetOrder(cand[j], "failed")
  /\ UNCHANGED <<switchVars, cand, wantLive, recent, idem, position, broker, bounds>>

\* The order is marked 'unknown', and the router moves the user to paper.
MarkUnknown(j) ==
  /\ Go(j, "unknown", "flip") /\ SetOrder(cand[j], "unknown")
  /\ UNCHANGED <<switchVars, cand, wantLive, recent, idem, position, broker, bounds>>

\* The order becomes 'submitted', whatever it was, in the transaction that
\* opens the position and debits the ledger.
Persist(j) ==
  /\ Go(j, "persist", "pick") /\ SetOrder(cand[j], "submitted")
  /\ position' = [position EXCEPT ![cand[j]] = "live"]
  /\ UNCHANGED <<switchVars, cand, wantLive, recent, idem, broker, bounds>>

\* That transaction fails: LivePostSubmitError.
PersistFails(j) ==
  /\ Go(j, "persist", "flip") /\ EntryFault
  /\ UNCHANGED <<switchVars, AskerVars>>

\* The fallback moves the user to paper.
FlipUsers(j) ==
  /\ Go(j, "flip", "pick") /\ FlipToPaper
  /\ UNCHANGED <<AskerVars, bounds>>

-----------------------------------------------------------------------------
(* The paper engine.                                                       *)

\* One transaction inserts a filled order, opens the position and debits the
\* ledger; an order with the same key, live or paper, makes it a duplicate.
PaperFill(j) ==
  /\ Go(j, "paper", "pick")
  /\ IF order[cand[j]] = "none"
     THEN Inserted(j, "filled") /\ position' = [position EXCEPT ![cand[j]] = "paper"]
     ELSE UNCHANGED <<order, recent, position>>
  /\ UNCHANGED <<switchVars, cand, wantLive, idem, broker, bounds>>

\* A statement whose failure only ends the attempt.
StatementFails(j) ==
  /\ pc[j] \in {"dedup", "record", "claim", "refused", "unknown", "paper", "flip"}
  /\ pc' = [pc EXCEPT ![j] = "pick"] /\ EntryFault
  /\ UNCHANGED <<switchVars, AskerVars>>

-----------------------------------------------------------------------------
(* The operator, the user, the clock and the process.                      *)

\* execute_kill_switch marks every 'pending' order cancelled, one whose broker
\* call is under way too.
CancelPending ==
  /\ CancelTried
  /\ order' = [k \in Keys |-> IF order[k] = "pending" THEN "cancelled" ELSE order[k]]
  /\ UNCHANGED <<jobVars, recent, idem, position, broker, bounds>>

OperatorGoesOn ==
  \/ Invalidate /\ UNCHANGED <<jobVars, tableVars, broker, bounds>>
  \/ SetFlag /\ UNCHANGED <<jobVars, tableVars, broker, bounds>>
  \/ CancelPending

\* A statement of execute_kill_switch or reset_kill_switch fails.
OperatorFails ==
  /\ (\E c \in Commands : SetActiveFails(c)) \/ CancelTried \/ SetFlagFails
  /\ EntryFault
  /\ UNCHANGED <<jobVars, tableVars, broker>>

OperatorCommands ==
  /\ \E c \in Commands : SetActive(c)
  /\ UNCHANGED <<jobVars, tableVars, broker, bounds>>

UserSwitches ==
  /\ DisableAuto \/ EnableAuto \/ EnableLive \/ FlipToPaper
  /\ UNCHANGED <<jobVars, tableVars, broker, bounds>>

CacheAges == CacheExpires /\ UNCHANGED <<jobVars, tableVars, broker, bounds>>

\* DEDUP_WINDOW_SECONDS, and the 30 minutes of an idempotency key, pass.
OrderAges(k) ==
  /\ recent[k] /\ recent' = [recent EXCEPT ![k] = FALSE]
  /\ UNCHANGED <<switchVars, jobVars, order, idem, position, broker, bounds>>

IdemAges(k) ==
  /\ idem[k] = "live" /\ idem' = [idem EXCEPT ![k] = "expired"]
  /\ UNCHANGED <<switchVars, jobVars, order, recent, position, broker, bounds>>

\* The process dies and starts again: what it had not committed is gone.
Restart ==
  /\ restarts < MaxRestarts /\ restarts' = restarts + 1
  /\ SwitchRestart
  /\ pc' = [j \in Jobs |-> "idle"] /\ wantLive' = [j \in Jobs |-> FALSE]
  /\ UNCHANGED <<cand, tableVars, broker, entryFaults>>

-----------------------------------------------------------------------------

\* What a job does next when nothing fails.
JobGoesOn(j) ==
  \/ CheckOpen(j) \/ AskSwitch(j) \/ CheckDedup(j) \/ RecordIdem(j)
  \/ Precheck(j) \/ ClaimOrder(j) \/ SubmitAccepted(j) \/ MarkFailed(j) \/ MarkUnknown(j)
  \/ Persist(j) \/ FlipUsers(j) \/ PaperFill(j)

JobFails(j) ==
  \/ CheckOpenFails(j) \/ AskSwitchFails(j) \/ PreSubmitFails(j) \/ SubmitRefused(j)
  \/ SubmitAmbiguous(j) \/ PersistFails(j) \/ StatementFails(j)

EntryNext ==
  \/ \E j \in Jobs : \/ Tick(j) \/ EndTick(j) \/ \E k \in Keys : Pick(j, k)
                     \/ GateRefuses(j) \/ JobGoesOn(j) \/ JobFails(j)
  \/ OperatorCommands \/ OperatorGoesOn \/ OperatorFails \/ UserSwitches
  \/ CacheAges \/ \E k \in Keys : OrderAges(k) \/ IdemAges(k)
  \/ Restart

\* asyncio gives every task its turn, its lock is handed over in the order of
\* arrival, every call has a timeout, and the clock runs.
EntryFairness ==
  /\ \A j \in Jobs : SF_entryVars(JobGoesOn(j) \/ JobFails(j))
  /\ WF_entryVars(OperatorGoesOn)
  /\ WF_entryVars(CacheAges)

EntrySpec == EntryInit /\ [][EntryNext]_entryVars /\ EntryFairness

-----------------------------------------------------------------------------
(* Properties.                                                             *)

\* A key is spent once: at most one order for it is accepted by the broker, and
\* no paper position comes on top of it, whatever the fallbacks, the two jobs,
\* the expiry of the dedup keys and restarts do.
OneExposurePerKey ==
  \A k \in Keys : buys[k] + (IF position[k] = "paper" THEN 1 ELSE 0) <= 1

\* A buy that has no position and no task working on it is left in a row that
\* an operator still has to look at, never in one marked failed.
Accounted(k) ==
  buys[k] > 0 /\ position[k] = "none"
    => \/ order[k] \in {"pending", "unknown", "cancelled"}
       \/ \E j \in Jobs : cand[j] = k /\ pc[j] \in {"unknown", "persist"}

\* Every buy but one whose second sending was refused is accounted for, whatever
\* the kill switch, the other job and restarts do to its row.
NoSilentBuy == \A k \in Keys \ hidden : Accounted(k)

\* live.py:255 "ClobAuthError means signing failed before any network call ...
\* definitively pre-submit": an order that the program takes for unsent was not
\* bought.
RefusedIsUnsent == \A k \in Keys : order[k] = "failed" => buys[k] = 0

\* The steps between a favourable answer of the gate and the order.
Submitting == {"dedup", "record", "precheck", "claim", "submit", "persist", "refused", "paper"}

\* Once the switch stays on, the jobs stop trading: stale answers run out.
HaltTakesHold == (<>[]flag) => (<>[](\A j \in Jobs : pc[j] \notin Submitting))

\* An attempt always ends, so a tick can end and the next one start.
AttemptEnds ==
  \A j \in Jobs : (pc[j] \notin {"idle", "pick"}) ~> (pc[j] \in {"idle", "pick"})
=============================================================================
