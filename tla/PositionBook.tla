---------------------------- MODULE PositionBook ----------------------------
(***************************************************************************)
(* The rows every settlement path of CrusaderBot writes: positions,        *)
(* ledger and one row of markets.  Each operator below is one SQL          *)
(* statement or one conn.transaction() of the code; the tasks that issue   *)
(* them interleave freely, because every statement is an await.            *)
(*                                                                         *)
(* All the positions are on one market, and Winners are the ones whose     *)
(* side the market resolves to.  Markets are independent of each other:    *)
(* no statement below touches the rows of two of them.                     *)
(***************************************************************************)
EXTENDS Naturals, Sequences

CONSTANTS
  Positions,  \* rows of the positions table
  Live,       \* the ones with mode = 'live'; the others are 'paper'
  Winners,    \* the ones on the side that wins
  Late,       \* the ones the trade engine opens during the behaviour
  MaxFaults   \* bound on the failed calls of a behaviour

ASSUME BookAssumption ==
  /\ Live \subseteq Positions
  /\ Winners \subseteq Positions
  /\ Late \subseteq Positions
  /\ MaxFaults \in Nat

VARIABLES
  status,    \* positions.status; "absent" before the INSERT
  redeemed,  \* positions.redeemed
  pnl,       \* what positions.pnl_usdc holds: a "mark" or the "final" result
  ledger,    \* ledger[p] : the credits posted with ref_id = p
  resolved,  \* markets.resolved
  decided,   \* markets.winning_side IS NOT NULL
  due,       \* markets.resolution_at < NOW()
  official,  \* Polymarket: "trading", "closed", or "delisted" once the
             \* cached list of open markets has expired as well
  faults     \* failed calls so far: broker, chain or database

rowVars    == <<status, redeemed, pnl, ledger>>
marketVars == <<resolved, decided, due, official>>
bookVars   == <<status, redeemed, pnl, ledger, resolved, decided, due, official>>

Status == {"absent", "open", "closing", "pending_settlement", "closed"}
Credit == {"sale", "refund", "payoff"}

\* A winner still waiting for its redemption, or a loser for its write-off.
Unsettled(p) == status[p] \in {"open", "pending_settlement"}

BookTypeOK ==
  /\ status \in [Positions -> Status]
  /\ redeemed \in [Positions -> BOOLEAN]
  /\ pnl \in [Positions -> {"mark", "final"}]
  /\ ledger \in [Positions -> Seq(Credit)]
  /\ resolved \in BOOLEAN
  /\ decided \in BOOLEAN
  /\ due \in BOOLEAN
  /\ official \in {"trading", "closed", "delisted"}
  /\ faults \in 0 .. MaxFaults

BookInit ==
  /\ status = [p \in Positions |-> IF p \in Late THEN "absent" ELSE "open"]
  /\ redeemed = [p \in Positions |-> FALSE]
  /\ pnl = [p \in Positions |-> "mark"]
  /\ ledger = [p \in Positions |-> <<>>]
  /\ resolved = FALSE
  /\ decided = FALSE
  /\ due = FALSE
  /\ official = "trading"
  /\ faults = 0

\* One more call fails.
Fault == faults < MaxFaults /\ faults' = faults + 1

-----------------------------------------------------------------------------
(* Statements on a positions row.  None of them touches markets.           *)

\* Close row p and post the credits of sequence c in the same transaction.
CloseRow(p, c) ==
  /\ status' = [status EXCEPT ![p] = "closed"]
  /\ pnl' = [pnl EXCEPT ![p] = "final"]
  /\ ledger' = [ledger EXCEPT ![p] = @ \o c]

\* INSERT INTO positions by the paper or the live engine.
InsertPosition(p) ==
  /\ status' = [status EXCEPT ![p] = "open"]
  /\ UNCHANGED <<redeemed, pnl, ledger>>

\* paper.close_position: UPDATE ... WHERE status='open', then the credit.
PaperCloseRow(p) ==
  IF status[p] = "open"
  THEN CloseRow(p, <<"sale">>) /\ UNCHANGED redeemed
  ELSE UNCHANGED rowVars

\* live.close_position: the claim taken before the SELL is submitted.
ClaimRow(p) ==
  /\ status[p] = "open"
  /\ status' = [status EXCEPT ![p] = "closing"]
  /\ UNCHANGED <<redeemed, pnl, ledger>>

\* live.close_position: the SELL raised.  This UPDATE has no status guard.
ReopenRow(p) ==
  /\ status' = [status EXCEPT ![p] = "open"]
  /\ UNCHANGED <<redeemed, pnl, ledger>>

\* live.close_position: the SELL was accepted.
FinishRow(p) ==
  IF status[p] = "closing"
  THEN CloseRow(p, <<"sale">>) /\ UNCHANGED redeemed
  ELSE UNCHANGED rowVars

\* Mutant of ExpireRow: the UPDATE lost its status guard.
ExpireRow_Unguarded(p) == CloseRow(p, <<"refund">>) /\ UNCHANGED redeemed

\* registry.close_as_expired: the stake goes back to the user.
ExpireRow(p) ==
  IF status[p] = "open"
  THEN CloseRow(p, <<"refund">>) /\ UNCHANGED redeemed
  ELSE UNCHANGED rowVars

\* registry.update_current_price: refreshes the mark, whatever the status.
MarkRow(p) ==
  /\ pnl' = [pnl EXCEPT ![p] = "mark"]
  /\ UNCHANGED <<status, redeemed, ledger>>

\* redeem_router._mark_pending_settlement, over the rows of the market.
ParkRows ==
  /\ status' = [p \in Positions |->
                  IF status[p] = "open" /\ ~redeemed[p] /\ due
                  THEN "pending_settlement" ELSE status[p]]
  /\ UNCHANGED <<redeemed, pnl, ledger>>

\* settle_*_position on a row read as 'closed': only the flag is set.
FlagRow(p) ==
  /\ redeemed' = [redeemed EXCEPT ![p] = TRUE]
  /\ UNCHANGED <<status, pnl, ledger>>

\* Mutant of SettleRow: the UPDATE lost its guard on status.
SettleRow_Unguarded(p, c) ==
  IF ~redeemed[p]
  THEN CloseRow(p, c) /\ redeemed' = [redeemed EXCEPT ![p] = TRUE]
  ELSE UNCHANGED rowVars

\* settle_winning_position and settle_losing_position: close and flag the row
\* if it is still waiting; the winner's payoff c is posted with it.
SettleRow(p, c) ==
  IF Unsettled(p) /\ ~redeemed[p]
  THEN CloseRow(p, c) /\ redeemed' = [redeemed EXCEPT ![p] = TRUE]
  ELSE UNCHANGED rowVars

-----------------------------------------------------------------------------
(* The markets row, and Polymarket itself.                                 *)

\* resolution_at passes.
PassDue ==
  /\ ~due
  /\ due' = TRUE
  /\ UNCHANGED <<rowVars, resolved, decided, official>>

\* Polymarket posts the official close.
OfficialClose ==
  /\ official = "trading"
  /\ official' = "closed"
  /\ UNCHANGED <<rowVars, resolved, decided, due>>

\* The cached list of open markets that still named this one expires.
Delist ==
  /\ official = "closed"
  /\ official' = "delisted"
  /\ UNCHANGED <<rowVars, resolved, decided, due>>

\* scheduler.sync_markets: the upsert writes resolved = closed for every market
\* of the list get_markets asked for with closed=false and caches for 300 s.
SyncMarkets ==
  /\ official # "delisted"
  /\ resolved' = FALSE
  /\ UNCHANGED <<rowVars, decided, due, official>>

\* _process_market_resolution: the flip, guarded by resolved = FALSE.
FlipMarket ==
  /\ resolved' = TRUE
  /\ decided' = (decided \/ ~resolved)
  /\ UNCHANGED <<due, official>>

MarketStep == PassDue \/ OfficialClose \/ Delist \/ SyncMarkets
=============================================================================
