------------------------------ MODULE Deposits ------------------------------
(***************************************************************************)
(* The deposit watcher (scheduler.watch_deposits): it scans the chain for  *)
(* USDC transfers into user wallets, records each as 'pending', and        *)
(* credits the ledger when the row is deep enough.  The chain may drop or  *)
(* move a transfer, statements may fail, and the process may restart; a    *)
(* restart runs every migration again.                                     *)
(***************************************************************************)
EXTENDS Integers

CONSTANTS
  Transfers,   \* USDC transfers into watched wallets: (tx_hash, log_index)
  Depth,       \* DEPOSIT_CONFIRMATION_DEPTH
  ScanRange,   \* max_range of scan_from_cursor
  RemovedLogs, \* does the node report the logs of orphaned blocks?
  MaxHead,     \* bound on the height of the chain
  MaxReorgs,   \* bound on the reorganisations of a behaviour
  MaxRpcFaults,   \* bound on the statements that fail
  MaxWatchRestarts  \* bound on the restarts

ASSUME DepositAssumption ==
  /\ Depth \in Nat /\ ScanRange \in Nat \ {0}
  /\ RemovedLogs \in BOOLEAN
  /\ MaxHead \in Nat /\ MaxReorgs \in Nat /\ MaxRpcFaults \in Nat /\ MaxWatchRestarts \in Nat

VARIABLES
  head,        \* height of the canonical chain
  block,       \* block[t] : block of t on that chain, 0 while t is not on it
  orphans,     \* <<t, b>> : the log of t was orphaned from block b
  dep,         \* deposits.status of t's row; "none" before the INSERT
  depBlock,    \* deposits.block_number
  confirmedAt, \* deposits.confirmed_at IS NOT NULL
  credit,      \* deposits credited to the user for t, minus those debited
  cursor,      \* chain_cursor.block_number
  tick,        \* where the watcher stands
  headRead,    \* the head this tick confirms against
  scannedTo,   \* the block its scan ended at
  found,       \* logs of its scan still to process
  allOk,       \* has every log so far been recorded?
  ready,       \* rows its confirm pass still has to promote
  reorgs, rpcFaults, watchRestarts

depositChain  == <<head, block, orphans>>
tableVars     == <<dep, depBlock, confirmedAt, credit, cursor>>
tickVars      == <<tick, headRead, scannedTo, found, allOk, ready>>
depositBounds == <<reorgs, rpcFaults, watchRestarts>>
depositVars   == <<depositChain, tableVars, tickVars, depositBounds>>

Blocks == 1 .. MaxHead
Logs   == [transfer : Transfers, block : Blocks, removed : BOOLEAN]

DepositsTypeOK ==
  /\ head \in 0 .. MaxHead
  /\ block \in [Transfers -> 0 .. MaxHead]
  /\ orphans \in SUBSET (Transfers \X Blocks)
  /\ dep \in [Transfers -> {"none", "pending", "confirmed", "reverted"}]
  /\ depBlock \in [Transfers -> 0 .. MaxHead]
  /\ confirmedAt \in [Transfers -> BOOLEAN]
  /\ credit \in [Transfers -> Int]
  /\ cursor \in 0 .. MaxHead
  /\ tick \in {"idle", "scan", "record", "confirm"}
  /\ headRead \in 0 .. MaxHead
  /\ scannedTo \in 0 .. MaxHead
  /\ found \in SUBSET Logs
  /\ allOk \in BOOLEAN
  /\ ready \in SUBSET Transfers
  /\ reorgs \in 0 .. MaxReorgs
  /\ rpcFaults \in 0 .. MaxRpcFaults
  /\ watchRestarts \in 0 .. MaxWatchRestarts

IdleTick ==
  /\ tick = "idle" /\ headRead = 0 /\ scannedTo = 0
  /\ found = {} /\ allOk = TRUE /\ ready = {}

DepositsInit ==
  /\ head = 0
  /\ block = [t \in Transfers |-> 0]
  /\ orphans = {}
  /\ dep = [t \in Transfers |-> "none"]
  /\ depBlock = [t \in Transfers |-> 0]
  /\ confirmedAt = [t \in Transfers |-> FALSE]
  /\ credit = [t \in Transfers |-> 0]
  /\ cursor = 0
  /\ IdleTick
  /\ reorgs = 0 /\ rpcFaults = 0 /\ watchRestarts = 0

-----------------------------------------------------------------------------
(* The chain.                                                              *)

\* A new block, with some of the transfers that are not on the chain yet.
NewBlock ==
  /\ head < MaxHead
  /\ head' = head + 1
  /\ \E mined \in SUBSET {t \in Transfers : block[t] = 0} :
       block' = [t \in Transfers |-> IF t \in mined THEN head + 1 ELSE block[t]]
  /\ UNCHANGED <<orphans, tableVars, tickVars, depositBounds>>

\* A reorganisation drops t, or moves it to a block between its own and the head.
Reorg(t) ==
  /\ reorgs < MaxReorgs
  /\ block[t] # 0
  /\ \E b \in {0} \union (block[t] + 1 .. head) : block' = [block EXCEPT ![t] = b]
  /\ orphans' = orphans \union {<<t, block[t]>>}
  /\ reorgs' = reorgs + 1
  /\ UNCHANGED <<head, tableVars, tickVars, rpcFaults, watchRestarts>>

-----------------------------------------------------------------------------
(* The watcher.                                                            *)

ResetTick ==
  /\ tick' = "idle" /\ headRead' = 0 /\ scannedTo' = 0
  /\ found' = {} /\ allOk' = TRUE /\ ready' = {}

\* latest_block.
StartTick ==
  /\ tick = "idle"
  /\ headRead' = head
  /\ tick' = "scan"
  /\ UNCHANGED <<depositChain, tableVars, scannedTo, found, allOk, ready, depositBounds>>

\* scan_from_cursor: the logs after the cursor, at most ScanRange blocks.  With
\* no cursor yet it starts lookback blocks below the head (here: at the genesis).
Scan ==
  LET start == IF cursor > 0 THEN cursor + 1 ELSE 0
      end   == IF head < start + ScanRange - 1 THEN head ELSE start + ScanRange - 1
  IN
  /\ tick = "scan"
  /\ IF start > head
     THEN scannedTo' = cursor /\ found' = {}
     ELSE /\ scannedTo' = end
          /\ found' = {l \in Logs :
               /\ l.block \in start .. end
               /\ IF l.removed THEN RemovedLogs /\ <<l.transfer, l.block>> \in orphans
                               ELSE block[l.transfer] = l.block}
  /\ tick' = "record"
  /\ UNCHANGED <<depositChain, tableVars, headRead, allOk, ready, depositBounds>>

\* The node or the database does not answer, before the scan or at the cursor
\* write: no cursor advance, no confirm pass.
TickFails ==
  /\ tick = "scan" \/ (tick = "record" /\ found = {})
  /\ rpcFaults < MaxRpcFaults /\ rpcFaults' = rpcFaults + 1
  /\ ResetTick
  /\ UNCHANGED <<depositChain, tableVars, reorgs, watchRestarts>>

\* _record_pending_deposit: INSERT, or reset a reverted row to pending.  The
\* reset keeps block_number and confirmed_at.
RecordPending(l) ==
  LET t == l.transfer IN
  /\ tick = "record" /\ l \in found /\ ~l.removed
  /\ dep' = [dep EXCEPT ![t] = IF @ \in {"none", "reverted"} THEN "pending" ELSE @]
  /\ depBlock' = [depBlock EXCEPT ![t] = IF dep[t] = "none" THEN l.block ELSE @]
  /\ found' = found \ {l}
  /\ UNCHANGED <<depositChain, confirmedAt, credit, cursor, tick, headRead, scannedTo,
                 allOk, ready, depositBounds>>

\* _revert_deposit: a removed log; a confirmed deposit is debited again.
RevertDeposit(l) ==
  LET t == l.transfer IN
  /\ tick = "record" /\ l \in found /\ l.removed
  /\ dep' = [dep EXCEPT ![t] = IF @ = "none" THEN "none" ELSE "reverted"]
  /\ credit' = [credit EXCEPT ![t] = IF dep[t] = "confirmed" THEN @ - 1 ELSE @]
  /\ found' = found \ {l}
  /\ UNCHANGED <<depositChain, depBlock, confirmedAt, cursor, tick, headRead, scannedTo,
                 allOk, ready, depositBounds>>

\* Mutant of RecordFails: the failure does not hold the cursor back.
RecordFails_Ignored(l) ==
  /\ tick = "record" /\ l \in found
  /\ rpcFaults < MaxRpcFaults /\ rpcFaults' = rpcFaults + 1
  /\ found' = found \ {l}
  /\ UNCHANGED <<depositChain, tableVars, tick, headRead, scannedTo, allOk, ready, reorgs,
                 watchRestarts>>

\* Either of them raises: the cursor will not advance.
RecordFails(l) ==
  /\ tick = "record" /\ l \in found
  /\ rpcFaults < MaxRpcFaults /\ rpcFaults' = rpcFaults + 1
  /\ allOk' = FALSE
  /\ found' = found \ {l}
  /\ UNCHANGED <<depositChain, tableVars, tick, headRead, scannedTo, ready, reorgs, watchRestarts>>

\* _write_cursor, then the confirm pass selects the rows that are deep enough.
WriteCursor ==
  /\ tick = "record" /\ found = {}
  /\ cursor' = IF allOk THEN scannedTo ELSE cursor
  /\ tick' = "confirm"
  /\ ready' = {t \in Transfers : dep[t] = "pending" /\ headRead - depBlock[t] >= Depth}
  /\ UNCHANGED <<depositChain, dep, depBlock, confirmedAt, credit, headRead, scannedTo,
                 found, allOk, depositBounds>>

\* Mutant of Confirm: the UPDATE and the credit commit separately, and the
\* credit is lost.
Confirm_NoCredit(t) ==
  /\ tick = "confirm" /\ t \in ready
  /\ dep' = [dep EXCEPT ![t] = "confirmed"]
  /\ confirmedAt' = [confirmedAt EXCEPT ![t] = TRUE]
  /\ ready' = ready \ {t}
  /\ UNCHANGED <<depositChain, depBlock, credit, cursor, tick, headRead, scannedTo, found,
                 allOk, depositBounds>>

\* _confirm_ready_deposits: promote and credit in one transaction.
Confirm(t) ==
  /\ tick = "confirm" /\ t \in ready
  /\ IF dep[t] = "pending"
     THEN /\ dep' = [dep EXCEPT ![t] = "confirmed"]
          /\ confirmedAt' = [confirmedAt EXCEPT ![t] = TRUE]
          /\ credit' = [credit EXCEPT ![t] = @ + 1]
     ELSE UNCHANGED <<dep, confirmedAt, credit>>
  /\ ready' = ready \ {t}
  /\ UNCHANGED <<depositChain, depBlock, cursor, tick, headRead, scannedTo, found, allOk,
                 depositBounds>>

\* The pass raises: the rows that are left wait for the next tick.
ConfirmFails ==
  /\ tick = "confirm" /\ ready # {}
  /\ rpcFaults < MaxRpcFaults /\ rpcFaults' = rpcFaults + 1
  /\ ResetTick
  /\ UNCHANGED <<depositChain, tableVars, reorgs, watchRestarts>>

EndTick ==
  /\ tick = "confirm" /\ ready = {}
  /\ ResetTick
  /\ UNCHANGED <<depositChain, tableVars, depositBounds>>

WatchStep ==
  \/ StartTick
  \/ Scan
  \/ TickFails
  \/ \E l \in found : RecordPending(l) \/ RevertDeposit(l) \/ RecordFails(l)
  \/ WriteCursor
  \/ \E t \in ready : Confirm(t)
  \/ ConfirmFails
  \/ EndTick

\* run_migrations: 047 marks the pending rows with a confirmed_at as confirmed.
WatchRestarts ==
  /\ watchRestarts < MaxWatchRestarts
  /\ watchRestarts' = watchRestarts + 1
  /\ ResetTick
  /\ dep' = [t \in Transfers |->
               IF dep[t] = "pending" /\ confirmedAt[t] THEN "confirmed" ELSE dep[t]]
  /\ UNCHANGED <<depositChain, depBlock, confirmedAt, credit, cursor, reorgs, rpcFaults>>

DepositsNext ==
  \/ NewBlock
  \/ \E t \in Transfers : Reorg(t)
  \/ WatchStep
  \/ WatchRestarts

DepositsSpec == DepositsInit /\ [][DepositsNext]_depositVars

\* APScheduler runs the watcher again and again, and blocks keep coming.
DepositsFairness == WF_depositVars(WatchStep) /\ WF_depositVars(NewBlock)
DepositsFairSpec == DepositsSpec /\ DepositsFairness
-----------------------------------------------------------------------------
(* Properties.                                                             *)

\* A user is never credited twice for one transfer, and keeps no credit for a
\* row that is pending or reverted: the confirming UPDATE is guarded, a revert
\* debits, and a second sighting never resets a confirmed row
\* (scheduler.py:256, :298, :343).  Until a restart the ledger matches the rows.
LedgerMatchesDeposits ==
  \A t \in Transfers :
    /\ credit[t] <= 1
    /\ credit[t] = 1 => dep[t] = "confirmed"
    /\ watchRestarts = 0 => credit[t] = IF dep[t] = "confirmed" THEN 1 ELSE 0

\* A row that is confirmed was credited: "genuine new-code pending rows have
\* confirmed_at = NULL", so the migration that runs again at every restart
\* leaves them alone (migrations/047:22).
ConfirmedIsCredited ==
  \A t \in Transfers : dep[t] = "confirmed" => credit[t] = 1

\* While the chain does not reorganise, a transfer at or below the cursor has a
\* row: a failed write holds the cursor back (scheduler.py:161).
CursorCoversRecorded ==
  reorgs = 0 => \A t \in Transfers : block[t] \in 1 .. cursor => dep[t] # "none"

\* What was recorded, what was credited and how far the watcher says it has read
\* agree (scheduler.py:161, :256, :298, :343).
DepositsBooked == LedgerMatchesDeposits /\ CursorCoversRecorded

\* While the chain does not reorganise, a transfer that becomes deep enough is
\* credited in the end, whatever statements fail and however often the process
\* restarts (scheduler.py:163).
DepositCredited ==
  \A t \in Transfers :
    block[t] \in 1 .. MaxHead - Depth ~> credit[t] = 1 \/ reorgs > 0
=============================================================================
