---------------------------- MODULE Money_proofs ----------------------------
(***************************************************************************)
(* Theorems about the parts that move a user's money, and whose it is:     *)
(* Deposits, for every set of transfers, depth and scan range,             *)
(* Withdrawals, for every set of requests, balance and pool, and Accounts, *)
(* for every number of handlers, rows and codes.                           *)
(***************************************************************************)
EXTENDS Deposits, Withdrawals, Accounts, TLAPS

-----------------------------------------------------------------------------
(* Deposits.  The ledger follows the rows by itself; that the cursor tells *)
(* the truth needs to be known while a scan is under way.                  *)

\* What the watcher has seen is on the chain.
ChainKnown ==
  /\ cursor <= head /\ scannedTo <= head
  /\ \A t \in Transfers : block[t] <= head

LogOf(t) == [transfer |-> t, block |-> block[t], removed |-> FALSE]

\* As long as every log could be recorded, a transfer within the scan has a row or
\* its log is still to be processed.
ScanCovers ==
  tick = "record" /\ reorgs = 0 /\ allOk =>
    \A t \in Transfers : block[t] \in 1 .. scannedTo => dep[t] # "none" \/ LogOf(t) \in found

\* The inductive invariant of the deposits.
DepositsInv ==
  DepositsTypeOK /\ ChainKnown /\ ScanCovers /\ LedgerMatchesDeposits /\ CursorCoversRecorded

LEMMA DepositsInitHolds ==
  ASSUME DepositAssumption, DepositsInit
  PROVE  DepositsInv
BY DEF DepositAssumption, DepositsInit, IdleTick, DepositsInv, DepositsTypeOK, ChainKnown,
       ScanCovers, LedgerMatchesDeposits, CursorCoversRecorded, Blocks

\* A new block is above everything that was read so far.
LEMMA NewBlockKeeps ==
  ASSUME DepositAssumption, DepositsInv, NewBlock
  PROVE  DepositsInv'
<1> USE DEF DepositsInv, DepositsTypeOK, ChainKnown, tableVars, tickVars, depositBounds
<1>1. PICK mined \in SUBSET {t \in Transfers : block[t] = 0} :
        block' = [t \in Transfers |-> IF t \in mined THEN head + 1 ELSE block[t]]
  BY DEF NewBlock
<1>2. head' = head + 1 /\ head' \in 0 .. MaxHead
  BY DEF NewBlock, DepositAssumption
<1>3. UNCHANGED <<orphans, tableVars, tickVars, depositBounds>>
  BY DEF NewBlock
<1>4. block' \in [Transfers -> 0 .. MaxHead]
  BY <1>1, <1>2
<1>5. DepositsTypeOK'
  BY <1>2, <1>3, <1>4 DEF Logs, Blocks
<1>6. ChainKnown'
  BY <1>1, <1>2, <1>3
<1>7. \A t \in Transfers : block'[t] <= head => block'[t] = block[t]
  BY <1>1
<1>8. CursorCoversRecorded'
  BY <1>3, <1>4, <1>7 DEF CursorCoversRecorded
<1>9. ScanCovers'
  BY <1>3, <1>4, <1>7 DEF ScanCovers, LogOf
<1> QED BY <1>3, <1>5, <1>6, <1>8, <1>9 DEF LedgerMatchesDeposits

LEMMA ReorgKeeps ==
  ASSUME DepositAssumption, DepositsInv, NEW t \in Transfers, Reorg(t)
  PROVE  DepositsInv'
<1> USE DEF DepositsInv, DepositsTypeOK, ChainKnown, tableVars, tickVars
<1>1. PICK b \in {0} \union (block[t] + 1 .. head) : block' = [block EXCEPT ![t] = b]
  BY DEF Reorg
<1>2. b \in 0 .. head
  BY <1>1
<1>3. reorgs' = reorgs + 1 /\ reorgs' \in 0 .. MaxReorgs /\ reorgs' # 0
  BY DEF Reorg, DepositAssumption
<1>4. block[t] \in Blocks /\ orphans' = orphans \union {<<t, block[t]>>}
  BY DEF Reorg, Blocks
<1>5. UNCHANGED <<head, tableVars, tickVars, rpcFaults, watchRestarts>>
  BY DEF Reorg
<1>6. DepositsTypeOK'
  <2>1. block' \in [Transfers -> 0 .. MaxHead]
    BY <1>1, <1>2
  <2>2. orphans' \in SUBSET (Transfers \X Blocks)
    BY <1>4
  <2> QED BY <1>3, <1>5, <2>1, <2>2 DEF Logs, Blocks
<1>7. ChainKnown'
  BY <1>1, <1>2, <1>5
<1> QED BY <1>3, <1>5, <1>6, <1>7 DEF ScanCovers, CursorCoversRecorded, LedgerMatchesDeposits

-----------------------------------------------------------------------------
(* The steps of the watcher that write no row.                             *)

LEMMA StartTickKeeps ==
  ASSUME DepositAssumption, DepositsInv, StartTick
  PROVE  DepositsInv'
BY DEF StartTick, DepositsInv, DepositsTypeOK, ChainKnown, ScanCovers, LedgerMatchesDeposits,
       CursorCoversRecorded, depositChain, tableVars, depositBounds, Logs, Blocks

\* The scan finds the log of every transfer between the cursor and its end.
LEMMA ScanKeeps ==
  ASSUME DepositAssumption, DepositsInv, Scan
  PROVE  DepositsInv'
<1> USE DEF DepositsInv, DepositsTypeOK, ChainKnown, depositChain, tableVars, depositBounds
<1> DEFINE start == IF cursor > 0 THEN cursor + 1 ELSE 0
           end   == IF head < start + ScanRange - 1 THEN head ELSE start + ScanRange - 1
<1>1. /\ tick' = "record"
      /\ UNCHANGED <<depositChain, tableVars, headRead, allOk, ready, depositBounds>>
  BY DEF Scan
<1>2. start \in Nat /\ end \in Int /\ (start <= head => end \in 0 .. head)
  BY DEF DepositAssumption
<1>3. CASE start > head
  <2>1. scannedTo' = cursor /\ found' = {}
    BY <1>3 DEF Scan
  <2>2. DepositsTypeOK' /\ ChainKnown'
    BY <1>1, <2>1 DEF Logs, Blocks
  <2>3. ScanCovers'
    BY <1>1, <2>1 DEF ScanCovers, CursorCoversRecorded
  <2> QED BY <1>1, <2>2, <2>3 DEF LedgerMatchesDeposits, CursorCoversRecorded
<1>4. CASE ~(start > head)
  <2>1. /\ scannedTo' = end
        /\ found' = {l \in Logs :
             /\ l.block \in start .. end
             /\ IF l.removed THEN RemovedLogs /\ <<l.transfer, l.block>> \in orphans
                             ELSE block[l.transfer] = l.block}
    BY <1>4 DEF Scan
  <2>2. scannedTo' \in 0 .. head
    BY <1>2, <1>4, <2>1
  <2>3. found' \in SUBSET Logs
    BY <2>1
  <2>4. DepositsTypeOK' /\ ChainKnown'
    BY <1>1, <2>2, <2>3 DEF Logs, Blocks
  <2>5. ASSUME NEW t \in Transfers, reorgs = 0, block[t] \in 1 .. end
        PROVE  dep[t] # "none" \/ LogOf(t) \in found'
    <3>1. CASE block[t] <= cursor
      BY <2>5, <3>1 DEF CursorCoversRecorded
    <3>2. CASE ~(block[t] <= cursor)
      <4>1. block[t] \in start .. end
        BY <2>5, <3>2
      <4>2. LogOf(t) \in Logs
        BY <2>5, <1>2, <1>4 DEF LogOf, Logs, Blocks
      <4> QED BY <2>1, <4>1, <4>2 DEF LogOf
    <3> QED BY <3>1, <3>2
  <2>6. ScanCovers'
    BY <1>1, <2>1, <2>5 DEF ScanCovers, LogOf
  <2> QED BY <1>1, <2>4, <2>6 DEF LedgerMatchesDeposits, CursorCoversRecorded
<1> QED BY <1>3, <1>4

\* The ends of a tick, good or bad.
LEMMA ResetKeeps ==
  ASSUME DepositAssumption, DepositsInv, TickFails \/ ConfirmFails \/ EndTick
  PROVE  DepositsInv'
<1> USE DEF DepositsInv, DepositsTypeOK, ChainKnown, depositChain, tableVars, depositBounds
<1>1. ResetTick /\ UNCHANGED <<depositChain, tableVars, reorgs, watchRestarts>>
  BY DEF TickFails, ConfirmFails, EndTick
<1>2. rpcFaults' \in 0 .. MaxRpcFaults
  BY DEF TickFails, ConfirmFails, EndTick, DepositAssumption
<1>3. DepositsTypeOK' /\ ChainKnown'
  BY <1>1, <1>2 DEF ResetTick, DepositAssumption
<1> QED BY <1>1, <1>3 DEF ResetTick, ScanCovers, LedgerMatchesDeposits, CursorCoversRecorded

\* The cursor moves only when every log of the scan was recorded.
LEMMA WriteCursorKeeps ==
  ASSUME DepositAssumption, DepositsInv, WriteCursor
  PROVE  DepositsInv'
<1> USE DEF DepositsInv, DepositsTypeOK, ChainKnown, depositChain, tableVars, depositBounds
<1>1. CursorCoversRecorded'
  BY DEF WriteCursor, ScanCovers, CursorCoversRecorded
<1>2. ready' \in SUBSET Transfers /\ tick' = "confirm" /\ cursor' \in {scannedTo, cursor}
  BY DEF WriteCursor
<1>3. UNCHANGED <<depositChain, dep, depBlock, confirmedAt, credit, headRead, scannedTo,
                  found, allOk, depositBounds>>
  BY DEF WriteCursor
<1>4. DepositsTypeOK' /\ ChainKnown'
  BY <1>2, <1>3 DEF Logs, Blocks
<1> QED BY <1>1, <1>2, <1>3, <1>4 DEF ScanCovers, LedgerMatchesDeposits

-----------------------------------------------------------------------------
(* The steps that write a row.                                             *)

\* A log that was recorded is no longer needed to cover its transfer.
LEMMA RecordPendingKeeps ==
  ASSUME DepositAssumption, DepositsInv, NEW l \in found, RecordPending(l)
  PROVE  DepositsInv'
<1> USE DEF DepositsInv, DepositsTypeOK, ChainKnown, depositChain, depositBounds
<1> DEFINE t == l.transfer
<1>1. l \in Logs /\ t \in Transfers /\ l.block \in 0 .. MaxHead
  BY DEF Logs, Blocks
<1>2. /\ dep' = [dep EXCEPT ![t] = IF @ \in {"none", "reverted"} THEN "pending" ELSE @]
      /\ depBlock' = [depBlock EXCEPT ![t] = IF dep[t] = "none" THEN l.block ELSE @]
      /\ found' = found \ {l}
      /\ UNCHANGED <<depositChain, confirmedAt, credit, cursor, tick, headRead, scannedTo,
                     allOk, ready, depositBounds>>
  BY DEF RecordPending
<1>3. dep' \in [Transfers -> {"none", "pending", "confirmed", "reverted"}]
  BY <1>1, <1>2
<1>4. DepositsTypeOK' /\ ChainKnown'
  BY <1>1, <1>2, <1>3 DEF Logs, Blocks
<1>5. /\ dep'[t] # "none"
      /\ \A u \in Transfers : /\ dep[u] # "none" => dep'[u] # "none"
                              /\ dep'[u] = "confirmed" <=> dep[u] = "confirmed"
  BY <1>1, <1>2
<1>6. ScanCovers'
  BY <1>2, <1>5 DEF ScanCovers, LogOf
<1> QED BY <1>2, <1>4, <1>5, <1>6 DEF LedgerMatchesDeposits, CursorCoversRecorded

\* A removed log takes back exactly the credit that a confirmed row has.
LEMMA RevertDepositKeeps ==
  ASSUME DepositAssumption, DepositsInv, NEW l \in found, RevertDeposit(l)
  PROVE  DepositsInv'
<1> USE DEF DepositsInv, DepositsTypeOK, ChainKnown, depositChain, depositBounds
<1> DEFINE t == l.transfer
<1>1. l \in Logs /\ t \in Transfers /\ l.removed
  BY DEF Logs, RevertDeposit
<1>2. /\ dep' = [dep EXCEPT ![t] = IF @ = "none" THEN "none" ELSE "reverted"]
      /\ credit' = [credit EXCEPT ![t] = IF dep[t] = "confirmed" THEN @ - 1 ELSE @]
      /\ found' = found \ {l}
      /\ UNCHANGED <<depositChain, depBlock, confirmedAt, cursor, tick, headRead, scannedTo,
                     allOk, ready, depositBounds>>
  BY DEF RevertDeposit
<1>3. DepositsTypeOK' /\ ChainKnown'
  BY <1>1, <1>2 DEF Logs, Blocks
<1>4. \A u \in Transfers : dep[u] # "none" => dep'[u] # "none"
  BY <1>1, <1>2
<1>5. LedgerMatchesDeposits'
  BY <1>1, <1>2 DEF LedgerMatchesDeposits
<1>6. \A u \in Transfers : LogOf(u) \in found => LogOf(u) \in found'
  BY <1>1, <1>2 DEF LogOf
<1>7. ScanCovers'
  BY <1>2, <1>4, <1>6 DEF ScanCovers, LogOf
<1> QED BY <1>2, <1>3, <1>4, <1>5, <1>7 DEF CursorCoversRecorded

LEMMA RecordFailsKeeps ==
  ASSUME DepositAssumption, DepositsInv, NEW l \in found, RecordFails(l)
  PROVE  DepositsInv'
<1> USE DEF DepositsInv, DepositsTypeOK, ChainKnown, depositChain, tableVars
<1>1. rpcFaults' \in 0 .. MaxRpcFaults /\ found' = found \ {l}
  BY DEF RecordFails, DepositAssumption
<1>2. /\ allOk' = FALSE
      /\ UNCHANGED <<depositChain, tableVars, tick, headRead, scannedTo, ready, reorgs,
                     watchRestarts>>
  BY DEF RecordFails
<1>3. DepositsTypeOK' /\ ChainKnown'
  BY <1>1, <1>2 DEF Logs, Blocks
<1>4. ScanCovers'
  BY <1>2 DEF ScanCovers
<1> QED BY <1>2, <1>3, <1>4 DEF LedgerMatchesDeposits, CursorCoversRecorded

\* A pending row has no credit yet, and gets one.
LEMMA ConfirmKeeps ==
  ASSUME DepositAssumption, DepositsInv, NEW t \in ready, Confirm(t)
  PROVE  DepositsInv'
<1> USE DEF DepositsInv, DepositsTypeOK, ChainKnown, depositChain, depositBounds
<1>1. t \in Transfers
  OBVIOUS
<1>2. /\ tick = "confirm" /\ ready' = ready \ {t}
      /\ UNCHANGED <<depositChain, depBlock, cursor, tick, headRead, scannedTo, found, allOk,
                     depositBounds>>
  BY DEF Confirm
<1>3. CASE dep[t] = "pending"
  <2>1. /\ dep' = [dep EXCEPT ![t] = "confirmed"]
        /\ confirmedAt' = [confirmedAt EXCEPT ![t] = TRUE]
        /\ credit' = [credit EXCEPT ![t] = @ + 1]
    BY <1>3 DEF Confirm
  <2>2. DepositsTypeOK' /\ ChainKnown'
    BY <1>1, <1>2, <2>1 DEF Logs, Blocks
  <2>3. LedgerMatchesDeposits'
    BY <1>1, <1>2, <1>3, <2>1 DEF LedgerMatchesDeposits
  <2> QED BY <1>1, <1>2, <2>1, <2>2, <2>3 DEF ScanCovers, CursorCoversRecorded
<1>4. CASE dep[t] # "pending"
  BY <1>1, <1>2, <1>4 DEF Confirm, ScanCovers, LedgerMatchesDeposits, CursorCoversRecorded,
     Logs, Blocks
<1> QED BY <1>3, <1>4

\* A restart may confirm rows that were never credited; it credits none.
LEMMA WatchRestartsKeeps ==
  ASSUME DepositAssumption, DepositsInv, WatchRestarts
  PROVE  DepositsInv'
<1> USE DEF DepositsInv, DepositsTypeOK, ChainKnown, depositChain
<1>1. /\ watchRestarts' = watchRestarts + 1 /\ watchRestarts' \in 0 .. MaxWatchRestarts
      /\ ResetTick
      /\ dep' = [t \in Transfers |->
                   IF dep[t] = "pending" /\ confirmedAt[t] THEN "confirmed" ELSE dep[t]]
      /\ UNCHANGED <<depositChain, depBlock, confirmedAt, credit, cursor, reorgs, rpcFaults>>
  BY DEF WatchRestarts, DepositAssumption
<1>2. dep' \in [Transfers -> {"none", "pending", "confirmed", "reverted"}]
  BY <1>1
<1>3. DepositsTypeOK' /\ ChainKnown'
  BY <1>1, <1>2 DEF ResetTick, DepositAssumption
<1>4. LedgerMatchesDeposits'
  BY <1>1 DEF LedgerMatchesDeposits
<1> QED BY <1>1, <1>3, <1>4 DEF ResetTick, ScanCovers, CursorCoversRecorded

-----------------------------------------------------------------------------

LEMMA DepositsStepKeeps ==
  ASSUME DepositAssumption, DepositsInv, [DepositsNext]_depositVars
  PROVE  DepositsInv'
<1>1. CASE DepositsNext
  <2>1. CASE WatchStep
    BY <2>1, StartTickKeeps, ScanKeeps, ResetKeeps, RecordPendingKeeps, RevertDepositKeeps,
       RecordFailsKeeps, WriteCursorKeeps, ConfirmKeeps DEF WatchStep
  <2> QED BY <1>1, <2>1, NewBlockKeeps, ReorgKeeps, WatchRestartsKeeps DEF DepositsNext
<1>2. CASE UNCHANGED depositVars
  BY <1>2 DEF depositVars, depositChain, tableVars, tickVars, depositBounds, DepositsInv,
     DepositsTypeOK, ChainKnown, ScanCovers, LogOf, LedgerMatchesDeposits,
     CursorCoversRecorded, Logs, Blocks
<1> QED BY <1>1, <1>2

\* scheduler.watch_deposits and the chain: the types of the rows and of a tick.
THEOREM DepositsTyped ==
  ASSUME DepositAssumption
  PROVE  DepositsSpec => []DepositsTypeOK
<1>1. DepositsInit => DepositsInv
  BY DepositsInitHolds
<1>2. DepositsInv /\ [DepositsNext]_depositVars => DepositsInv'
  BY DepositsStepKeeps
<1>3. DepositsInv => DepositsTypeOK
  BY DEF DepositsInv
<1> QED BY <1>1, <1>2, <1>3, PTL DEF DepositsSpec

\* scheduler.py:161, :256, :298, :343: for every set of transfers, depth and scan
\* range, and however many statements fail, no transfer is credited twice, none keeps
\* the credit of a row that is not confirmed, and without a reorganisation none below
\* the cursor is forgotten.
THEOREM DepositsAreBooked ==
  ASSUME DepositAssumption
  PROVE  DepositsSpec => []DepositsBooked
<1>1. DepositsInit => DepositsInv
  BY DepositsInitHolds
<1>2. DepositsInv /\ [DepositsNext]_depositVars => DepositsInv'
  BY DepositsStepKeeps
<1>3. DepositsInv => DepositsBooked
  BY DEF DepositsInv, DepositsBooked
<1> QED BY <1>1, <1>2, <1>3, PTL DEF DepositsSpec

-----------------------------------------------------------------------------
(* Withdrawals.  Where the task of a request stands tells what its row, its*)
(* ledger and its transfer look like.                                      *)

Sending == {"check", "mark", "preflight", "broadcast", "refund"}

\* The row of request r, its ledger, its transfer and its task fit together.
Consistent(r) ==
  /\ status[r] = "none" => ledger[r] = 0 /\ tx[r] = "none" /\ ~txHash[r]
                           /\ pc[r] \in {"idle", "asked", "insert"}
  /\ status[r] = "pending" => ledger[r] = -1 /\ tx[r] = "none" /\ ~txHash[r] /\ pc[r] = "idle"
  /\ status[r] = "approved" => ledger[r] = -1 /\ tx[r] = "none" /\ ~txHash[r]
                               /\ pc[r] \in {"idle", "check", "mark", "fail"}
  /\ status[r] = "processing" => ledger[r] = -1 /\ ~txHash[r]
       /\ pc[r] \in {"idle", "preflight", "broadcast", "wait", "record", "refund", "fail"}
  /\ status[r] = "rejected" => ledger[r] = 0 /\ tx[r] = "none" /\ pc[r] = "idle"
  /\ status[r] = "completed" => ledger[r] = -1 /\ tx[r] = "mined" /\ txHash[r] /\ pc[r] = "idle"
  /\ status[r] = "failed" => (ledger[r] = 0 => tx[r] = "none") /\ pc[r] = "idle"
  /\ pc[r] \in Sending => tx[r] = "none"
  /\ pc[r] = "record" => tx[r] = "mined"
  /\ paid[r] = IF tx[r] = "mined" THEN 1 ELSE 0

AllConsistent == \A r \in Requests : Consistent(r)

\* While the bot polls, the request between the look at the balance and the debit is
\* the one it is busy with, and the balance it saw is still there.
BotAlone ==
  polling => \A r \in Requests \ Web : pc[r] \in {"asked", "insert"} => bot = r

StillCovered ==
  polling /\ (\A r \in Web : status[r] = "none") =>
    /\ balance >= 0
    /\ \A r \in Requests \ Web : pc[r] \in {"asked", "insert"} => balance >= 1

\* The inductive invariant of the withdrawals.
WithdrawalsInv == TypeOK /\ AllConsistent /\ BotAlone /\ StillCovered

LEMMA WithdrawalsInitHolds ==
  ASSUME WithdrawalAssumption, Init
  PROVE  WithdrawalsInv
BY DEF WithdrawalAssumption, Init, WithdrawalsInv, TypeOK, Modes, AllConsistent, Consistent,
       Sending, BotAlone, StillCovered

-----------------------------------------------------------------------------
(* One step of one request.                                                *)

\* What the other requests see of a step of r: their own data is as it was.
Others(r) ==
  \A s \in Requests \ {r} :
    /\ status'[s] = status[s] /\ txHash'[s] = txHash[s] /\ ledger'[s] = ledger[s]
    /\ tx'[s] = tx[s] /\ paid'[s] = paid[s] /\ pc'[s] = pc[s]

LEMMA OthersStay ==
  ASSUME AllConsistent, NEW r \in Requests, Others(r), Consistent(r)'
  PROVE  AllConsistent'
BY DEF AllConsistent, Consistent, Others, Sending

\* A step of r that asks nothing new of the balance leaves the two facts about
\* Telegram as they are.
LEMMA TelegramStays ==
  ASSUME BotAlone, StillCovered, balance \in Int, NEW r \in Requests, Others(r),
         UNCHANGED polling, balance' \in Int, balance' >= balance,
         status[r] # "none" => status'[r] # "none",
         pc'[r] \in {"asked", "insert"} => pc[r] \in {"asked", "insert"},
         bot # r => bot' = bot,
         bot = r => bot' = r \/ pc'[r] \notin {"asked", "insert"}
  PROVE  BotAlone' /\ StillCovered'
<1>1. BotAlone'
  BY DEF BotAlone, Others
<1>2. StillCovered'
  <2> SUFFICES ASSUME polling, \A s \in Web : status'[s] = "none"
               PROVE  /\ balance' >= 0
                      /\ \A s \in Requests \ Web : pc'[s] \in {"asked", "insert"} => balance' >= 1
    BY DEF StillCovered
  <2>1. \A s \in Web : status[s] = "none"
    BY WithdrawalAssumption DEF WithdrawalAssumption, Others
  <2> QED BY <2>1 DEF StillCovered, Others
<1> QED BY <1>1, <1>2

\* What a step of r has to keep: the types, its own data, and nobody else's.
Keeps(r) == TypeOK' /\ Others(r) /\ Consistent(r)'

\* The steps of a task, from the request to its end.
LEMMA TaskKeeps ==
  ASSUME WithdrawalAssumption, TypeOK, AllConsistent, NEW r \in Requests, TaskStep(r)
  PROVE  Keeps(r)
<1> USE DEF TypeOK, Modes, rowVars, chainVars, confVars, boundVars, Go, Debit, Credit
<1>0. Consistent(r)
  BY DEF AllConsistent
<1>1. CASE ReadMode(r)
  <2>1. TypeOK'
    BY <1>0, <1>1 DEF ReadMode, Consistent, WithdrawalAssumption
  <2>2. Others(r)
    BY <1>1 DEF ReadMode, Others
  <2>3. Consistent(r)'
    BY <1>0, <1>1 DEF ReadMode, Consistent, Sending
  <2> QED BY <2>1, <2>2, <2>3 DEF Keeps
<1>2. CASE InsertRequest(r)
  <2>1. TypeOK'
    BY <1>0, <1>2 DEF InsertRequest, Consistent, WithdrawalAssumption
  <2>2. Others(r)
    BY <1>2 DEF InsertRequest, Others
  <2>3. Consistent(r)'
    BY <1>0, <1>2 DEF InsertRequest, Consistent, Sending
  <2> QED BY <2>1, <2>2, <2>3 DEF Keeps
<1>3. CASE CheckSent(r)
  <2>1. TypeOK'
    BY <1>0, <1>3 DEF CheckSent, Consistent, WithdrawalAssumption
  <2>2. Others(r)
    BY <1>3 DEF CheckSent, Others
  <2>3. Consistent(r)'
    BY <1>0, <1>3 DEF CheckSent, Consistent, Sending
  <2> QED BY <2>1, <2>2, <2>3 DEF Keeps
<1>4. CASE MarkProcessing(r)
  <2>1. TypeOK'
    BY <1>0, <1>4 DEF MarkProcessing, Consistent, WithdrawalAssumption
  <2>2. Others(r)
    BY <1>4 DEF MarkProcessing, Others
  <2>3. Consistent(r)'
    BY <1>0, <1>4 DEF MarkProcessing, Consistent, Sending
  <2> QED BY <2>1, <2>2, <2>3 DEF Keeps
<1>5. CASE Preflight(r)
  <2>1. TypeOK'
    BY <1>0, <1>5 DEF Preflight, Consistent, WithdrawalAssumption
  <2>2. Others(r)
    BY <1>5 DEF Preflight, Others
  <2>3. Consistent(r)'
    BY <1>0, <1>5 DEF Preflight, Consistent, Sending
  <2> QED BY <2>1, <2>2, <2>3 DEF Keeps
<1>6. CASE Broadcast(r)
  <2>1. TypeOK'
    BY <1>0, <1>6 DEF Broadcast, Consistent, WithdrawalAssumption
  <2>2. Others(r)
    BY <1>6 DEF Broadcast, Others
  <2>3. Consistent(r)'
    BY <1>0, <1>6 DEF Broadcast, Consistent, Sending
  <2> QED BY <2>1, <2>2, <2>3 DEF Keeps
<1>7. CASE Receipt(r)
  <2>1. TypeOK'
    BY <1>0, <1>7 DEF Receipt, Consistent, WithdrawalAssumption
  <2>2. Others(r)
    BY <1>7 DEF Receipt, Others
  <2>3. Consistent(r)'
    BY <1>0, <1>7 DEF Receipt, Consistent, Sending
  <2> QED BY <2>1, <2>2, <2>3 DEF Keeps
<1>8. CASE NoReceipt(r)
  <2>1. TypeOK'
    BY <1>0, <1>8 DEF NoReceipt, Consistent, WithdrawalAssumption
  <2>2. Others(r)
    BY <1>8 DEF NoReceipt, Others
  <2>3. Consistent(r)'
    BY <1>0, <1>8 DEF NoReceipt, Consistent, Sending
  <2> QED BY <2>1, <2>2, <2>3 DEF Keeps
<1>9. CASE Record(r)
  <2>1. TypeOK'
    BY <1>0, <1>9 DEF Record, Consistent, WithdrawalAssumption
  <2>2. Others(r)
    BY <1>9 DEF Record, Others
  <2>3. Consistent(r)'
    BY <1>0, <1>9 DEF Record, Consistent, Sending
  <2> QED BY <2>1, <2>2, <2>3 DEF Keeps
<1>10. CASE TransferRaises(r)
  <2>1. TypeOK'
    BY <1>0, <1>10 DEF TransferRaises, Consistent, WithdrawalAssumption
  <2>2. Others(r)
    BY <1>10 DEF TransferRaises, Others
  <2>3. Consistent(r)'
    BY <1>0, <1>10 DEF TransferRaises, Consistent, Sending
  <2> QED BY <2>1, <2>2, <2>3 DEF Keeps
<1>11. CASE Refund(r)
  <2>1. TypeOK'
    BY <1>0, <1>11 DEF Refund, Consistent, WithdrawalAssumption, Unsettled
  <2>2. Others(r)
    BY <1>11 DEF Refund, Others, Unsettled
  <2>3. Consistent(r)'
    BY <1>0, <1>11 DEF Refund, Consistent, Sending, Unsettled
  <2> QED BY <2>1, <2>2, <2>3 DEF Keeps
<1>12. CASE Fail(r)
  <2>1. TypeOK'
    BY <1>0, <1>12 DEF Fail, Consistent, WithdrawalAssumption, Unsettled
  <2>2. Others(r)
    BY <1>12 DEF Fail, Others, Unsettled
  <2>3. Consistent(r)'
    BY <1>0, <1>12 DEF Fail, Consistent, Sending, Unsettled
  <2> QED BY <2>1, <2>2, <2>3 DEF Keeps
<1>13. CASE StatementLost(r)
  <2>1. TypeOK'
    BY <1>0, <1>13 DEF StatementLost, Consistent, WithdrawalAssumption
  <2>2. Others(r)
    BY <1>13 DEF StatementLost, Others
  <2>3. Consistent(r)'
    BY <1>0, <1>13 DEF StatementLost, Consistent, Sending
  <2> QED BY <2>1, <2>2, <2>3 DEF Keeps
<1> QED BY <1>1, <1>2, <1>3, <1>4, <1>5, <1>6, <1>7, <1>8, <1>9, <1>10, <1>11, <1>12, <1>13 DEF TaskStep

\* The users, the operator and the chain.
LEMMA OpenKeeps ==
  ASSUME WithdrawalAssumption, TypeOK, AllConsistent, NEW r \in Requests,
         WebRequest(r) \/ TelegramConfirm(r) \/ Approve(r) \/ Reject(r) \/ Mine(r)
  PROVE  Keeps(r)
<1> USE DEF TypeOK, Modes, rowVars, chainVars, taskVars, confVars, boundVars, Go, Handled, Credit
<1>0. Consistent(r)
  BY DEF AllConsistent
<1>1. CASE WebRequest(r)
  <2>1. TypeOK'
    BY <1>0, <1>1 DEF WebRequest, Consistent, WithdrawalAssumption
  <2>2. Others(r)
    BY <1>1 DEF WebRequest, Others
  <2>3. Consistent(r)'
    BY <1>0, <1>1 DEF WebRequest, Consistent, Sending
  <2> QED BY <2>1, <2>2, <2>3 DEF Keeps
<1>2. CASE TelegramConfirm(r)
  <2>1. TypeOK'
    BY <1>0, <1>2 DEF TelegramConfirm, Consistent, WithdrawalAssumption
  <2>2. Others(r)
    BY <1>2 DEF TelegramConfirm, Others
  <2>3. Consistent(r)'
    BY <1>0, <1>2 DEF TelegramConfirm, Consistent, Sending
  <2> QED BY <2>1, <2>2, <2>3 DEF Keeps
<1>3. CASE Approve(r)
  <2>1. TypeOK'
    BY <1>0, <1>3 DEF Approve, Consistent, WithdrawalAssumption
  <2>2. Others(r)
    BY <1>3 DEF Approve, Others
  <2>3. Consistent(r)'
    BY <1>0, <1>3 DEF Approve, Consistent, Sending
  <2> QED BY <2>1, <2>2, <2>3 DEF Keeps
<1>4. CASE Reject(r)
  <2>1. TypeOK'
    BY <1>0, <1>4 DEF Reject, Consistent, WithdrawalAssumption
  <2>2. Others(r)
    BY <1>4 DEF Reject, Others
  <2>3. Consistent(r)'
    BY <1>0, <1>4 DEF Reject, Consistent, Sending
  <2> QED BY <2>1, <2>2, <2>3 DEF Keeps
<1>5. CASE Mine(r)
  <2>1. TypeOK'
    BY <1>0, <1>5 DEF Mine, Consistent, WithdrawalAssumption
  <2>2. Others(r)
    BY <1>5 DEF Mine, Others
  <2>3. Consistent(r)'
    BY <1>0, <1>5 DEF Mine, Consistent, Sending
  <2> QED BY <2>1, <2>2, <2>3 DEF Keeps
<1> QED BY <1>1, <1>2, <1>3, <1>4, <1>5

\* A task that debits is the one that has seen the balance.
LEMMA TaskTelegram ==
  ASSUME WithdrawalAssumption, WithdrawalsInv, NEW r \in Requests, TaskStep(r), Keeps(r)
  PROVE  BotAlone' /\ StillCovered'
<1> USE DEF WithdrawalsInv, TypeOK, Go, rowVars, chainVars, confVars, boundVars
<1>1. CASE InsertRequest(r)
  <2>1. BotAlone'
    BY <1>1 DEF InsertRequest, BotAlone, Keeps, Others
  <2>2. /\ balance' = balance - 1 /\ status'[r] # "none" /\ pc[r] = "insert"
        /\ pc'[r] \notin {"asked", "insert"} /\ UNCHANGED polling
    BY <1>1 DEF InsertRequest, Debit
  <2>3. StillCovered'
    <3> SUFFICES ASSUME polling, \A s \in Web : status'[s] = "none"
                 PROVE  /\ balance' >= 0
                        /\ \A s \in Requests \ Web :
                             pc'[s] \in {"asked", "insert"} => balance' >= 1
      BY <2>2 DEF StillCovered
    <3>1. r \in Requests \ Web /\ \A s \in Web : status[s] = "none"
      BY <2>2 DEF WithdrawalAssumption, Keeps, Others
    <3>2. balance >= 1
      BY <2>2, <3>1 DEF StillCovered
    <3>3. \A s \in Requests \ Web : pc'[s] \notin {"asked", "insert"}
      BY <2>2, <3>1 DEF BotAlone, Keeps, Others
    <3> QED BY <2>2, <3>2, <3>3
  <2> QED BY <2>1, <2>3
<1>2. CASE ~InsertRequest(r)
  <2>1. /\ bot # r => bot' = bot
        /\ bot = r => bot' = r \/ pc'[r] \notin {"asked", "insert"}
        /\ pc'[r] \in {"asked", "insert"} => pc[r] \in {"asked", "insert"}
        /\ UNCHANGED polling
    BY <1>2 DEF TaskStep, ReadMode, CheckSent, MarkProcessing, Preflight, Broadcast, Receipt,
       NoReceipt, Record, TransferRaises, Refund, Fail, StatementLost
  <2>2. balance' \in Int /\ balance' >= balance
    BY <1>2 DEF TaskStep, ReadMode, CheckSent, MarkProcessing, Preflight, Broadcast, Receipt,
       NoReceipt, Record, TransferRaises, Refund, Fail, StatementLost, Credit
  <2>3. status[r] # "none" => status'[r] # "none"
    BY <1>2 DEF TaskStep, ReadMode, CheckSent, MarkProcessing, Preflight, Broadcast, Receipt,
       NoReceipt, Record, TransferRaises, Refund, Fail, StatementLost
  <2> QED BY <2>1, <2>2, <2>3, TelegramStays DEF Keeps
<1> QED BY <1>1, <1>2

\* Only a request that found the bot free and the balance positive is let in.
LEMMA OpenTelegram ==
  ASSUME WithdrawalAssumption, WithdrawalsInv, NEW r \in Requests, Keeps(r),
         WebRequest(r) \/ TelegramConfirm(r) \/ Approve(r) \/ Reject(r) \/ Mine(r)
  PROVE  BotAlone' /\ StillCovered'
<1> USE DEF WithdrawalsInv, TypeOK, rowVars, chainVars, taskVars, confVars, boundVars
<1>1. CASE WebRequest(r)
  BY <1>1 DEF WebRequest, Go, BotAlone, StillCovered, Keeps, Others, WithdrawalAssumption
<1>2. CASE TelegramConfirm(r)
  <2>1. BotAlone'
    BY <1>2 DEF TelegramConfirm, Handled, BotAlone, Keeps, Others, WithdrawalAssumption
  <2>2. StillCovered'
    BY <1>2 DEF TelegramConfirm, StillCovered, Keeps, Others
  <2> QED BY <2>1, <2>2
<1>3. CASE Approve(r) \/ Reject(r) \/ Mine(r)
  <2>1. /\ bot = NoRequest \/ bot' = bot
        /\ pc'[r] \in {"asked", "insert"} => pc[r] \in {"asked", "insert"}
        /\ UNCHANGED polling /\ balance' \in Int /\ balance' >= balance
        /\ status[r] # "none" => status'[r] # "none"
    BY <1>3 DEF Approve, Reject, Mine, Credit
  <2>2. CASE bot # NoRequest
    BY <1>3, <2>1, <2>2, TelegramStays DEF Keeps
  <2>3. CASE bot = NoRequest
    <3>1. polling => \A s \in Requests \ Web : pc[s] \notin {"asked", "insert"}
      BY <2>3 DEF BotAlone, WithdrawalAssumption
    <3>2. polling' => \A s \in Requests \ Web : pc'[s] \notin {"asked", "insert"}
      BY <2>1, <3>1 DEF Keeps, Others
    <3>3. (\A s \in Web : status'[s] = "none") => \A s \in Web : status[s] = "none"
      BY <2>1 DEF Keeps, Others, WithdrawalAssumption
    <3> QED BY <2>1, <3>2, <3>3 DEF BotAlone, StillCovered
  <2> QED BY <2>2, <2>3
<1> QED BY <1>1, <1>2, <1>3

\* The approval mode, and a new process.
LEMMA ProcessKeeps ==
  ASSUME WithdrawalAssumption, WithdrawalsInv, Restart \/ \E m \in Modes : SetMode(m)
  PROVE  WithdrawalsInv'
<1> USE DEF WithdrawalsInv, TypeOK, Modes, rowVars, chainVars, taskVars, boundVars
<1>1. CASE Restart
  <2>1. TypeOK'
    <3>1. live' \in BOOLEAN
      BY <1>1, Zenon DEF Restart
    <3>2. /\ restarts' \in 0 .. MaxRestarts
          /\ pc' = [r \in Requests |-> "idle"] /\ bot' = NoRequest
          /\ UNCHANGED <<polling, mode, rowVars, chainVars, readMode, faults>>
      BY <1>1 DEF Restart, WithdrawalAssumption
    <3> QED BY <3>1, <3>2
  <2>2. AllConsistent'
    BY <1>1 DEF Restart, AllConsistent, Consistent, Sending
  <2>3. BotAlone' /\ StillCovered'
    BY <1>1 DEF Restart, BotAlone, StillCovered
  <2> QED BY <2>1, <2>2, <2>3
<1>2. ASSUME NEW m \in Modes, SetMode(m)
      PROVE  WithdrawalsInv'
  BY <1>2 DEF SetMode, AllConsistent, Consistent, Sending, BotAlone, StillCovered
<1> QED BY <1>1, <1>2

LEMMA WithdrawalsStepKeeps ==
  ASSUME WithdrawalAssumption, WithdrawalsInv, [Next]_vars
  PROVE  WithdrawalsInv'
<1>1. ASSUME NEW r \in Requests, TaskStep(r)
      PROVE  WithdrawalsInv'
  <2>1. Keeps(r)
    BY <1>1, TaskKeeps DEF WithdrawalsInv
  <2>2. BotAlone' /\ StillCovered'
    BY <1>1, <2>1, TaskTelegram
  <2> QED BY <2>1, <2>2, OthersStay DEF WithdrawalsInv, Keeps
<1>2. ASSUME NEW r \in Requests,
             WebRequest(r) \/ TelegramConfirm(r) \/ Approve(r) \/ Reject(r) \/ Mine(r)
      PROVE  WithdrawalsInv'
  <2>1. Keeps(r)
    BY <1>2, OpenKeeps DEF WithdrawalsInv
  <2>2. BotAlone' /\ StillCovered'
    BY <1>2, <2>1, OpenTelegram
  <2> QED BY <2>1, <2>2, OthersStay DEF WithdrawalsInv, Keeps
<1>3. CASE UNCHANGED vars
  BY <1>3 DEF vars, rowVars, chainVars, taskVars, confVars, boundVars, WithdrawalsInv, TypeOK,
     AllConsistent, Consistent, BotAlone, StillCovered
<1> QED BY <1>1, <1>2, <1>3, ProcessKeeps DEF Next

\* wallet/withdrawals.py: the types of a request's row, transfer and task.
THEOREM WithdrawalsTyped ==
  ASSUME WithdrawalAssumption
  PROVE  Spec => []TypeOK
<1>1. Init => WithdrawalsInv
  BY WithdrawalsInitHolds
<1>2. WithdrawalsInv /\ [Next]_vars => WithdrawalsInv'
  BY WithdrawalsStepKeeps
<1>3. WithdrawalsInv => TypeOK
  BY DEF WithdrawalsInv
<1> QED BY <1>1, <1>2, <1>3, PTL DEF Spec

\* wallet/withdrawals.py:178-316: for every set of requests, however the web, the bot,
\* the operator and restarts interleave, no request is both paid and given back, none
\* is paid twice or before its approval, and a completed one was paid.
THEOREM NoPayAndRefund ==
  ASSUME WithdrawalAssumption
  PROVE  Spec => []PaidOrRefunded
<1>1. Init => WithdrawalsInv
  BY WithdrawalsInitHolds
<1>2. WithdrawalsInv /\ [Next]_vars => WithdrawalsInv'
  BY WithdrawalsStepKeeps
<1>3. WithdrawalsInv => PaidOrRefunded
  <2> SUFFICES ASSUME TypeOK, NEW r \in Requests, Consistent(r)
               PROVE  /\ status[r] # "none" /\ ledger[r] = 0 =>
                           tx[r] = "none" /\ status[r] \in {"rejected", "failed"}
                      /\ paid[r] <= 1
                      /\ tx[r] # "none" =>
                           ledger[r] = -1 /\ status[r] \in {"processing", "completed", "failed"}
                      /\ status[r] = "completed" => tx[r] = "mined" /\ txHash[r]
    BY DEF WithdrawalsInv, AllConsistent, PaidOrRefunded, RefundedIsUnpaid, PaidOnceApproved,
       CompletedIsPaid
  <2> QED BY DEF TypeOK, Consistent
<1> QED BY <1>1, <1>2, <1>3, PTL DEF Spec

\* bot/handlers/wallet.py:290-300: for every balance and every number of requests, a
\* user of the polled bot alone never withdraws more than the balance.
THEOREM TelegramIsCovered ==
  ASSUME WithdrawalAssumption
  PROVE  Spec => []TelegramNeverOverdraws
<1>1. Init => WithdrawalsInv
  BY WithdrawalsInitHolds
<1>2. WithdrawalsInv /\ [Next]_vars => WithdrawalsInv'
  BY WithdrawalsStepKeeps
<1>3. WithdrawalsInv => TelegramNeverOverdraws
  BY DEF WithdrawalsInv, StillCovered, TelegramNeverOverdraws
<1> QED BY <1>1, <1>2, <1>3, PTL DEF Spec

-----------------------------------------------------------------------------
(* The withdrawals implement the request book.                             *)

\* What a step of request r is to its user.
Stays(r)    == PhaseOf(r)' = PhaseOf(r) /\ balance' = balance /\ paid'[r] = paid[r]
Asked(r)    == /\ PhaseOf(r) = "none" /\ PhaseOf(r)' \in {"pending", "approved"}
               /\ balance' = balance - 1 /\ paid'[r] = paid[r]
Approved(r) == /\ PhaseOf(r) = "pending" /\ PhaseOf(r)' = "approved"
               /\ balance' = balance /\ paid'[r] = paid[r]
Returned(r) == /\ PhaseOf(r) \in {"pending", "approved"} /\ PhaseOf(r)' = "returned"
               /\ balance' = balance + 1 /\ paid'[r] = paid[r]
Paid(r)     == /\ PhaseOf(r) = "approved" /\ PhaseOf(r)' = "paid"
               /\ balance' = balance /\ paid'[r] = paid[r] + 1
Recorded(r) == /\ PhaseOf(r) = "paid" /\ PhaseOf(r)' = "recorded"
               /\ balance' = balance /\ paid'[r] = paid[r]
Moves(r)    == Stays(r) \/ Asked(r) \/ Approved(r) \/ Returned(r) \/ Paid(r) \/ Recorded(r)

\* Such a step of one request, while the others stay, is a step of the book.
LEMMA MovesAreBooked ==
  ASSUME TypeOK, TypeOK', NEW r \in Requests, Others(r), Moves(r)
  PROVE  [Promise!Next]_(Promise!bookVars)
<1>1. requestPhase' = [requestPhase EXCEPT ![r] = PhaseOf(r)']
  <2>1. \A s \in Requests \ {r} : PhaseOf(s)' = PhaseOf(s)
    BY DEF Others, PhaseOf
  <2> QED BY <2>1 DEF requestPhase
<1>2. requestPhase[r] = PhaseOf(r)
  BY DEF requestPhase
<1>3. paid' = [paid EXCEPT ![r] = paid'[r]]
  BY DEF TypeOK, Others
<1>4. CASE Stays(r)
  <2>1. requestPhase' = requestPhase
    BY <1>1, <1>2, <1>4 DEF Stays, requestPhase
  <2>2. paid' = paid
    BY <1>3, <1>4 DEF Stays, TypeOK
  <2> QED BY <2>1, <2>2, <1>4 DEF Stays, Promise!bookVars
<1>5. CASE Asked(r)
  <2>1. paid' = paid
    BY <1>3, <1>5 DEF Asked, TypeOK
  <2>2. Promise!Ask(r)
    BY <1>1, <1>2, <1>5, <2>1 DEF Asked, Promise!Ask, Promise!Move
  <2> QED BY <2>2 DEF Promise!Next
<1>6. CASE Approved(r)
  <2>1. paid' = paid
    BY <1>3, <1>6 DEF Approved, TypeOK
  <2>2. Promise!Approve(r)
    BY <1>1, <1>2, <1>6, <2>1 DEF Approved, Promise!Approve, Promise!Move
  <2> QED BY <2>2 DEF Promise!Next
<1>7. CASE Returned(r)
  <2>1. paid' = paid
    BY <1>3, <1>7 DEF Returned, TypeOK
  <2>2. Promise!Return(r)
    BY <1>1, <1>2, <1>7, <2>1 DEF Returned, Promise!Return, Promise!Move
  <2> QED BY <2>2 DEF Promise!Next
<1>8. CASE Paid(r)
  <2>1. Promise!Pay(r)
    BY <1>1, <1>2, <1>3, <1>8 DEF Paid, Promise!Pay, Promise!Move
  <2> QED BY <2>1 DEF Promise!Next
<1>9. CASE Recorded(r)
  <2>1. paid' = paid
    BY <1>3, <1>9 DEF Recorded, TypeOK
  <2>2. Promise!Record(r)
    BY <1>1, <1>2, <1>9, <2>1 DEF Recorded, Promise!Record, Promise!Move
  <2> QED BY <2>2 DEF Promise!Next
<1> QED BY <1>4, <1>5, <1>6, <1>7, <1>8, <1>9 DEF Moves

\* The task asks, gives back and records; its other steps are nothing to the user.
LEMMA TaskMoves ==
  ASSUME TypeOK, NEW r \in Requests, Consistent(r), TaskStep(r)
  PROVE  Moves(r)
<1> USE DEF TypeOK, Modes, rowVars, chainVars, Go
<1>1. CASE InsertRequest(r)
  <2>1. Asked(r)
    BY <1>1 DEF InsertRequest, Debit, Asked, PhaseOf, Consistent
  <2> QED BY <2>1 DEF Moves
<1>2. CASE Refund(r)
  <2>1. Returned(r) \/ Stays(r)
    BY <1>2 DEF Refund, Credit, Unsettled, Returned, Stays, PhaseOf, Consistent, Sending
  <2> QED BY <2>1 DEF Moves
<1>3. CASE Record(r)
  <2>1. Recorded(r)
    BY <1>3 DEF Record, Recorded, PhaseOf, Consistent
  <2> QED BY <2>1 DEF Moves
<1>4. CASE MarkProcessing(r) \/ Fail(r)
  <2>1. Stays(r)
    BY <1>4 DEF MarkProcessing, Fail, Unsettled, Stays, PhaseOf, Consistent
  <2> QED BY <2>1 DEF Moves
<1>5. CASE Broadcast(r) \/ TransferRaises(r)
  <2>1. UNCHANGED <<status, ledger, balance, paid>> /\ (tx' = tx \/ tx' = [tx EXCEPT ![r] = "mempool"])
        /\ (tx' # tx => tx[r] = "none")
    BY <1>5 DEF Broadcast, TransferRaises, Consistent, Sending
  <2>2. Stays(r)
    BY <2>1 DEF Stays, PhaseOf
  <2> QED BY <2>2 DEF Moves
<1>6. CASE ReadMode(r) \/ CheckSent(r) \/ Preflight(r) \/ Receipt(r) \/ NoReceipt(r) \/ StatementLost(r)
  <2>1. UNCHANGED <<status, ledger, balance, tx, paid>>
    BY <1>6 DEF ReadMode, CheckSent, Preflight, Receipt, NoReceipt, StatementLost
  <2>2. Stays(r)
    BY <2>1 DEF Stays, PhaseOf
  <2> QED BY <2>2 DEF Moves
<1> QED BY <1>1, <1>2, <1>3, <1>4, <1>5, <1>6 DEF TaskStep

\* The operator approves or gives back, and the chain pays.
LEMMA OpenMoves ==
  ASSUME TypeOK, NEW r \in Requests, Consistent(r),
         WebRequest(r) \/ TelegramConfirm(r) \/ Approve(r) \/ Reject(r) \/ Mine(r)
  PROVE  Moves(r)
<1> USE DEF TypeOK, rowVars, chainVars
<1>1. CASE WebRequest(r) \/ TelegramConfirm(r)
  <2>1. UNCHANGED <<status, ledger, balance, tx, paid>>
    BY <1>1 DEF WebRequest, TelegramConfirm
  <2>2. Stays(r)
    BY <2>1 DEF Stays, PhaseOf
  <2> QED BY <2>2 DEF Moves
<1>2. CASE Approve(r)
  <2>1. Approved(r)
    BY <1>2 DEF Approve, Approved, PhaseOf, Consistent
  <2> QED BY <2>1 DEF Moves
<1>3. CASE Reject(r)
  <2>1. Returned(r)
    BY <1>3 DEF Reject, Credit, Returned, PhaseOf, Consistent
  <2> QED BY <2>1 DEF Moves
<1>4. CASE Mine(r)
  <2>1. PhaseOf(r) = "approved" /\ UNCHANGED <<status, ledger, balance>>
    BY <1>4 DEF Mine, PhaseOf, Consistent
  <2>2. \/ tx'[r] = "mined" /\ paid'[r] = paid[r] + 1
        \/ tx'[r] = "reverted" /\ paid'[r] = paid[r]
    BY <1>4 DEF Mine
  <2>3. Paid(r) \/ Stays(r)
    BY <2>1, <2>2 DEF Paid, Stays, PhaseOf
  <2> QED BY <2>3 DEF Moves
<1> QED BY <1>1, <1>2, <1>3, <1>4

\* wallet/withdrawals.py:62-316: for every set of requests, balance and pool, however
\* tasks, restarts, operator and chain interleave, the withdrawals implement the request
\* book: every step is one of its steps or nothing to the user.
THEOREM RequestsImplementBook ==
  ASSUME WithdrawalAssumption
  PROVE  Spec => ImplementsRequestBook
<1>1. Init => Promise!Init
  BY DEF Init, Promise!Init, requestPhase, PhaseOf
<1>2. WithdrawalsInv /\ [Next]_vars => [Promise!Next]_(Promise!bookVars)
  <2> SUFFICES ASSUME WithdrawalsInv, [Next]_vars
               PROVE  [Promise!Next]_(Promise!bookVars)
    OBVIOUS
  <2>1. TypeOK /\ AllConsistent
    BY DEF WithdrawalsInv
  <2>2. ASSUME NEW r \in Requests, TaskStep(r)
        PROVE  [Promise!Next]_(Promise!bookVars)
    BY <2>1, <2>2, TaskKeeps, TaskMoves, MovesAreBooked DEF Keeps, AllConsistent
  <2>3. ASSUME NEW r \in Requests,
               WebRequest(r) \/ TelegramConfirm(r) \/ Approve(r) \/ Reject(r) \/ Mine(r)
        PROVE  [Promise!Next]_(Promise!bookVars)
    BY <2>1, <2>3, OpenKeeps, OpenMoves, MovesAreBooked DEF Keeps, AllConsistent
  <2>4. CASE Restart \/ (\E m \in Modes : SetMode(m)) \/ UNCHANGED vars
    <3>1. UNCHANGED <<status, ledger, balance, tx, paid>>
      BY <2>4 DEF Restart, SetMode, vars, rowVars, chainVars
    <3>2. requestPhase' = requestPhase
      BY <3>1 DEF requestPhase, PhaseOf
    <3> QED BY <3>1, <3>2 DEF Promise!bookVars
  <2> QED BY <2>2, <2>3, <2>4 DEF Next
<1>3. WithdrawalsInv /\ [Next]_vars => WithdrawalsInv'
  BY WithdrawalsStepKeeps
<1>4. Init => WithdrawalsInv
  BY WithdrawalsInitHolds
<1> QED BY <1>1, <1>2, <1>3, <1>4, PTL DEF Spec, Promise!Spec, ImplementsRequestBook

-----------------------------------------------------------------------------
(* Accounts.  A redemption holds a fresh code of its own, whose row has no *)
(* Telegram yet, unless one account had two usable codes; and whoever will *)
(* seed a wallet will make the wallet first.                               *)

Person     == [tg : Telegrams \cup {NoOne}, email : Emails \cup {NoOne, Merged},
               merged : 0 .. MaxRows, has : SUBSET Pieces]
CodeStates == {"fresh", "expired", "used", "gone"}
CodeType   == [row : Rows, state : CodeStates]
TaskType   == [op : Ops \cup {"none"}, at : Places, row : Rows \cup {0},
               tg : Telegrams \cup {NoOne}, email : Emails \cup {NoOne},
               code : DOMAIN codes \cup {0}, dup : Rows \cup {0}, todo : Seq(Pieces)]

UsersOK == users \in Seq(Person) /\ Len(users) <= MaxRows
CodesOK == codes \in Seq(CodeType)
TasksOK == task \in [Tasks -> TaskType]
NotesOK == /\ linked \in [Telegrams -> Rows \cup {0}] /\ tokens \cup twice \cup spared \subseteq Rows
           /\ plan \in Plans /\ mishaps \in 0 .. AccountFaults

Redeems == {"primary", "dup", "fresh", "attach"}
Rowed   == {"provide", "conflict", "own", "putEmail", "linked", "drop", "mint"} \cup Redeems
Safe    == plan.serial \/ twice = {}

\* The wallet of a row is there, or lost, or made before the row is seeded.
WalletFirst(k) ==
  \A i \in DOMAIN k.todo : k.todo[i] = "seed" =>
    "wallet" \in users[k.row].has \/ k.row \in spared \/ \E j \in 1 .. (i - 1) : k.todo[j] = "wallet"

\* What is known of worker w while its record is k.
Fits(w, k) ==
  /\ k.at \in Rowed => k.row # 0
  /\ k.at = "provide" => k.todo # << >> /\ WalletFirst(k)
  /\ k.at \in {"find", "insert", "code"} \cup Redeems => k.tg # NoOne
  /\ k.at \in {"code"} \cup Redeems => w \in BotTasks /\ k.code # 0
  /\ k.at \in Redeems => codes[k.code].state = "fresh" /\ codes[k.code].row = k.row
  /\ Safe /\ k.at \in {"dup", "fresh", "attach"} => users[k.row].tg = NoOne
  /\ k.at \in {"code", "primary", "dup"} => k.dup = 0
  /\ k.at = "fresh" => k.dup # 0
  /\ Safe /\ k.at \in {"fresh", "attach"} /\ k.dup # 0 => OfTelegram(k.tg) # {}

AllFit == \A w \in Tasks : Fits(w, task[w])

\* No two tasks redeem one code, and a polling bot runs one task.
Apart ==
  /\ \A v, w \in Tasks : /\ task[v].at \in Redeems /\ task[w].at \in Redeems
                         /\ task[v].code = task[w].code
                         => v = w
  /\ plan.serial => \A v, w \in BotTasks : task[v] # Idler /\ task[w] # Idler => v = w

OneTelegram == \A r, q \in Rows : users[r].tg = users[q].tg /\ users[r].tg # NoOne => r = q
OneUsable   == twice = {} => \A c, d \in DOMAIN codes :
                               Usable(c) /\ Usable(d) /\ codes[c].row = codes[d].row => c = d

Seeding(w, r) ==
  task[w].at = "provide" /\ task[w].row = r
  /\ \E i \in DOMAIN task[w].todo : task[w].todo[i] = "seed"
SeedKnown ==
  \A r \in Rows : "seed" \in users[r].has \/ r \in spared \/ \E w \in Tasks : Seeding(w, r)

AccountsInv ==
  /\ UsersOK /\ CodesOK /\ TasksOK /\ NotesOK
  /\ AllFit /\ Apart /\ OneTelegram /\ OneUsable /\ LinkIsKept /\ SeedKnown

\* A row of a table that is changed in place.
LEMMA RowPut ==
  ASSUME NEW S, NEW s \in Seq(S), NEW i \in DOMAIN s, NEW x \in S
  PROVE  /\ [s EXCEPT ![i] = x] \in Seq(S) /\ Len([s EXCEPT ![i] = x]) = Len(s)
         /\ DOMAIN [s EXCEPT ![i] = x] = DOMAIN s
OBVIOUS

LEMMA RowsOfMore ==
  ASSUME NEW S, NEW T, S \subseteq T, NEW s \in Seq(S)
  PROVE  s \in Seq(T)
OBVIOUS

\* One that is added, and two lists joined.
Extends(s, b, x) ==
  Len(s) = Len(b) + 1 /\ s[Len(b) + 1] = x /\ \A i \in 1 .. Len(b) : s[i] = b[i]
Joins(s, a, b) ==
  /\ Len(s) = Len(a) + Len(b) /\ \A i \in 1 .. Len(a) : s[i] = a[i]
  /\ \A i \in 1 .. Len(b) : s[Len(a) + i] = b[i]

LEMMA RowAdded ==
  ASSUME NEW S, NEW b \in Seq(S), NEW x \in S
  PROVE  Append(b, x) \in Seq(S) /\ Extends(Append(b, x), b, x)
BY DEF Extends

LEMMA RowsJoined ==
  ASSUME NEW S, NEW a \in Seq(S), NEW b \in Seq(S)
  PROVE  a \o b \in Seq(S) /\ Joins(a \o b, a, b)
BY DEF Joins

\* What a handler may do next, after the one it does.
LEMMA TailOf ==
  ASSUME NEW S, NEW s \in Seq(S), s # << >>
  PROVE  /\ Tail(s) \in Seq(S) /\ Head(s) = s[1] /\ 1 \in DOMAIN s
         /\ \A i \in DOMAIN Tail(s) : i + 1 \in DOMAIN s /\ Tail(s)[i] = s[i + 1]
         /\ \A i \in DOMAIN s : i # 1 => i - 1 \in DOMAIN Tail(s) /\ Tail(s)[i - 1] = s[i]
OBVIOUS

LEMMA OneOf ==
  ASSUME NEW S, S # {}
  PROVE  The(S) \in S
BY DEF The

\* A list of five, by how it was made.
LEMMA FifthAdded ==
  ASSUME NEW S, NEW b, NEW x, NEW s \in Seq(S), Extends(s, b, x), Len(b) = 4
  PROVE  /\ s # << >> /\ DOMAIN s = 1 .. 5
         /\ s[1] = b[1] /\ s[2] = b[2] /\ s[3] = b[3] /\ s[4] = b[4] /\ s[5] = x
BY DEF Extends

LEMMA OneBefore ==
  ASSUME NEW S, NEW b, NEW a, NEW s \in Seq(S), Joins(s, a, b), Len(b) = 4, Len(a) = 1
  PROVE  /\ s # << >> /\ DOMAIN s = 1 .. 5
         /\ s[1] = a[1] /\ s[2] = b[1] /\ s[3] = b[2] /\ s[4] = b[3] /\ s[5] = b[4]
BY DEF Joins

\* The lists of a new row make the wallet and then seed it.
Seeds(s) ==
  /\ s # << >> /\ \E i \in DOMAIN s : s[i] = "seed"
  /\ \A i \in DOMAIN s : s[i] = "seed" => \E j \in 1 .. (i - 1) : s[j] = "wallet"

LEMMA ListsFit ==
  /\ Append(Bootstrap, "feed") \in Seq(Pieces) /\ Seeds(Append(Bootstrap, "feed"))
  /\ <<"settings">> \o Bootstrap \in Seq(Pieces) /\ Seeds(<<"settings">> \o Bootstrap)
<1> DEFINE one == <<"settings">>
           s == Append(Bootstrap, "feed")
           t == one \o Bootstrap
<1>1. /\ Bootstrap \in Seq(Pieces) /\ Len(Bootstrap) = 4
      /\ Bootstrap[1] = "wallet" /\ Bootstrap[2] = "seed"
      /\ Bootstrap[3] = "defaults" /\ Bootstrap[4] = "feed"
      /\ "feed" \in Pieces
  BY DEF Bootstrap, Pieces
<1>2. one \in Seq(Pieces) /\ Len(one) = 1 /\ one[1] = "settings"
  BY DEF Pieces
<1>3. /\ s \in Seq(Pieces) /\ Extends(s, Bootstrap, "feed")
      /\ t \in Seq(Pieces) /\ Joins(t, one, Bootstrap)
  BY <1>1, <1>2, RowAdded, RowsJoined, Zenon
<1> HIDE DEF one, s, t
<1>4. Seeds(s)
  <2>1. /\ s # << >> /\ DOMAIN s = 1 .. 5
        /\ s[1] = "wallet" /\ s[2] = "seed" /\ s[3] = "defaults" /\ s[4] = "feed" /\ s[5] = "feed"
    BY <1>1, <1>3, FifthAdded
  <2>2. \A i \in DOMAIN s : s[i] = "seed" => i = 2
    BY <2>1
  <2>3. 2 \in DOMAIN s /\ 1 \in 1 .. (2 - 1)
    BY <2>1
  <2> QED BY <2>1, <2>2, <2>3 DEF Seeds
<1>5. Seeds(t)
  <2>1. /\ t # << >> /\ DOMAIN t = 1 .. 5
        /\ t[1] = "settings" /\ t[2] = "wallet" /\ t[3] = "seed" /\ t[4] = "defaults" /\ t[5] = "feed"
    BY <1>1, <1>2, <1>3, OneBefore
  <2>2. \A i \in DOMAIN t : t[i] = "seed" => i = 3
    BY <2>1
  <2>3. 3 \in DOMAIN t /\ 2 \in 1 .. (3 - 1)
    BY <2>1
  <2> QED BY <2>1, <2>2, <2>3 DEF Seeds
<1> QED BY <1>3, <1>4, <1>5 DEF s, t, one

\* The type invariant by tables.
LEMMA AccountParts ==
  AccountsTypeOK <=> /\ users \in Seq(Person) /\ CodesOK /\ TasksOK /\ NotesOK
BY DEF AccountsTypeOK, CodesOK, TasksOK, NotesOK, Person, CodeStates, CodeType, TaskType

\* The tables only grow; the workers of M move, and the codes the others redeem
\* stay as they are.
Grows(M) ==
  /\ \A v \in Tasks \ M : task'[v] = task[v]
  /\ Rows \subseteq Rows' /\ \A r \in Rows : users'[r].tg = users[r].tg
  /\ \A r \in Rows : users[r].has \subseteq users'[r].has
  /\ DOMAIN codes \subseteq DOMAIN codes'
  /\ \A v \in Tasks \ M : task[v].at \in Redeems => codes'[task[v].code] = codes[task[v].code]
  /\ UNCHANGED plan /\ twice \subseteq twice' /\ spared \subseteq spared'

\* The other workers are as well placed as before.
LEMMA OthersFit ==
  ASSUME UsersOK, CodesOK, TasksOK, NotesOK, AllFit, NEW M, Grows(M), NEW v \in Tasks \ M
  PROVE  Fits(v, task[v])'
<1>0. /\ task'[v] = task[v] /\ task[v] \in TaskType /\ Fits(v, task[v])
      /\ Safe' => Safe
  BY DEF TasksOK, Grows, AllFit, Safe
<1> DEFINE x == task[v]
<1>1. x.at = "provide" => WalletFirst(x)'
  <2>1. ASSUME x.at = "provide" PROVE x.row \in Rows /\ WalletFirst(x)
    BY <1>0, <2>1 DEF Fits, TaskType, Rowed
  <2> QED BY <1>0, <2>1 DEF WalletFirst, Grows
<1>2. x.at \in Redeems => codes'[x.code].state = "fresh" /\ codes'[x.code].row = x.row
  BY <1>0 DEF Fits, Grows
<1>3. Safe' /\ x.at \in {"dup", "fresh", "attach"} => users'[x.row].tg = NoOne
  BY <1>0 DEF Fits, Grows, TaskType, Rowed, Redeems
<1>4. \A t : OfTelegram(t) # {} => OfTelegram(t)' # {}
  BY DEF OfTelegram, Grows
<1>5. Safe' /\ x.at \in {"fresh", "attach"} /\ x.dup # 0 => OfTelegram(x.tg)' # {}
  BY <1>0, <1>4 DEF Fits
<1> QED BY <1>0, <1>1, <1>2, <1>3, <1>5 DEF Fits

\* What a row or a code may be named by stays one.
LEMMA TypesGrow ==
  ASSUME Rows \subseteq Rows', DOMAIN codes \subseteq DOMAIN codes'
  PROVE  TaskType \subseteq TaskType'
BY DEF TaskType

\* Worker w may be at k: what it redeems it had claimed, or nobody has; and it
\* had been at work, or no other worker of a polling bot is.
Near(w, k) ==
  /\ k.at \in Redeems => \/ task[w].at \in Redeems /\ k.code = task[w].code
                         \/ \A v \in Tasks : task[v].at \in Redeems => task[v].code # k.code
  /\ plan.serial /\ w \in BotTasks /\ k # Idler =>
       task[w] # Idler \/ \A b \in BotTasks : task[b] = Idler

LEMMA ApartKept ==
  ASSUME TasksOK, Apart, NEW w \in Tasks, NEW k, Near(w, k), task' = [task EXCEPT ![w] = k],
         UNCHANGED plan
  PROVE  Apart'
<1>0. task'[w] = k /\ \A v \in Tasks : v # w => task'[v] = task[v]
  BY DEF TasksOK
<1>1. ASSUME NEW u \in Tasks, NEW v \in Tasks, task'[u].at \in Redeems, task'[v].at \in Redeems,
             task'[u].code = task'[v].code
      PROVE  u = v
  <2>1. CASE u # w /\ v # w
    BY <1>0, <1>1, <2>1 DEF Apart
  <2>2. CASE u = w /\ v # w
    BY <1>0, <1>1, <2>2 DEF Apart, Near
  <2>3. CASE u # w /\ v = w
    BY <1>0, <1>1, <2>3 DEF Apart, Near
  <2> QED BY <2>1, <2>2, <2>3
<1>2. ASSUME plan.serial, NEW u \in BotTasks, NEW v \in BotTasks, task'[u] # Idler, task'[v] # Idler
      PROVE  u = v
  BY <1>0, <1>2 DEF Apart, Near, Tasks
<1> QED BY <1>1, <1>2 DEF Apart

\* A step of worker w to k that only adds to the tables.
LEMMA MoveKeeps ==
  ASSUME AccountsInv, NEW w \in Tasks, NEW k \in TaskType', Grows({w}), Near(w, k), Fits(w, k)',
         task' = [task EXCEPT ![w] = k],
         UsersOK', CodesOK', NotesOK', OneTelegram', OneUsable', LinkIsKept', SeedKnown'
  PROVE  AccountsInv'
<1>0. /\ task'[w] = k /\ \A v \in Tasks \ {w} : task'[v] = task[v]
      /\ TasksOK /\ UsersOK /\ CodesOK /\ NotesOK /\ AllFit /\ Apart
  BY DEF AccountsInv, TasksOK
<1>1. TasksOK'
  <2>1. TaskType \subseteq TaskType'
    BY TypesGrow DEF Grows
  <2> QED BY <1>0, <2>1 DEF TasksOK
<1>2. AllFit'
  <2>1. ASSUME NEW v \in Tasks PROVE Fits(v, task[v])'
    <3>1. CASE v = w
      BY <1>0, <3>1
    <3>2. CASE v # w
      BY <1>0, <3>2, OthersFit
    <3> QED BY <3>1, <3>2
  <2> QED BY <2>1 DEF AllFit
<1>3. Apart'
  BY <1>0, ApartKept DEF Grows
<1> QED BY <1>1, <1>2, <1>3 DEF AccountsInv

\* The same, of a step that leaves the tables as they are.
LEMMA QuietMove ==
  ASSUME AccountsInv, NEW w \in Tasks, NEW k \in TaskType, Near(w, k), Fits(w, k),
         task' = [task EXCEPT ![w] = k], UNCHANGED <<tables, history, limits>>, tokens' \subseteq Rows,
         \A r \in Rows : Seeding(w, r) => Seeding(w, r)' \/ "seed" \in users[r].has \/ r \in spared
  PROVE  AccountsInv'
<1>0. /\ users' = users /\ codes' = codes /\ linked' = linked /\ twice' = twice
      /\ spared' = spared /\ plan' = plan /\ mishaps' = mishaps /\ Rows' = Rows
      /\ TasksOK /\ UsersOK /\ CodesOK /\ NotesOK /\ SeedKnown /\ OneTelegram /\ OneUsable /\ LinkIsKept
  BY DEF AccountsInv, tables, history, limits, Rows
<1>1. Grows({w}) /\ k \in TaskType' /\ Fits(w, k)'
  <2>1. Grows({w})
    BY <1>0 DEF TasksOK, Grows
  <2>2. k \in TaskType'
    BY <1>0 DEF TaskType
  <2>3. Fits(w, k)'
    BY <1>0 DEF Fits, WalletFirst, Safe, OfTelegram
  <2> QED BY <2>1, <2>2, <2>3
<1>2. UsersOK' /\ CodesOK' /\ NotesOK'
  BY <1>0 DEF UsersOK, CodesOK, CodeType, NotesOK
<1>3. OneTelegram' /\ OneUsable' /\ LinkIsKept'
  BY <1>0 DEF OneTelegram, OneUsable, LinkIsKept, Usable
<1>4. SeedKnown'
  <2>1. ASSUME NEW r \in Rows, "seed" \notin users[r].has, r \notin spared
        PROVE  \E v \in Tasks : Seeding(v, r)'
    <3>1. PICK v \in Tasks : Seeding(v, r)
      BY <1>0, <2>1 DEF SeedKnown
    <3>2. CASE v = w
      BY <2>1, <3>1, <3>2
    <3>3. CASE v # w
      BY <3>1, <3>3 DEF Seeding, TasksOK
    <3> QED BY <3>2, <3>3
  <2> QED BY <1>0, <2>1 DEF SeedKnown
<1> QED BY <1>1, <1>2, <1>3, <1>4, MoveKeeps

LEMMA IdlerTyped == Idler \in TaskType
BY DEF TaskType, Idler, Places

\* A handler that ends, having changed nothing.
LEMMA Ends ==
  ASSUME AccountsInv, NEW w \in Tasks, Finish(w), UNCHANGED <<tables, history, limits>>,
         tokens' \subseteq Rows, task[w].at # "provide"
  PROVE  AccountsInv'
<1>1. Near(w, Idler) /\ Fits(w, Idler)
  BY DEF Near, Fits, Idler, Redeems, Rowed
<1>2. \A r \in Rows : ~Seeding(w, r)
  BY DEF Seeding
<1> QED BY <1>1, <1>2, IdlerTyped, QuietMove DEF Finish

\* A handler that starts.
LEMMA Begins ==
  ASSUME AccountsInv, NEW w \in Tasks, NEW k \in TaskType, Begin(w, k), Fits(w, k),
         k.at \notin Redeems
  PROVE  AccountsInv'
<1>0. /\ MayRun(w) /\ task' = [task EXCEPT ![w] = k] /\ tokens \subseteq Rows
      /\ UNCHANGED <<tables, tokens, history, limits>>
  BY DEF Begin, AccountsInv, NotesOK
<1>1. Near(w, k)
  BY <1>0 DEF Near, MayRun
<1>2. \A r \in Rows : ~Seeding(w, r)
  BY <1>0 DEF Seeding, MayRun, Idler
<1> QED BY <1>0, <1>1, <1>2, QuietMove

\* A handler that goes on, having changed nothing.
LEMMA GoesOn ==
  ASSUME AccountsInv, NEW w \in Tasks, NEW k \in TaskType, Fits(w, k),
         task' = [task EXCEPT ![w] = k], UNCHANGED <<tables, tokens, history, limits>>,
         task[w].at \notin {"none", "provide"},
         k.at \in Redeems => task[w].at \in Redeems /\ k.code = task[w].code
  PROVE  AccountsInv'
<1>1. Near(w, k)
  BY DEF Near, Idler
<1>2. \A r \in Rows : ~Seeding(w, r)
  BY DEF Seeding
<1>3. tokens' \subseteq Rows /\ UNCHANGED <<tables, history, limits>>
  BY DEF AccountsInv, NotesOK
<1> QED BY <1>1, <1>2, <1>3, QuietMove

\* What is known of a worker at work.
LEMMA AtWork ==
  ASSUME AccountsInv, NEW w \in Tasks
  PROVE  task[w] \in TaskType /\ Fits(w, task[w])
BY DEF AccountsInv, TasksOK, AllFit

LEMMA UpsertKeeps ==
  ASSUME AccountsInv, NEW w \in Tasks, NEW t \in Telegrams, Upsert(w, t)
  PROVE  AccountsInv'
<1> DEFINE k == [Idler EXCEPT !.op = "upsert", !.at = "find", !.tg = t]
<1>1. k \in TaskType
  BY IdlerTyped DEF TaskType, Places, Ops
<1>2. Fits(w, k) /\ k.at \notin Redeems
  BY AccountsAssumption DEF Fits, Idler, Rowed, Redeems
<1> QED BY <1>1, <1>2, Begins DEF Upsert

LEMMA RegisterKeeps ==
  ASSUME AccountsInv, NEW w \in Tasks, NEW e \in Emails, Register(w, e)
  PROVE  AccountsInv'
<1> DEFINE k == [Idler EXCEPT !.op = "register", !.at = "look", !.email = e]
<1>1. k \in TaskType
  BY IdlerTyped DEF TaskType, Places, Ops
<1>2. Fits(w, k) /\ k.at \notin Redeems
  BY DEF Fits, Idler, Rowed, Redeems
<1> QED BY <1>1, <1>2, Begins DEF Register

LEMMA LinkEmailKeeps ==
  ASSUME AccountsInv, NEW w \in Tasks, NEW r \in Rows, NEW e \in Emails, LinkEmail(w, r, e)
  PROVE  AccountsInv'
<1> DEFINE k == [Idler EXCEPT !.op = "linkEmail", !.at = "conflict", !.row = r, !.email = e]
<1>1. k \in TaskType
  BY IdlerTyped DEF TaskType, Places, Ops
<1>2. r # 0
  BY DEF AccountsInv, UsersOK, Rows
<1>3. Fits(w, k) /\ k.at \notin Redeems
  BY <1>2 DEF Fits, Idler, Rowed, Redeems
<1> QED BY <1>1, <1>3, Begins DEF LinkEmail

LEMMA GenerateKeeps ==
  ASSUME AccountsInv, NEW w \in Tasks, NEW r \in Rows, Generate(w, r)
  PROVE  AccountsInv'
<1> DEFINE k == [Idler EXCEPT !.op = "generate", !.at = "linked", !.row = r]
<1>1. k \in TaskType
  BY IdlerTyped DEF TaskType, Places, Ops
<1>2. r # 0
  BY DEF AccountsInv, UsersOK, Rows
<1>3. Fits(w, k) /\ k.at \notin Redeems
  BY <1>2 DEF Fits, Idler, Rowed, Redeems
<1> QED BY <1>1, <1>3, Begins DEF Generate

LEMMA RedeemKeeps ==
  ASSUME AccountsInv, NEW w \in BotTasks, NEW c \in DOMAIN codes, NEW t \in Telegrams, Redeem(w, c, t)
  PROVE  AccountsInv'
<1> DEFINE k == [Idler EXCEPT !.op = "redeem", !.at = "code", !.code = c, !.tg = t]
<1>1. k \in TaskType
  BY IdlerTyped DEF TaskType, Places, Ops
<1>2. c # 0
  BY DEF AccountsInv, CodesOK
<1>3. Fits(w, k) /\ k.at \notin Redeems /\ w \in Tasks
  BY <1>2, AccountsAssumption DEF Fits, Idler, Rowed, Redeems, Tasks
<1> QED BY <1>1, <1>3, Begins DEF Redeem

LEMMA FindTelegramKeeps ==
  ASSUME AccountsInv, NEW w \in Tasks, FindTelegram(w)
  PROVE  AccountsInv'
<1> DEFINE x == task[w]
           owners == OfTelegram(x.tg)
<1>0. x \in TaskType /\ Fits(w, x) /\ x.at = "find"
  BY AtWork DEF FindTelegram, IsAt
<1>1. CASE owners = {}
  <2> DEFINE k == [x EXCEPT !.at = "insert"]
  <2>1. k \in TaskType /\ task' = [task EXCEPT ![w] = k]
    BY <1>0, <1>1 DEF FindTelegram, Then, TaskType, Places
  <2>2. Fits(w, k) /\ k.at \notin Redeems
    BY <1>0 DEF Fits, TaskType, Rowed, Redeems
  <2> QED BY <1>0, <2>1, <2>2, GoesOn DEF FindTelegram
<1>2. CASE owners # {}
  <2> DEFINE k == [x EXCEPT !.at = "provide", !.row = The(owners), !.todo = <<"feed">>]
  <2>0. The(owners) \in Rows /\ The(owners) # 0
    <3>1. The(owners) \in owners
      BY <1>2, OneOf, Zenon
    <3> QED BY <3>1 DEF OfTelegram, Rows, AccountsInv, UsersOK
  <2>1. k \in TaskType /\ task' = [task EXCEPT ![w] = k]
    <3>1. <<"feed">> \in Seq(Pieces)
      BY DEF Pieces
    <3>2. task' = [task EXCEPT ![w] = k]
      BY <1>2 DEF FindTelegram
    <3> QED BY <1>0, <2>0, <3>1, <3>2 DEF TaskType, Places
  <2>2. k.at = "provide" /\ k.row = The(owners) /\ k.todo = <<"feed">>
    BY <1>0 DEF TaskType
  <2>3. k.todo # << >> /\ WalletFirst(k)
    BY <2>2 DEF WalletFirst
  <2>4. Fits(w, k) /\ k.at \notin Redeems
    BY <2>0, <2>2, <2>3 DEF Fits, Rowed, Redeems
  <2> QED BY <1>0, <2>1, <2>4, GoesOn DEF FindTelegram
<1> QED BY <1>1, <1>2

\* A handler that a unique index or a check stops.
LEMMA StopsKeep ==
  ASSUME AccountsInv, NEW w \in Tasks,
         \/ InsertTelegramTaken(w) \/ InsertEmailTaken(w) \/ PutEmailTaken(w) \/ AttachClashes(w)
  PROVE  AccountsInv'
<1>1. task[w].at # "provide" /\ Finish(w) /\ UNCHANGED <<tables, tokens, history, limits>>
  BY DEF InsertTelegramTaken, InsertEmailTaken, PutEmailTaken, AttachClashes, IsAt, Raises
<1>2. UNCHANGED <<tables, history, limits>> /\ tokens' \subseteq Rows
  BY <1>1 DEF AccountsInv, NotesOK
<1> QED BY <1>1, <1>2, Ends

\* One that looks, and goes on to its next statement or ends.
LEMMA LooksKeep ==
  ASSUME AccountsInv, NEW w \in Tasks, NEW p \in {"insertEmail", "own", "putEmail", "drop"},
         Then(w, p) \/ Finish(w), task[w].at \in {"look", "conflict", "own", "linked"},
         p # "insertEmail" => task[w].at # "look",
         UNCHANGED <<tables, tokens, history, limits>>
  PROVE  AccountsInv'
<1> DEFINE k == [task[w] EXCEPT !.at = p]
<1>0. task[w] \in TaskType /\ Fits(w, task[w])
  BY AtWork
<1>1. CASE Finish(w)
  <2>1. UNCHANGED <<tables, history, limits>> /\ tokens' \subseteq Rows
    BY DEF AccountsInv, NotesOK
  <2> QED BY <1>1, <2>1, Ends
<1>2. CASE Then(w, p)
  <2>1. k \in TaskType /\ task' = [task EXCEPT ![w] = k]
    BY <1>0, <1>2 DEF Then, TaskType, Places
  <2>2. Fits(w, k) /\ k.at \notin Redeems
    BY <1>0 DEF Fits, TaskType, Rowed, Redeems
  <2> QED BY <2>1, <2>2, GoesOn
<1> QED BY <1>1, <1>2

LEMMA LookForEmailKeeps ==
  ASSUME AccountsInv, NEW w \in Tasks, LookForEmail(w)
  PROVE  AccountsInv'
BY LooksKeep DEF LookForEmail, IsAt

LEMMA EmailConflictKeeps ==
  ASSUME AccountsInv, NEW w \in Tasks, EmailConflict(w)
  PROVE  AccountsInv'
BY LooksKeep DEF EmailConflict, IsAt

LEMMA OwnEmailKeeps ==
  ASSUME AccountsInv, NEW w \in Tasks, OwnEmail(w)
  PROVE  AccountsInv'
BY LooksKeep DEF OwnEmail, IsAt

LEMMA LinkedAlreadyKeeps ==
  ASSUME AccountsInv, NEW w \in Tasks, LinkedAlready(w)
  PROVE  AccountsInv'
BY LooksKeep DEF LinkedAlready, IsAt

\* The tables keep their rows and the Telegram ids of these, and only gain what
\* belongs to them; codes and links stay.
Gains ==
  /\ users' \in Seq(Person) /\ Len(users') = Len(users)
  /\ \A r \in Rows : users'[r].tg = users[r].tg /\ users[r].has \subseteq users'[r].has
  /\ codes' = codes /\ linked' = linked /\ twice' = twice /\ plan' = plan
  /\ spared \subseteq spared' /\ spared' \subseteq Rows /\ tokens' \subseteq Rows
  /\ mishaps' \in 0 .. AccountFaults

LEMMA GainsKeep ==
  ASSUME AccountsInv, Gains
  PROVE  /\ Rows' = Rows /\ UsersOK' /\ CodesOK' /\ NotesOK' /\ OneTelegram' /\ OneUsable' /\ LinkIsKept'
         /\ \A M : (\A v \in Tasks \ M : task'[v] = task[v]) => Grows(M)
<1>0. UsersOK /\ CodesOK /\ NotesOK /\ OneTelegram /\ OneUsable /\ LinkIsKept
  BY DEF AccountsInv
<1>1. Rows' = Rows
  BY <1>0 DEF Gains, Rows, UsersOK
<1>2. UsersOK' /\ CodesOK' /\ NotesOK'
  BY <1>0, <1>1 DEF Gains, UsersOK, CodesOK, CodeType, NotesOK
<1>3. OneTelegram'
  BY <1>0, <1>1 DEF Gains, OneTelegram
<1>4. OneUsable'
  BY <1>0, <1>1 DEF Gains, OneUsable, Usable
<1>5. LinkIsKept'
  BY <1>0, <1>1 DEF Gains, LinkIsKept, NotesOK
<1>6. \A M : (\A v \in Tasks \ M : task'[v] = task[v]) => Grows(M)
  BY <1>1 DEF Gains, Grows
<1> QED BY <1>1, <1>2, <1>3, <1>4, <1>5, <1>6

\* The worker that provides for a row takes its next statement or ends.
LEMMA NextFits ==
  ASSUME AccountsInv, Gains, NEW w \in Tasks, task[w].at = "provide", Tail(task[w].todo) # << >>,
         Head(task[w].todo) = "wallet" =>
           "wallet" \in users'[task[w].row].has \/ task[w].row \in spared',
         NEW k, k = [task[w] EXCEPT !.todo = Tail(task[w].todo)]
  PROVE  k \in TaskType' /\ Near(w, k) /\ Fits(w, k)'
<1> DEFINE x == task[w]
<1>0. /\ x \in TaskType /\ x.row \in Rows /\ x.row # 0 /\ x.todo \in Seq(Pieces) /\ x.todo # << >>
      /\ WalletFirst(x)
  BY AtWork DEF Fits, Rowed, TaskType
<1>1. /\ Tail(x.todo) \in Seq(Pieces) /\ Head(x.todo) = x.todo[1] /\ 1 \in DOMAIN x.todo
      /\ \A i \in DOMAIN Tail(x.todo) : i + 1 \in DOMAIN x.todo /\ Tail(x.todo)[i] = x.todo[i + 1]
      /\ \A i \in DOMAIN x.todo : i # 1 => i - 1 \in DOMAIN Tail(x.todo)
                                           /\ Tail(x.todo)[i - 1] = x.todo[i]
      /\ DOMAIN x.todo \subseteq Nat
  BY <1>0, TailOf
<1>2. k \in TaskType /\ k.at = "provide" /\ k.row = x.row /\ k.todo = Tail(x.todo)
  BY <1>0, <1>1 DEF TaskType
<1>3. k \in TaskType'
  BY <1>2, GainsKeep DEF TaskType, Gains
<1>4. Near(w, k)
  BY <1>2 DEF Near, Redeems, Idler
<1>5. WalletFirst(k)'
  <2>1. SUFFICES ASSUME NEW i \in DOMAIN k.todo, k.todo[i] = "seed",
                        "wallet" \notin users'[k.row].has, k.row \notin spared'
                 PROVE  \E j \in 1 .. (i - 1) : k.todo[j] = "wallet"
    BY DEF WalletFirst
  <2>2. i + 1 \in DOMAIN x.todo /\ x.todo[i + 1] = "seed" /\ i \in Nat
    BY <1>1, <1>2, <2>1
  <2>3. "wallet" \notin users[x.row].has /\ x.row \notin spared
    BY <1>0, <1>2, <2>1 DEF Gains
  <2>4. PICK j \in 1 .. (i + 1 - 1) : x.todo[j] = "wallet"
    BY <1>0, <2>2, <2>3 DEF WalletFirst
  <2>5. j # 1
    BY <1>1, <1>2, <2>1, <2>4
  <2>6. j \in DOMAIN x.todo
    BY <1>0, <2>2, <2>4
  <2>7. j - 1 \in 1 .. (i - 1)
    BY <2>2, <2>4, <2>5
  <2>8. k.todo[j - 1] = "wallet"
    BY <1>1, <1>2, <2>4, <2>5, <2>6
  <2> QED BY <2>7, <2>8
<1>6. Fits(w, k)'
  BY <1>0, <1>2, <1>5 DEF Fits, Redeems, Rowed
<1> QED BY <1>3, <1>4, <1>6

\* A row that was to be seeded still is, or the statement did it or failed.
LEMMA NextSeeds ==
  ASSUME AccountsInv, Gains, NEW w \in Tasks, task[w].at = "provide",
         \A v \in Tasks \ {w} : task'[v] = task[v],
         \/ Tail(task[w].todo) # << >> /\ task'[w] = [task[w] EXCEPT !.todo = Tail(task[w].todo)]
         \/ Tail(task[w].todo) = << >> \/ task[w].row \in spared',
         Head(task[w].todo) = "seed" =>
           "seed" \in users'[task[w].row].has \/ task[w].row \in spared'
  PROVE  SeedKnown'
<1> DEFINE x == task[w]
<1>0. /\ x \in TaskType /\ x.row \in Rows /\ x.todo \in Seq(Pieces) /\ x.todo # << >>
      /\ Rows' = Rows /\ SeedKnown
  BY AtWork, GainsKeep DEF Fits, Rowed, TaskType, AccountsInv
<1>1. /\ Tail(x.todo) \in Seq(Pieces) /\ Head(x.todo) = x.todo[1]
      /\ \A i \in DOMAIN x.todo : i # 1 => i - 1 \in DOMAIN Tail(x.todo)
                                           /\ Tail(x.todo)[i - 1] = x.todo[i]
  BY <1>0, TailOf
<1>2. SUFFICES ASSUME NEW r \in Rows, "seed" \notin users'[r].has, r \notin spared'
               PROVE  \E v \in Tasks : Seeding(v, r)'
  BY <1>0 DEF SeedKnown
<1>3. "seed" \notin users[r].has /\ r \notin spared
  BY <1>2 DEF Gains
<1>4. PICK v \in Tasks : Seeding(v, r)
  BY <1>0, <1>3 DEF SeedKnown
<1>5. CASE v # w
  BY <1>4, <1>5 DEF Seeding
<1>6. CASE v = w
  <2>1. PICK i \in DOMAIN x.todo : x.todo[i] = "seed"
    BY <1>4, <1>6 DEF Seeding
  <2>2. x.row = r /\ i # 1
    BY <1>1, <1>2, <1>4, <1>6, <2>1 DEF Seeding
  <2>3. i - 1 \in DOMAIN Tail(x.todo) /\ Tail(x.todo)[i - 1] = "seed"
    BY <1>1, <2>1, <2>2
  <2>4. Tail(x.todo) # << >>
    BY <1>1, <2>3
  <2>5. task'[w] = [x EXCEPT !.todo = Tail(x.todo)]
    BY <1>2, <2>2, <2>4
  <2>6. task'[w].at = "provide" /\ task'[w].row = r /\ task'[w].todo = Tail(x.todo)
    BY <1>0, <2>2, <2>5 DEF TaskType
  <2> QED BY <2>3, <2>6 DEF Seeding
<1> QED BY <1>5, <1>6

LEMMA ProvidesOn ==
  ASSUME AccountsInv, Gains, NEW w \in Tasks, task[w].at = "provide",
         \/ Tail(task[w].todo) # << >>
            /\ task' = [task EXCEPT ![w] = [task[w] EXCEPT !.todo = Tail(task[w].todo)]]
         \/ Finish(w) /\ (Tail(task[w].todo) = << >> \/ task[w].row \in spared'),
         Head(task[w].todo) = "wallet" =>
           "wallet" \in users'[task[w].row].has \/ task[w].row \in spared',
         Head(task[w].todo) = "seed" =>
           "seed" \in users'[task[w].row].has \/ task[w].row \in spared'
  PROVE  AccountsInv'
<1> PICK n : n = [task[w] EXCEPT !.todo = Tail(task[w].todo)]
  OBVIOUS
<1>0. TasksOK
  BY DEF AccountsInv
<1>1. /\ \A v \in Tasks \ {w} : task'[v] = task[v]
      /\ UsersOK' /\ CodesOK' /\ NotesOK' /\ OneTelegram' /\ OneUsable' /\ LinkIsKept'
  <2>1. \A v \in Tasks \ {w} : task'[v] = task[v]
    BY <1>0 DEF TasksOK, Finish
  <2> QED BY <2>1, GainsKeep
<1>2. Grows({w})
  BY <1>1, GainsKeep
<1>3. CASE Tail(task[w].todo) # << >> /\ task' = [task EXCEPT ![w] = n]
  <2>1. n \in TaskType' /\ Near(w, n) /\ Fits(w, n)'
    BY <1>3, NextFits
  <2>2. task'[w] = n
    BY <1>0, <1>3 DEF TasksOK
  <2>3. SeedKnown'
    BY <1>1, <1>3, <2>2, NextSeeds
  <2> QED BY <1>1, <1>2, <1>3, <2>1, <2>3, MoveKeeps
<1>4. CASE Finish(w) /\ (Tail(task[w].todo) = << >> \/ task[w].row \in spared')
  <2>1. Idler \in TaskType' /\ Near(w, Idler) /\ Fits(w, Idler)'
    <3>1. Idler \in TaskType'
      BY IdlerTyped, GainsKeep DEF TaskType, Gains
    <3> QED BY <3>1 DEF Near, Fits, Idler, Redeems, Rowed
  <2>2. SeedKnown'
    BY <1>1, <1>4, NextSeeds
  <2> QED BY <1>1, <1>2, <1>4, <2>1, <2>2, MoveKeeps DEF Finish
<1> QED BY <1>3, <1>4

LEMMA ProvidedMeans ==
  ASSUME AccountsInv, NEW w \in Tasks, task[w].at = "provide", Provided(w)
  PROVE  /\ tokens' \subseteq Rows
         /\ \/ Tail(task[w].todo) # << >>
               /\ task' = [task EXCEPT ![w] = [task[w] EXCEPT !.todo = Tail(task[w].todo)]]
            \/ Finish(w) /\ Tail(task[w].todo) = << >>
<1>1. task[w].row \in Rows /\ tokens \subseteq Rows
  BY AtWork DEF Fits, Rowed, TaskType, AccountsInv, NotesOK
<1>2. CASE Tail(task[w].todo) # << >>
  BY <1>1, <1>2 DEF Provided
<1>3. CASE Tail(task[w].todo) = << >>
  <2>1. Finish(w) /\ tokens' = tokens \cup (IF w \in WebTasks THEN {task[w].row} ELSE {})
    BY <1>3 DEF Provided
  <2> QED BY <1>1, <1>3, <2>1
<1> QED BY <1>2, <1>3

LEMMA PutKeeps ==
  ASSUME AccountsInv, NEW w \in Tasks, NEW piece \in Pieces, NEW needs, Put(w, piece, needs),
         piece = "wallet" => needs = {}, piece = "seed" => needs = {"wallet"}
  PROVE  AccountsInv'
<1> DEFINE x == task[w]
           old == users[x.row].has
           new == IF needs \subseteq old THEN old \cup {piece} ELSE old
           row == [users[x.row] EXCEPT !.has = new]
<1>0. /\ x \in TaskType /\ x.at = "provide" /\ x.row \in Rows /\ x.todo \in Seq(Pieces)
      /\ x.todo # << >> /\ WalletFirst(x) /\ users \in Seq(Person) /\ Head(x.todo) = piece
  BY AtWork DEF Fits, Rowed, TaskType, AccountsInv, UsersOK, Put, IsAt
<1>1. row \in Person /\ row.has = new /\ row.tg = users[x.row].tg /\ old \subseteq new
  <2>1. users[x.row] \in Person
    BY <1>0 DEF Rows
  <2>2. new \in SUBSET Pieces /\ old \subseteq new
    BY <2>1 DEF Person
  <2> HIDE DEF new
  <2> QED BY <2>1, <2>2 DEF Person
<1>2. users' = [users EXCEPT ![x.row] = row]
  BY DEF Put
<1> HIDE DEF row
<1>3. /\ users' \in Seq(Person) /\ Len(users') = Len(users)
      /\ users'[x.row].has = new /\ \A r \in Rows : users'[r].tg = users[r].tg
      /\ \A r \in Rows : users[r].has \subseteq users'[r].has
  <2>1. users' \in Seq(Person) /\ Len(users') = Len(users)
    <3>1. x.row \in DOMAIN users
      BY <1>0 DEF Rows
    <3>2. /\ [users EXCEPT ![x.row] = row] \in Seq(Person)
          /\ Len([users EXCEPT ![x.row] = row]) = Len(users)
          /\ DOMAIN [users EXCEPT ![x.row] = row] = DOMAIN users
      BY <1>0, <1>1, <3>1, RowPut
    <3> QED BY <1>2, <3>2
  <2>2. users'[x.row] = row /\ \A r \in Rows : r # x.row => users'[r] = users[r]
    BY <1>0, <1>2 DEF Rows
  <2> QED BY <1>1, <2>1, <2>2
<1>4. /\ codes' = codes /\ linked' = linked /\ twice' = twice /\ spared' = spared
      /\ plan' = plan /\ mishaps' = mishaps
  BY DEF Put, history, limits
<1>5. Provided(w)
  BY DEF Put
<1>6. Gains
  <2>1. tokens' \subseteq Rows
    BY <1>0, <1>5, ProvidedMeans
  <2> QED BY <1>3, <1>4, <2>1 DEF Gains, AccountsInv, NotesOK
<1>7. Head(x.todo) = "wallet" => "wallet" \in users'[x.row].has
  BY <1>0, <1>3
<1>8. Head(x.todo) = "seed" => "seed" \in users'[x.row].has \/ x.row \in spared'
  <2>1. SUFFICES ASSUME Head(x.todo) = "seed" PROVE "wallet" \in old \/ x.row \in spared
    BY <1>0, <1>3, <1>4
  <2>2. Head(x.todo) = x.todo[1] /\ 1 \in DOMAIN x.todo /\ ~\E j \in 1 .. (1 - 1) : TRUE
    BY <1>0
  <2> QED BY <1>0, <2>1, <2>2 DEF WalletFirst
<1> QED BY <1>0, <1>5, <1>6, <1>7, <1>8, ProvidesOn, ProvidedMeans

LEMMA PutsKeep ==
  ASSUME AccountsInv, NEW w \in Tasks,
         PutSettings(w) \/ PutWallet(w) \/ PutSeed(w) \/ PutDefaults(w) \/ PutFeed(w)
  PROVE  AccountsInv'
<1>1. CASE PutSettings(w)
  BY <1>1, PutKeeps DEF PutSettings, Pieces
<1>2. CASE PutWallet(w)
  BY <1>2, PutKeeps DEF PutWallet, Pieces
<1>3. CASE PutSeed(w)
  BY <1>3, PutKeeps DEF PutSeed, Pieces
<1>4. CASE PutDefaults(w)
  BY <1>4, PutKeeps DEF PutDefaults, Pieces
<1>5. CASE PutFeed(w)
  BY <1>5, PutKeeps DEF PutFeed, Pieces
<1> QED BY <1>1, <1>2, <1>3, <1>4, <1>5

LEMMA ProvideFailsKeeps ==
  ASSUME AccountsInv, NEW w \in Tasks, ProvideFails(w)
  PROVE  AccountsInv'
<1> DEFINE x == task[w]
<1>0. /\ x.at = "provide" /\ x.row \in Rows /\ tokens \subseteq Rows /\ spared \subseteq Rows
      /\ users \in Seq(Person) /\ mishaps \in 0 .. AccountFaults
  BY AtWork DEF Fits, Rowed, TaskType, AccountsInv, UsersOK, NotesOK, ProvideFails, IsAt
<1>1. /\ users' = users /\ codes' = codes /\ linked' = linked /\ twice' = twice /\ plan' = plan
      /\ mishaps' = mishaps + 1 /\ mishaps < AccountFaults
  BY DEF ProvideFails, tables
<1>2. /\ spared \subseteq spared' /\ spared' \subseteq Rows
      /\ Head(x.todo) \in {"settings", "wallet", "seed"} => x.row \in spared'
  BY <1>0 DEF ProvideFails
<1>3. /\ tokens' \subseteq Rows
      /\ \/ Tail(x.todo) # << >> /\ task' = [task EXCEPT ![w] = [x EXCEPT !.todo = Tail(x.todo)]]
         \/ Finish(w) /\ (Tail(x.todo) = << >> \/ x.row \in spared')
  <2>1. CASE Head(x.todo) = "settings"
    BY <1>0, <1>2, <2>1 DEF ProvideFails
  <2>2. CASE Head(x.todo) # "settings"
    BY <1>0, <2>2, ProvidedMeans DEF ProvideFails
  <2> QED BY <2>1, <2>2
<1>4. Gains
  BY <1>0, <1>1, <1>2, <1>3, AccountsAssumption DEF Gains
<1> QED BY <1>0, <1>2, <1>3, <1>4, ProvidesOn

\* A row that is added, with a list of what belongs to it.
LEMMA AddedKeeps ==
  ASSUME AccountsInv, NEW w \in Tasks, NEW row \in Person, NEW todo \in Seq(Pieces), Seeds(todo),
         task[w].at \in {"insert", "insertEmail"}, Added(w, row, todo),
         row.tg = NoOne \/ OfTelegram(row.tg) = {}, UNCHANGED <<codes, tokens, history, limits>>
  PROVE  AccountsInv'
<1> PICK n : n = Len(users) + 1
  OBVIOUS
<1> PICK k : k = [task[w] EXCEPT !.at = "provide", !.row = n, !.todo = todo]
  OBVIOUS
<1>0. /\ task[w] \in TaskType /\ Fits(w, task[w])
      /\ UsersOK /\ CodesOK /\ TasksOK /\ NotesOK /\ OneTelegram /\ OneUsable /\ LinkIsKept /\ SeedKnown
  BY AtWork DEF AccountsInv
<1>1. /\ codes' = codes /\ tokens' = tokens /\ linked' = linked /\ twice' = twice
      /\ spared' = spared /\ plan' = plan /\ mishaps' = mishaps
  BY DEF history, limits
<1>2. /\ users' \in Seq(Person) /\ Len(users') = n /\ users'[n] = row
      /\ \A r \in Rows : users'[r] = users[r]
      /\ Rows = 1 .. Len(users) /\ Rows' = 1 .. n /\ n \in Nat /\ n <= MaxRows
  <2>1. users' \in Seq(Person) /\ Extends(users', users, row)
    BY <1>0, RowAdded, Zenon DEF Added, UsersOK
  <2>2. Len(users) \in Nat /\ Len(users) < MaxRows
    BY <1>0 DEF Added, UsersOK
  <2> QED BY <1>0, <2>1, <2>2, AccountsAssumption DEF Extends, UsersOK, Rows
<1>3. Rows \subseteq Rows' /\ n \in Rows' /\ n \notin Rows /\ Rows' = Rows \cup {n}
  BY <1>0, <1>2 DEF UsersOK
<1>4. /\ k \in TaskType' /\ task' = [task EXCEPT ![w] = k]
      /\ k.at = "provide" /\ k.row = n /\ k.todo = todo
  <2>1. task' = [task EXCEPT ![w] = k]
    BY <1>0 DEF Added
  <2>2. TaskType \subseteq TaskType'
    BY <1>1, <1>3, TypesGrow
  <2>3. task[w] \in TaskType'
    BY <1>0, <2>2
  <2> QED BY <1>3, <2>1, <2>3 DEF TaskType, Places
<1>5. UsersOK' /\ CodesOK' /\ NotesOK'
  <2>1. UsersOK'
    BY <1>2 DEF UsersOK
  <2>2. CodesOK'
    <3>1. CodeType \subseteq CodeType'
      BY <1>3 DEF CodeType
    <3> QED BY <1>0, <1>1, <3>1, RowsOfMore DEF CodesOK
  <2>3. NotesOK'
    BY <1>0, <1>1, <1>3 DEF NotesOK
  <2> QED BY <2>1, <2>2, <2>3
<1>6. OneTelegram'
  <2>1. ASSUME NEW r \in Rows', NEW q \in Rows', users'[r].tg = users'[q].tg, users'[r].tg # NoOne
        PROVE  r = q
    <3>1. CASE r \in Rows /\ q \in Rows
      BY <1>0, <1>2, <2>1, <3>1 DEF OneTelegram
    <3>2. CASE r = n /\ q \in Rows
      BY <1>2, <2>1, <3>2 DEF OfTelegram
    <3>3. CASE r \in Rows /\ q = n
      BY <1>2, <2>1, <3>3 DEF OfTelegram
    <3> QED BY <1>3, <2>1, <3>1, <3>2, <3>3
  <2> QED BY <2>1 DEF OneTelegram
<1>7. OneUsable' /\ LinkIsKept'
  BY <1>0, <1>1, <1>2 DEF OneUsable, Usable, LinkIsKept, NotesOK
<1>8. SeedKnown'
  <2>1. task'[w] = k /\ \A v \in Tasks \ {w} : task'[v] = task[v]
    BY <1>0, <1>4 DEF TasksOK
  <2>2. Seeding(w, n)'
    <3>1. PICK i \in DOMAIN todo : todo[i] = "seed"
      BY DEF Seeds
    <3>2. task'[w].at = "provide" /\ task'[w].row = n /\ task'[w].todo = todo
      BY <1>4, <2>1
    <3> QED BY <3>1, <3>2 DEF Seeding
  <2>3. ASSUME NEW r \in Rows, "seed" \notin users[r].has, r \notin spared
        PROVE  \E v \in Tasks : Seeding(v, r)'
    <3>1. PICK v \in Tasks : Seeding(v, r)
      BY <1>0, <2>3 DEF SeedKnown
    <3>2. v # w
      BY <3>1 DEF Seeding
    <3> QED BY <2>1, <3>1, <3>2 DEF Seeding
  <2> QED BY <1>1, <1>2, <1>3, <2>2, <2>3 DEF SeedKnown
<1>9. Grows({w}) /\ Near(w, k) /\ Fits(w, k)'
  <2>1. Grows({w})
    BY <1>0, <1>1, <1>2, <1>3, <1>4 DEF Grows, TasksOK
  <2>2. Near(w, k)
    BY <1>4 DEF Near, Redeems, Idler
  <2>3. WalletFirst(k)'
    BY <1>4 DEF WalletFirst, Seeds
  <2>4. Fits(w, k)'
    BY <1>2, <1>4, <2>3 DEF Fits, Seeds, Redeems, Rowed
  <2> QED BY <2>1, <2>2, <2>4
<1> QED BY <1>4, <1>5, <1>6, <1>7, <1>8, <1>9, MoveKeeps

LEMMA InsertsKeep ==
  ASSUME AccountsInv, NEW w \in Tasks, InsertTelegram(w) \/ InsertEmail(w)
  PROVE  AccountsInv'
<1>0. task[w] \in TaskType
  BY AtWork
<1>1. CASE InsertTelegram(w)
  <2> DEFINE row == [tg |-> task[w].tg, email |-> NoOne, merged |-> 0, has |-> {"settings"}]
  <2>1. row \in Person
    BY <1>0, AccountsAssumption DEF Person, TaskType, Pieces
  <2> QED BY <1>1, <2>1, ListsFit, AddedKeeps DEF InsertTelegram, IsAt
<1>2. CASE InsertEmail(w)
  <2> DEFINE row == [tg |-> NoOne, email |-> task[w].email, merged |-> 0, has |-> {}]
  <2>1. row \in Person
    BY <1>0, AccountsAssumption DEF Person, TaskType, Pieces
  <2> QED BY <1>2, <2>1, ListsFit, AddedKeeps DEF InsertEmail, IsAt
<1> QED BY <1>1, <1>2

\* Who was to seed a row still is, if no seeding worker moved.
LEMMA SeedersStay ==
  ASSUME SeedKnown, Rows' = Rows, \A r \in Rows : users[r].has \subseteq users'[r].has,
         spared \subseteq spared',
         \A v \in Tasks : task[v].at = "provide" => task'[v] = task[v]
  PROVE  SeedKnown'
<1>1. SUFFICES ASSUME NEW r \in Rows, "seed" \notin users'[r].has, r \notin spared'
               PROVE  \E v \in Tasks : Seeding(v, r)'
  BY DEF SeedKnown
<1>2. PICK v \in Tasks : Seeding(v, r)
  BY <1>1 DEF SeedKnown
<1> QED BY <1>2 DEF Seeding

\* Steps in which one worker ends, or none moves.
LEMMA EndKeeps ==
  ASSUME AccountsInv, NEW w \in Tasks, Finish(w), task[w].at # "provide", Grows({w}),
         UsersOK', CodesOK', NotesOK', OneTelegram', OneUsable', LinkIsKept', Rows' = Rows
  PROVE  AccountsInv'
<1>0. TasksOK /\ SeedKnown
  BY DEF AccountsInv
<1>1. Idler \in TaskType' /\ Near(w, Idler) /\ Fits(w, Idler)'
  <2>1. TaskType \subseteq TaskType'
    BY TypesGrow DEF Grows
  <2> QED BY <2>1, IdlerTyped DEF Near, Fits, Idler, Redeems, Rowed
<1>2. SeedKnown'
  <2>1. \A v \in Tasks : task[v].at = "provide" => task'[v] = task[v]
    BY <1>0 DEF TasksOK, Finish
  <2> QED BY <1>0, <2>1, SeedersStay DEF Grows
<1> QED BY <1>1, <1>2, MoveKeeps DEF Finish

LEMMA StillKeeps ==
  ASSUME AccountsInv, task' = task, Grows({}),
         UsersOK', CodesOK', NotesOK', OneTelegram', OneUsable', LinkIsKept', Rows' = Rows
  PROVE  AccountsInv'
<1>0. /\ TasksOK /\ UsersOK /\ CodesOK /\ NotesOK /\ AllFit /\ Apart /\ SeedKnown
      /\ TaskType \subseteq TaskType'
  BY TypesGrow DEF AccountsInv, Grows
<1>1. TasksOK'
  BY <1>0 DEF TasksOK
<1>2. AllFit'
  BY <1>0, OthersFit DEF AllFit
<1>3. Apart'
  BY <1>0 DEF Apart, Grows
<1>4. SeedKnown'
  BY <1>0, SeedersStay DEF Grows
<1> QED BY <1>1, <1>2, <1>3, <1>4 DEF AccountsInv

LEMMA PutEmailKeeps ==
  ASSUME AccountsInv, NEW w \in Tasks, PutEmail(w)
  PROVE  AccountsInv'
<1> DEFINE x == task[w]
<1> PICK row : row = [users[x.row] EXCEPT !.email = x.email]
  OBVIOUS
<1>0. /\ x \in TaskType /\ x.at = "putEmail" /\ x.row \in Rows /\ users \in Seq(Person) /\ TasksOK
      /\ NotesOK
  BY AtWork DEF Fits, Rowed, TaskType, AccountsInv, UsersOK, PutEmail, IsAt
<1>1. /\ row \in Person /\ row.has = users[x.row].has /\ row.tg = users[x.row].tg
      /\ x.row \in DOMAIN users
  <2>1. users[x.row] \in Person
    BY <1>0 DEF Rows
  <2> QED BY <1>0, <2>1 DEF Person, TaskType, Rows
<1>2. users' = [users EXCEPT ![x.row] = row]
  BY DEF PutEmail
<1>3. users' \in Seq(Person) /\ Len(users') = Len(users)
  <2>1. /\ [users EXCEPT ![x.row] = row] \in Seq(Person)
        /\ Len([users EXCEPT ![x.row] = row]) = Len(users)
        /\ DOMAIN [users EXCEPT ![x.row] = row] = DOMAIN users
    BY <1>0, <1>1, RowPut
  <2> QED BY <1>2, <2>1
<1>4. \A r \in Rows : users'[r].tg = users[r].tg /\ users'[r].has = users[r].has
  <2>1. users'[x.row] = row /\ \A r \in Rows : r # x.row => users'[r] = users[r]
    BY <1>0, <1>2 DEF Rows
  <2> QED BY <1>1, <2>1
<1>5. Gains
  BY <1>0, <1>3, <1>4 DEF Gains, PutEmail, history, limits, NotesOK
<1>6. Finish(w) /\ \A v \in Tasks \ {w} : task'[v] = task[v]
  BY <1>0 DEF PutEmail, Finish, TasksOK
<1> QED BY <1>0, <1>5, <1>6, GainsKeep, EndKeeps

LEMMA TradeOnKeeps ==
  ASSUME AccountsInv, NEW r \in Rows, TradeOn(r)
  PROVE  AccountsInv'
<1> PICK row : row = [users[r] EXCEPT !.has = @ \cup {"history"}]
  OBVIOUS
<1>0. users \in Seq(Person) /\ NotesOK
  BY DEF AccountsInv, UsersOK
<1>1. /\ row \in Person /\ row.has = users[r].has \cup {"history"} /\ row.tg = users[r].tg
      /\ r \in DOMAIN users
  <2>1. users[r] \in Person
    BY <1>0 DEF Rows
  <2> QED BY <1>0, <2>1 DEF Person, Pieces, Rows
<1>2. users' = [users EXCEPT ![r] = row]
  BY DEF TradeOn
<1>3. users' \in Seq(Person) /\ Len(users') = Len(users)
  <2>1. /\ [users EXCEPT ![r] = row] \in Seq(Person)
        /\ Len([users EXCEPT ![r] = row]) = Len(users)
        /\ DOMAIN [users EXCEPT ![r] = row] = DOMAIN users
    BY <1>0, <1>1, RowPut
  <2> QED BY <1>2, <2>1
<1>4. \A q \in Rows : users'[q].tg = users[q].tg /\ users[q].has \subseteq users'[q].has
  <2>1. users'[r] = row /\ \A q \in Rows : q # r => users'[q] = users[q]
    BY <1>0, <1>2 DEF Rows
  <2> QED BY <1>1, <2>1
<1>5. Gains /\ task' = task
  BY <1>0, <1>3, <1>4 DEF Gains, TradeOn, history, limits, NotesOK
<1> QED BY <1>5, GainsKeep, StillKeeps

LEMMA LoginKeeps ==
  ASSUME AccountsInv, NEW w \in Tasks, NEW e \in Emails, Login(w, e)
  PROVE  AccountsInv'
<1>0. users \in Seq(Person) /\ NotesOK
  BY DEF AccountsInv, UsersOK
<1>1. Gains /\ task' = task
  BY <1>0 DEF Gains, Login, OfEmail, tables, history, limits, NotesOK
<1> QED BY <1>1, GainsKeep, StillKeeps

\* A step that changes codes, and with them what is known of double ones.
LEMMA CodesOnly ==
  ASSUME AccountsInv, users' = users, linked' = linked, tokens' = tokens, spared' = spared,
         plan' = plan, mishaps' = mishaps, twice \subseteq twice', twice' \subseteq Rows
  PROVE  Rows' = Rows /\ UsersOK' /\ NotesOK' /\ OneTelegram' /\ LinkIsKept'
<1>0. UsersOK /\ NotesOK /\ OneTelegram /\ LinkIsKept /\ Rows' = Rows
  BY DEF AccountsInv, Rows
<1> QED BY <1>0 DEF UsersOK, NotesOK, OneTelegram, LinkIsKept

LEMMA ExpireKeeps ==
  ASSUME AccountsInv, NEW c \in DOMAIN codes, Expire(c)
  PROVE  AccountsInv'
<1>0. /\ CodesOK /\ NotesOK /\ OneUsable
      /\ users' = users /\ task' = task /\ linked' = linked /\ tokens' = tokens
      /\ spared' = spared /\ twice' = twice /\ plan' = plan /\ mishaps' = mishaps
  BY DEF AccountsInv, Expire, history, limits
<1>1. Rows' = Rows /\ UsersOK' /\ NotesOK' /\ OneTelegram' /\ LinkIsKept'
  BY <1>0, CodesOnly DEF NotesOK
<1> PICK row : row = [codes[c] EXCEPT !.state = "expired"]
  OBVIOUS
<1>2. codes[c] \in CodeType
  BY <1>0 DEF CodesOK
<1>3. /\ row \in CodeType /\ row.row = codes[c].row
      /\ codes' = [codes EXCEPT ![c] = row] /\ codes[c].state = "fresh"
  BY <1>2 DEF CodeStates, CodeType, Expire
<1>4. CodesOK' /\ DOMAIN codes' = DOMAIN codes
  <2>1. /\ [codes EXCEPT ![c] = row] \in Seq(CodeType)
        /\ Len([codes EXCEPT ![c] = row]) = Len(codes)
        /\ DOMAIN [codes EXCEPT ![c] = row] = DOMAIN codes
    BY <1>0, <1>3, RowPut DEF CodesOK
  <2> QED BY <1>1, <1>3, <2>1 DEF CodesOK, CodeType
<1>5. /\ codes'[c] = row /\ \A d \in DOMAIN codes : d # c => codes'[d] = codes[d]
  BY <1>0, <1>3 DEF CodesOK
<1>6. OneUsable'
  <2>1. \A d \in DOMAIN codes : codes'[d].row = codes[d].row /\ (Usable(d)' => Usable(d))
    BY <1>3, <1>5 DEF Usable
  <2> QED BY <1>0, <1>4, <2>1 DEF OneUsable
<1>7. Grows({})
  <2>1. ASSUME NEW v \in Tasks, task[v].at \in Redeems PROVE task[v].code # c
    BY <2>1 DEF Expire, Locked, Redeems
  <2>2. \A v \in Tasks : task[v].at \in Redeems => task[v].code \in DOMAIN codes
    BY AtWork DEF Fits, TaskType
  <2> QED BY <1>0, <1>1, <1>4, <1>5, <2>1, <2>2 DEF Grows
<1> QED BY <1>0, <1>1, <1>4, <1>6, <1>7, StillKeeps

LEMMA DropCodesKeeps ==
  ASSUME AccountsInv, NEW w \in Tasks, DropCodes(w)
  PROVE  AccountsInv'
<1>0. /\ CodesOK /\ NotesOK /\ OneUsable /\ TasksOK /\ SeedKnown
      /\ users' = users /\ linked' = linked /\ tokens' = tokens
      /\ spared' = spared /\ twice' = twice /\ plan' = plan /\ mishaps' = mishaps
      /\ task[w].at = "drop" /\ task[w] \in TaskType /\ Fits(w, task[w])
  BY AtWork DEF AccountsInv, DropCodes, history, limits, IsAt
<1> PICK k : k = [task[w] EXCEPT !.at = "mint"]
  OBVIOUS
<1>1. Rows' = Rows /\ UsersOK' /\ NotesOK' /\ OneTelegram' /\ LinkIsKept'
  BY <1>0, CodesOnly DEF NotesOK
<1>2. CodesOK' /\ DOMAIN codes' = DOMAIN codes
  <2>1. Len(codes) \in Nat /\ DOMAIN codes = 1 .. Len(codes) /\ \A d \in DOMAIN codes : codes[d] \in CodeType
    BY <1>0 DEF CodesOK
  <2>2. ASSUME NEW d \in DOMAIN codes
        PROVE  (IF d \in OfRow(task[w].row) THEN [codes[d] EXCEPT !.state = "gone"] ELSE codes[d]) \in CodeType
    BY <2>1 DEF CodeStates, CodeType
  <2>3. codes' \in [1 .. Len(codes) -> CodeType]
    BY <2>1, <2>2 DEF DropCodes
  <2>4. codes' \in Seq(CodeType) /\ DOMAIN codes' = DOMAIN codes
    BY <2>1, <2>3
  <2>5. CodeType' = CodeType
    BY <1>1 DEF CodeType
  <2> QED BY <2>4, <2>5 DEF CodesOK
<1>3. /\ \A d \in DOMAIN codes : codes'[d].row = codes[d].row /\ (Usable(d)' => Usable(d))
      /\ \A d \in DOMAIN codes : d \notin OfRow(task[w].row) => codes'[d] = codes[d]
  <2>1. \A d \in DOMAIN codes : codes[d] \in CodeType
    BY <1>0 DEF CodesOK
  <2> QED BY <2>1 DEF DropCodes, Usable, CodeStates, CodeType
<1>4. OneUsable'
  BY <1>0, <1>2, <1>3 DEF OneUsable
<1>5. k \in TaskType' /\ task' = [task EXCEPT ![w] = k] /\ k.at = "mint" /\ k.row # 0
  <2>1. task' = [task EXCEPT ![w] = k] /\ k \in TaskType /\ k.at = "mint" /\ k.row = task[w].row
    BY <1>0 DEF DropCodes, Then, TaskType, Places
  <2>2. TaskType \subseteq TaskType'
    BY <1>1, <1>2, TypesGrow
  <2> QED BY <1>0, <2>1, <2>2 DEF Fits, Rowed
<1>6. Near(w, k) /\ Fits(w, k)'
  BY <1>0, <1>5 DEF Near, Fits, Redeems, Rowed, Idler
<1>7. \A v \in Tasks \ {w} : task'[v] = task[v]
  BY <1>0, <1>5 DEF TasksOK
<1>8. Grows({w})
  <2>1. ASSUME NEW v \in Tasks, task[v].at \in Redeems
        PROVE  task[v].code \notin OfRow(task[w].row)
    BY <2>1 DEF DropCodes, Locked, Redeems
  <2>2. \A v \in Tasks : task[v].at \in Redeems => task[v].code \in DOMAIN codes
    BY AtWork DEF Fits, TaskType
  <2> QED BY <1>0, <1>1, <1>2, <1>3, <1>7, <2>1, <2>2 DEF Grows
<1>9. SeedKnown'
  <2>1. \A v \in Tasks : task[v].at = "provide" => task'[v] = task[v]
    BY <1>0, <1>7
  <2> QED BY <1>0, <1>1, <2>1, SeedersStay
<1> QED BY <1>1, <1>2, <1>4, <1>5, <1>6, <1>8, <1>9, MoveKeeps

LEMMA MintKeeps ==
  ASSUME AccountsInv, NEW w \in Tasks, Mint(w)
  PROVE  AccountsInv'
<1> PICK new : new = [row |-> task[w].row, state |-> "fresh"]
  OBVIOUS
<1> PICK n : n = Len(codes) + 1
  OBVIOUS
<1>0. /\ CodesOK /\ NotesOK /\ OneUsable /\ TasksOK
      /\ users' = users /\ linked' = linked /\ tokens' = tokens
      /\ spared' = spared /\ plan' = plan /\ mishaps' = mishaps
      /\ task[w].at = "mint" /\ task[w] \in TaskType /\ task[w].row \in Rows
      /\ codes' = Append(codes, new) /\ Finish(w)
      /\ twice' = IF OfRow(task[w].row) # {} THEN twice \cup {task[w].row} ELSE twice
  BY AtWork DEF AccountsInv, Mint, limits, IsAt, Fits, Rowed, TaskType
<1>1. Rows' = Rows /\ UsersOK' /\ NotesOK' /\ OneTelegram' /\ LinkIsKept' /\ twice \subseteq twice'
  BY <1>0, CodesOnly DEF NotesOK
<1>2. new \in CodeType /\ new.row = task[w].row /\ new.state = "fresh"
  BY <1>0 DEF CodeType, CodeStates
<1>3. /\ codes' \in Seq(CodeType) /\ Len(codes') = n /\ n \in Nat
      /\ DOMAIN codes = 1 .. n - 1 /\ DOMAIN codes' = 1 .. n
      /\ codes'[n] = new /\ \A d \in DOMAIN codes : codes'[d] = codes[d]
  <2>1. codes' \in Seq(CodeType) /\ Extends(codes', codes, new)
    BY <1>0, <1>2, RowAdded, Zenon DEF CodesOK
  <2>2. Len(codes) \in Nat /\ DOMAIN codes = 1 .. Len(codes)
    BY <1>0 DEF CodesOK
  <2> QED BY <2>1, <2>2 DEF Extends
<1>4. CodesOK'
  <2>1. CodeType' = CodeType
    BY <1>1 DEF CodeType
  <2> QED BY <1>3, <2>1 DEF CodesOK
<1>5. OneUsable'
  <2>1. SUFFICES ASSUME twice' = {}, NEW c \in DOMAIN codes', NEW d \in DOMAIN codes',
                        Usable(c)', Usable(d)', codes'[c].row = codes'[d].row
                 PROVE  c = d
    BY DEF OneUsable
  <2>2. twice = {} /\ OfRow(task[w].row) = {}
    BY <1>0, <2>1
  <2>3. \A e \in DOMAIN codes : Usable(e)' => Usable(e)
    BY <1>3 DEF Usable
  <2>4. \A e \in DOMAIN codes : Usable(e) => codes[e].row # task[w].row
    BY <2>2 DEF OfRow
  <2>5. CASE c \in DOMAIN codes /\ d \in DOMAIN codes
    BY <1>0, <1>3, <2>1, <2>2, <2>3, <2>5 DEF OneUsable
  <2>6. CASE c \in DOMAIN codes /\ d = n
    BY <1>2, <1>3, <2>1, <2>3, <2>4, <2>6
  <2>7. CASE c = n /\ d \in DOMAIN codes
    BY <1>2, <1>3, <2>1, <2>3, <2>4, <2>7
  <2> QED BY <1>3, <2>1, <2>5, <2>6, <2>7
<1>6. Grows({w})
  <2>1. \A v \in Tasks \ {w} : task'[v] = task[v]
    BY <1>0 DEF TasksOK, Finish
  <2>2. \A v \in Tasks : task[v].at \in Redeems => task[v].code \in DOMAIN codes
    BY AtWork DEF Fits, TaskType
  <2> QED BY <1>0, <1>1, <1>3, <2>1, <2>2 DEF Grows
<1> QED BY <1>0, <1>1, <1>4, <1>5, <1>6, EndKeeps

\* The row lock: the one that reads the code finds nobody who redeems it.
LEMMA ReadCodeKeeps ==
  ASSUME AccountsInv, NEW w \in Tasks, ReadCode(w)
  PROVE  AccountsInv'
<1> DEFINE x == task[w]
<1>0. /\ x \in TaskType /\ Fits(w, x) /\ x.at = "code" /\ CodesOK /\ OneTelegram
      /\ UNCHANGED <<tables, history, limits>> /\ tokens' \subseteq Rows
  BY AtWork DEF ReadCode, IsAt, AccountsInv, NotesOK
<1>1. CASE codes[x.code].state = "fresh"
  <2> PICK k : k = [x EXCEPT !.at = "primary", !.row = codes[x.code].row]
    OBVIOUS
  <2>1. /\ task' = [task EXCEPT ![w] = k] /\ x.code \in DOMAIN codes
        /\ codes[x.code].row \in Rows /\ codes[x.code].row # 0
    <3>1. x.code \in DOMAIN codes
      BY <1>0 DEF Fits, TaskType
    <3>2. codes[x.code] \in CodeType
      BY <1>0, <3>1 DEF CodesOK
    <3>3. 0 \notin Rows
      BY DEF Rows, AccountsInv, UsersOK
    <3> QED BY <1>1, <3>1, <3>2, <3>3 DEF ReadCode, CodeType
  <2>2. /\ k \in TaskType /\ k.at = "primary" /\ k.row = codes[x.code].row /\ k.code = x.code
        /\ k.tg = x.tg /\ k.dup = x.dup
    BY <1>0, <2>1 DEF TaskType, Places
  <2>3. Fits(w, k)
    BY <1>0, <1>1, <2>1, <2>2 DEF Fits, Redeems, Rowed
  <2>4. Near(w, k)
    BY <1>0, <2>2 DEF Near, ReadCode, Locked, Redeems, Idler
  <2>5. \A r \in Rows : ~Seeding(w, r)
    BY <1>0 DEF Seeding
  <2> QED BY <1>0, <2>1, <2>2, <2>3, <2>4, <2>5, QuietMove
<1>2. CASE codes[x.code].state # "fresh"
  BY <1>0, <1>2, Ends DEF ReadCode
<1> QED BY <1>1, <1>2

\* A redemption that consumes its code.
LEMMA ConsumedKeeps ==
  ASSUME AccountsInv, NEW w \in Tasks, task[w].at \in Redeems, Consumed(w), Finish(w),
         UNCHANGED <<twice, spared, limits>>
  PROVE  /\ codes' \in Seq(CodeType) /\ DOMAIN codes' = DOMAIN codes
         /\ \A v \in Tasks \ {w} : task[v].at \in Redeems => codes'[task[v].code] = codes[task[v].code]
         /\ \A v \in Tasks \ {w} : task'[v] = task[v]
         /\ OneUsable'
<1> DEFINE c == task[w].code
<1>0. /\ CodesOK /\ OneUsable /\ TasksOK /\ Apart /\ c \in DOMAIN codes /\ twice' = twice
  BY AtWork DEF AccountsInv, Fits, TaskType
<1> PICK row : row = [codes[c] EXCEPT !.state = "used"]
  OBVIOUS
<1>1. /\ row \in CodeType /\ row.row = codes[c].row /\ row.state = "used"
      /\ codes' = [codes EXCEPT ![c] = row]
  <2>1. codes[c] \in CodeType
    BY <1>0 DEF CodesOK
  <2> QED BY <2>1 DEF CodeType, CodeStates, Consumed
<1>2. codes' \in Seq(CodeType) /\ DOMAIN codes' = DOMAIN codes
  <2>1. /\ [codes EXCEPT ![c] = row] \in Seq(CodeType)
        /\ Len([codes EXCEPT ![c] = row]) = Len(codes)
        /\ DOMAIN [codes EXCEPT ![c] = row] = DOMAIN codes
    BY <1>0, <1>1, RowPut DEF CodesOK
  <2> QED BY <1>1, <2>1
<1>3. codes'[c] = row /\ \A d \in DOMAIN codes : d # c => codes'[d] = codes[d]
  BY <1>0, <1>1 DEF CodesOK
<1>4. \A v \in Tasks \ {w} : task[v].at \in Redeems => codes'[task[v].code] = codes[task[v].code]
  <2>1. \A v \in Tasks : task[v].at \in Redeems => task[v].code \in DOMAIN codes
    BY AtWork DEF Fits, TaskType
  <2> QED BY <1>0, <1>3, <2>1 DEF Apart
<1>5. \A v \in Tasks \ {w} : task'[v] = task[v]
  BY <1>0 DEF TasksOK, Finish
<1>6. OneUsable'
  <2>1. \A d \in DOMAIN codes : codes'[d].row = codes[d].row /\ (Usable(d)' => Usable(d))
    BY <1>1, <1>3 DEF Usable
  <2> QED BY <1>0, <1>2, <2>1 DEF OneUsable
<1> QED BY <1>2, <1>4, <1>5, <1>6

\* The account has the Telegram already.
LEMMA AlreadyKeeps ==
  ASSUME AccountsInv, NEW w \in Tasks, task[w].at \in Redeems, Already(w),
         UNCHANGED <<users, tokens, twice, spared, limits>>,
         users[task[w].row].tg = task[w].tg
  PROVE  AccountsInv'
<1>0. /\ UsersOK /\ CodesOK /\ NotesOK /\ OneTelegram /\ LinkIsKept
      /\ users' = users /\ tokens' = tokens /\ spared' = spared /\ twice' = twice
      /\ plan' = plan /\ mishaps' = mishaps /\ Consumed(w) /\ Told(w) /\ Finish(w) /\ Rows' = Rows
      /\ task[w] \in TaskType /\ task[w].row \in Rows /\ task[w].tg \in Telegrams
  BY AtWork DEF AccountsInv, Already, limits, Rows, Fits, Redeems, Rowed, TaskType
<1>1. /\ codes' \in Seq(CodeType) /\ DOMAIN codes' = DOMAIN codes
      /\ \A v \in Tasks \ {w} : task[v].at \in Redeems => codes'[task[v].code] = codes[task[v].code]
      /\ \A v \in Tasks \ {w} : task'[v] = task[v]
      /\ OneUsable'
  BY <1>0, ConsumedKeeps
<1>2. CodesOK' /\ UsersOK' /\ OneTelegram'
  <2>1. CodeType' = CodeType
    BY <1>0 DEF CodeType
  <2> QED BY <1>0, <1>1, <2>1 DEF CodesOK, UsersOK, OneTelegram
<1>3. NotesOK'
  BY <1>0 DEF NotesOK, Told
<1>4. LinkIsKept'
  BY <1>0 DEF LinkIsKept, NotesOK, Told
<1>5. Grows({w})
  BY <1>0, <1>1 DEF Grows
<1>6. task[w].at # "provide"
  BY DEF Redeems
<1> QED BY <1>0, <1>1, <1>2, <1>3, <1>4, <1>5, <1>6, EndKeeps

LEMMA ReadPrimaryKeeps ==
  ASSUME AccountsInv, NEW w \in Tasks, ReadPrimary(w)
  PROVE  AccountsInv'
<1> DEFINE x == task[w]
<1>0. x \in TaskType /\ Fits(w, x) /\ x.at = "primary" /\ x.at \in Redeems
  BY AtWork DEF ReadPrimary, IsAt, Redeems
<1>1. CASE users[x.row].tg = NoOne
  <2> PICK k : k = [x EXCEPT !.at = "dup"]
    OBVIOUS
  <2>1. Proceed(w, "dup") /\ UNCHANGED <<users, tokens, twice, spared, limits>>
    <3>1. x.tg # NoOne
      BY <1>0 DEF Fits
    <3> QED BY <1>1, <3>1 DEF ReadPrimary
  <2>2. /\ k \in TaskType /\ task' = [task EXCEPT ![w] = k] /\ k.at = "dup" /\ k.row = x.row
        /\ k.code = x.code /\ k.tg = x.tg /\ k.dup = x.dup
    BY <1>0, <2>1 DEF Proceed, Then, TaskType, Places
  <2>3. Fits(w, k)
    BY <1>0, <1>1, <2>2 DEF Fits, Redeems, Rowed
  <2>4. UNCHANGED <<tables, tokens, history, limits>>
    BY <2>1 DEF Proceed, tables, history
  <2> QED BY <1>0, <2>2, <2>3, <2>4, GoesOn
<1>2. CASE users[x.row].tg # NoOne /\ users[x.row].tg = x.tg
  <2>1. Already(w) /\ UNCHANGED <<users, tokens, twice, spared, limits>>
    BY <1>2 DEF ReadPrimary
  <2> QED BY <1>0, <1>2, <2>1, AlreadyKeeps
<1>3. CASE users[x.row].tg # NoOne /\ users[x.row].tg # x.tg
  <2>1. Refuse(w) /\ UNCHANGED <<users, tokens, twice, spared, limits>>
    BY <1>3 DEF ReadPrimary
  <2>2. UNCHANGED <<tables, history, limits>> /\ tokens' \subseteq Rows /\ Finish(w)
    BY <2>1 DEF Refuse, tables, history, AccountsInv, NotesOK
  <2> QED BY <1>0, <2>2, Ends
<1> QED BY <1>1, <1>2, <1>3

LEMMA ReadDuplicateKeeps ==
  ASSUME AccountsInv, NEW w \in Tasks, ReadDuplicate(w)
  PROVE  AccountsInv'
<1> DEFINE x == task[w]
           dup == OfTelegram(x.tg)
<1>0. /\ x \in TaskType /\ Fits(w, x) /\ x.at = "dup" /\ x.at \in Redeems
      /\ UNCHANGED <<users, tokens, twice, spared, limits>>
  BY AtWork DEF ReadDuplicate, IsAt, Redeems
<1>1. CASE dup = {x.row}
  <2>1. Already(w)
    BY <1>1 DEF ReadDuplicate
  <2>2. users[x.row].tg = x.tg
    BY <1>1 DEF OfTelegram
  <2> QED BY <1>0, <2>1, <2>2, AlreadyKeeps
<1>2. CASE dup = {}
  <2> PICK k : k = [x EXCEPT !.at = "attach"]
    OBVIOUS
  <2>1. Proceed(w, "attach")
    BY <1>2 DEF ReadDuplicate
  <2>2. /\ k \in TaskType /\ task' = [task EXCEPT ![w] = k] /\ k.at = "attach" /\ k.row = x.row
        /\ k.code = x.code /\ k.tg = x.tg /\ k.dup = x.dup
    BY <1>0, <2>1 DEF Proceed, Then, TaskType, Places
  <2>3. x.dup = 0
    BY <1>0 DEF Fits
  <2>4. Fits(w, k)
    BY <1>0, <2>2, <2>3 DEF Fits, Redeems, Rowed
  <2>5. UNCHANGED <<tables, tokens, history, limits>>
    BY <1>0, <2>1 DEF Proceed, tables, history
  <2> QED BY <1>0, <2>2, <2>4, <2>5, GoesOn
<1>3. CASE dup # {x.row} /\ dup # {}
  <2> PICK k : k = [x EXCEPT !.at = "fresh", !.dup = The(dup)]
    OBVIOUS
  <2>1. task' = [task EXCEPT ![w] = k] /\ UNCHANGED <<codes, linked>>
    BY <1>3 DEF ReadDuplicate
  <2>2. The(dup) \in dup
    BY <1>3, OneOf, Zenon
  <2>3. The(dup) \in Rows /\ The(dup) # 0
    BY <2>2 DEF OfTelegram, Rows, AccountsInv, UsersOK
  <2>4. /\ k \in TaskType /\ k.at = "fresh" /\ k.row = x.row
        /\ k.code = x.code /\ k.tg = x.tg /\ k.dup = The(dup)
    BY <1>0, <2>3 DEF TaskType, Places
  <2>5. Fits(w, k)
    BY <1>0, <1>3, <2>3, <2>4 DEF Fits, Redeems, Rowed
  <2>6. UNCHANGED <<tables, tokens, history, limits>>
    BY <1>0, <2>1 DEF tables, history
  <2> QED BY <1>0, <2>1, <2>4, <2>5, <2>6, GoesOn
<1> QED BY <1>1, <1>2, <1>3

LEMMA IsFreshKeeps ==
  ASSUME AccountsInv, NEW w \in Tasks, IsFresh(w)
  PROVE  AccountsInv'
<1> DEFINE x == task[w]
<1>0. /\ x \in TaskType /\ Fits(w, x) /\ x.at = "fresh" /\ x.at \in Redeems
      /\ UNCHANGED <<tables, tokens, history, limits>>
  BY AtWork DEF IsFresh, IsAt, Redeems
<1>1. CASE Finish(w)
  <2>1. UNCHANGED <<tables, history, limits>> /\ tokens' \subseteq Rows
    BY <1>0 DEF AccountsInv, NotesOK
  <2> QED BY <1>0, <1>1, <2>1, Ends
<1>2. CASE Then(w, "attach")
  <2> PICK k : k = [x EXCEPT !.at = "attach"]
    OBVIOUS
  <2>1. /\ k \in TaskType /\ task' = [task EXCEPT ![w] = k] /\ k.at = "attach" /\ k.row = x.row
        /\ k.code = x.code /\ k.tg = x.tg /\ k.dup = x.dup
    BY <1>0, <1>2 DEF Then, TaskType, Places
  <2>2. Fits(w, k)
    BY <1>0, <2>1 DEF Fits, Redeems, Rowed
  <2> QED BY <1>0, <2>1, <2>2, GoesOn
<1> QED BY <1>1, <1>2 DEF IsFresh

\* The rows are joined: whoever else redeems does so for another row, and the
\* Telegram id has a row again.
LEMMA AttachKeeps ==
  ASSUME AccountsInv, NEW w \in Tasks, Attach(w)
  PROVE  AccountsInv'
<1> DEFINE x == task[w]
<1>0. /\ UsersOK /\ CodesOK /\ TasksOK /\ NotesOK /\ AllFit /\ Apart /\ OneTelegram /\ OneUsable
      /\ LinkIsKept /\ SeedKnown
      /\ tokens' = tokens /\ spared' = spared /\ twice' = twice /\ plan' = plan /\ mishaps' = mishaps
      /\ users' = Unified(w) /\ Consumed(w) /\ Told(w) /\ Finish(w) /\ ~Clash(w)
      /\ x.at = "attach" /\ x.at \in Redeems
  BY DEF AccountsInv, Attach, limits, IsAt, Redeems
<1>1. /\ x \in TaskType /\ Fits(w, x) /\ x.row \in Rows /\ x.tg \in Telegrams /\ x.tg # NoOne
      /\ x.code \in DOMAIN codes /\ w \in BotTasks
      /\ codes[x.code].state = "fresh" /\ codes[x.code].row = x.row
  BY <1>0, AtWork DEF Fits, Redeems, Rowed, TaskType
<1>2. /\ Rows = 1 .. Len(users) /\ Len(users) \in Nat /\ \A r \in Rows : users[r] \in Person
  BY <1>0 DEF UsersOK, Rows
<1>3. /\ users' \in Seq(Person) /\ Len(users') = Len(users) /\ Rows' = Rows
      /\ \A r \in Rows : users'[r].has = users[r].has
      /\ \A r \in Rows : users'[r].tg = IF r = x.row THEN x.tg ELSE
                                        IF r = x.dup THEN NoOne ELSE users[r].tg
  <2> DEFINE one(r) == IF r = x.row THEN [users[r] EXCEPT !.tg = x.tg]
                       ELSE IF r = x.dup
                       THEN [users[r] EXCEPT !.tg = NoOne, !.merged = x.row,
                                             !.email = IF @ = NoOne THEN Merged ELSE @]
                       ELSE users[r]
  <2>1. x.row \in 0 .. MaxRows
    BY <1>0, <1>1, <1>2, AccountsAssumption DEF UsersOK
  <2>2. ASSUME NEW r \in Rows
        PROVE  /\ one(r) \in Person /\ one(r).has = users[r].has
               /\ one(r).tg = IF r = x.row THEN x.tg ELSE IF r = x.dup THEN NoOne ELSE users[r].tg
    <3>1. CASE r = x.row
      BY <1>1, <1>2, <3>1 DEF Person
    <3>2. CASE r # x.row /\ r = x.dup
      BY <1>2, <2>1, <3>2 DEF Person
    <3>3. CASE r # x.row /\ r # x.dup
      BY <1>2, <3>3
    <3> QED BY <3>1, <3>2, <3>3
  <2>3. users' = [r \in Rows |-> one(r)]
    BY <1>0 DEF Unified
  <2> HIDE DEF one
  <2>4. users' \in [1 .. Len(users) -> Person]
    BY <1>2, <2>2, <2>3
  <2>5. users' \in Seq(Person) /\ Len(users') = Len(users) /\ DOMAIN users' = 1 .. Len(users)
    BY <1>2, <2>4
  <2>6. \A r \in Rows : users'[r] = one(r)
    BY <2>3
  <2> QED BY <1>2, <2>2, <2>5, <2>6 DEF Rows
<1>4. UsersOK'
  BY <1>0, <1>3 DEF UsersOK
<1>5. /\ codes' \in Seq(CodeType) /\ DOMAIN codes' = DOMAIN codes /\ OneUsable'
      /\ \A v \in Tasks \ {w} : task[v].at \in Redeems => codes'[task[v].code] = codes[task[v].code]
      /\ \A v \in Tasks \ {w} : task'[v] = task[v]
  <2>1. UNCHANGED <<twice, spared, limits>>
    BY <1>0 DEF Attach
  <2> QED BY <1>0, <2>1, ConsumedKeeps
<1>6. CodesOK' /\ NotesOK'
  <2>1. CodeType' = CodeType
    BY <1>3 DEF CodeType
  <2> QED BY <1>0, <1>1, <1>3, <1>5, <2>1 DEF CodesOK, NotesOK, Told
<1>7. OneTelegram'
  <2>1. ASSUME NEW r \in Rows, r # x.row, users'[r].tg # NoOne
        PROVE  users'[r].tg = users[r].tg /\ users'[r].tg # x.tg
    <3>1. r # x.dup
      BY <1>3, <2>1
    <3>2. users'[r].tg = users[r].tg
      BY <1>3, <2>1, <3>1
    <3> QED BY <1>0, <2>1, <3>1, <3>2 DEF Clash, OfTelegram
  <2>2. users'[x.row].tg = x.tg
    BY <1>1, <1>3
  <2>3. ASSUME NEW r \in Rows, NEW q \in Rows, users'[r].tg = users'[q].tg, users'[r].tg # NoOne
        PROVE  r = q
    <3>1. CASE r = x.row
      BY <2>1, <2>2, <2>3, <3>1
    <3>2. CASE q = x.row
      BY <2>1, <2>2, <2>3, <3>2
    <3>3. CASE r # x.row /\ q # x.row
      BY <1>0, <2>1, <2>3, <3>3 DEF OneTelegram
    <3> QED BY <3>1, <3>2, <3>3
  <2> QED BY <1>3, <2>3 DEF OneTelegram
\* With a polling bot, or one usable code to an account:
<1>8. ASSUME Safe
      PROVE  users[x.row].tg = NoOne /\ (x.dup # 0 => x.dup \in Rows /\ users[x.dup].tg = x.tg)
  <2>1. users[x.row].tg = NoOne
    BY <1>0, <1>1, <1>8 DEF Fits
  <2>2. ASSUME x.dup # 0 PROVE x.dup \in Rows /\ users[x.dup].tg = x.tg
    <3>1. PICK r \in Rows : users[r].tg = x.tg
      BY <1>0, <1>1, <1>8, <2>2 DEF Fits, OfTelegram
    <3>2. r # x.row
      BY <1>1, <2>1, <3>1
    <3>3. r = x.dup
      BY <1>0, <3>1, <3>2 DEF Clash, OfTelegram
    <3> QED BY <3>1, <3>3
  <2> QED BY <2>1, <2>2
<1>9. ASSUME Safe, NEW t \in Telegrams, OfTelegram(t) # {}
      PROVE  OfTelegram(t)' # {}
  <2>1. PICK r \in Rows : users[r].tg = t
    BY <1>9 DEF OfTelegram
  <2>2. CASE t = x.tg
    <3>1. users'[x.row].tg = t
      BY <1>1, <1>3, <2>2
    <3> QED BY <1>1, <1>3, <3>1 DEF OfTelegram
  <2>3. CASE t # x.tg
    <3>1. r # x.row /\ r # x.dup
      <4>1. t # NoOne
        BY AccountsAssumption
      <4>2. r # x.row
        BY <1>8, <1>9, <2>1, <4>1
      <4>3. r # x.dup
        BY <1>2, <1>8, <1>9, <2>1, <2>3
      <4> QED BY <4>2, <4>3
    <3>2. users'[r].tg = t
      BY <1>3, <2>1, <3>1
    <3> QED BY <1>3, <3>2 DEF OfTelegram
  <2> QED BY <2>2, <2>3
<1>10. TasksOK'
  <2>1. TaskType' = TaskType
    BY <1>3, <1>5 DEF TaskType
  <2> QED BY <1>0, <2>1, IdlerTyped DEF TasksOK, Finish
<1>11. AllFit'
  <2>1. ASSUME NEW v \in Tasks, v # w PROVE Fits(v, task[v])'
    <3> DEFINE y == task[v]
    <3>0. /\ task'[v] = y /\ y \in TaskType /\ Fits(v, y) /\ (Safe' <=> Safe)
          /\ y.at \in Redeems => codes'[y.code] = codes[y.code] /\ y.code \in DOMAIN codes
      BY <1>0, <1>5, <2>1, AtWork DEF Safe, TaskType, Fits
    <3>1. y.at = "provide" => WalletFirst(y)'
      <4>1. ASSUME y.at = "provide" PROVE y.row \in Rows /\ WalletFirst(y)
        BY <3>0, <4>1 DEF Fits, TaskType, Rowed
      <4> QED BY <1>0, <1>3, <3>0, <4>1 DEF WalletFirst
    <3>2. y.at \in Redeems => codes'[y.code].state = "fresh" /\ codes'[y.code].row = y.row
      BY <3>0 DEF Fits
    <3>3. ASSUME Safe, y.at \in {"dup", "fresh", "attach"} PROVE users'[y.row].tg = NoOne
      <4>1. /\ y.at \in Redeems /\ v \in BotTasks /\ y.row \in Rows /\ users[y.row].tg = NoOne
            /\ codes[y.code].state = "fresh" /\ codes[y.code].row = y.row /\ y.code \in DOMAIN codes
        BY <3>0, <3>3 DEF Fits, Redeems, Rowed, TaskType
      <4>2. y.code # x.code
        BY <1>0, <2>1, <4>1 DEF Apart
      <4>3. twice = {}
        <5>1. y # Idler /\ x # Idler
          BY <1>0, <3>3 DEF Idler
        <5> QED BY <1>0, <1>1, <2>1, <3>3, <4>1, <5>1 DEF Apart, Safe
      <4>4. y.row # x.row
        BY <1>0, <1>1, <4>1, <4>2, <4>3 DEF OneUsable, Usable
      <4> QED BY <1>3, <4>1, <4>4
    <3>4. Safe /\ y.at \in {"fresh", "attach"} /\ y.dup # 0 => OfTelegram(y.tg)' # {}
      <4>1. ASSUME Safe, y.at \in {"fresh", "attach"}, y.dup # 0
            PROVE  OfTelegram(y.tg) # {} /\ y.tg \in Telegrams
        BY <3>0, <4>1 DEF Fits, Redeems, TaskType
      <4> QED BY <1>9, <3>0, <4>1
    <3> QED BY <3>0, <3>1, <3>2, <3>3, <3>4 DEF Fits
  <2>2. Fits(w, task[w])'
    <3>1. task'[w] = Idler
      BY <1>0 DEF TasksOK, Finish
    <3> QED BY <3>1 DEF Fits, Idler, Redeems, Rowed
  <2> QED BY <2>1, <2>2 DEF AllFit
<1>12. Apart'
  <2>1. Near(w, Idler)
    BY DEF Near, Idler, Redeems
  <2> QED BY <1>0, <2>1, ApartKept DEF Finish
<1>13. LinkIsKept'
  <2>1. SUFFICES ASSUME NEW t \in Telegrams, linked'[t] # 0, Safe
                 PROVE  users'[linked'[t]].tg = t
    BY <1>0 DEF LinkIsKept, Safe
  <2>2. CASE t = x.tg
    <3>1. linked'[t] = x.row
      BY <1>0, <1>1, <2>2 DEF Told, NotesOK
    <3> QED BY <1>1, <1>3, <2>2, <3>1
  <2>3. CASE t # x.tg
    <3>1. linked'[t] = linked[t] /\ linked[t] \in Rows /\ users[linked[t]].tg = t /\ t # NoOne
      BY <1>0, <1>1, <2>1, <2>3, AccountsAssumption DEF Told, NotesOK, LinkIsKept, Safe
    <3>2. linked[t] # x.row
      BY <1>8, <2>1, <3>1
    <3>3. linked[t] # x.dup
      BY <1>8, <2>1, <2>3, <3>1
    <3> QED BY <1>3, <3>1, <3>2, <3>3
  <2> QED BY <2>2, <2>3
<1>14. SeedKnown'
  <2>1. \A v \in Tasks : task[v].at = "provide" => task'[v] = task[v]
    BY <1>0, <1>5
  <2> QED BY <1>0, <1>3, <2>1, SeedersStay
<1> QED BY <1>4, <1>5, <1>6, <1>7, <1>10, <1>11, <1>12, <1>13, <1>14 DEF AccountsInv

\* The process ends: nobody provides for anything.
LEMMA RestartAllKeeps ==
  ASSUME AccountsInv, RestartAll
  PROVE  AccountsInv'
<1>0. /\ UsersOK /\ CodesOK /\ NotesOK /\ TasksOK /\ OneTelegram /\ OneUsable /\ LinkIsKept /\ SeedKnown
      /\ users' = users /\ codes' = codes /\ tokens' = tokens /\ linked' = linked /\ twice' = twice
      /\ plan' = plan /\ mishaps < AccountFaults /\ mishaps' = mishaps + 1 /\ Rows' = Rows
      /\ task' = [w \in Tasks |-> Idler]
      /\ spared' = spared \cup {task[w].row : w \in {v \in Tasks : IsAt(v, "provide")}}
  BY DEF AccountsInv, RestartAll, tables, Rows
<1>1. spared' \subseteq Rows
  <2>1. \A v \in Tasks : task[v].at = "provide" => task[v].row \in Rows
    BY AtWork DEF Fits, Rowed, TaskType
  <2> QED BY <1>0, <2>1 DEF IsAt, NotesOK
<1>2. UsersOK' /\ CodesOK' /\ NotesOK' /\ OneTelegram' /\ OneUsable' /\ LinkIsKept'
  <2>1. NotesOK'
    BY <1>0, <1>1, AccountsAssumption DEF NotesOK
  <2> QED BY <1>0, <2>1 DEF UsersOK, CodesOK, CodeType, OneTelegram, OneUsable, Usable, LinkIsKept
<1>3. TasksOK' /\ AllFit' /\ Apart'
  <2>1. \A v \in Tasks : task'[v] = Idler
    BY <1>0
  <2>2. TasksOK'
    <3>1. TaskType' = TaskType
      BY <1>0 DEF TaskType
    <3> QED BY <1>0, <3>1, IdlerTyped DEF TasksOK
  <2>3. AllFit'
    BY <2>1 DEF AllFit, Fits, Idler, Redeems, Rowed
  <2>4. Apart'
    BY <2>1 DEF Apart, Idler, Redeems, Tasks
  <2> QED BY <2>2, <2>3, <2>4
<1>4. SeedKnown'
  BY <1>0 DEF SeedKnown, Seeding, IsAt
<1> QED BY <1>2, <1>3, <1>4 DEF AccountsInv

LEMMA AccountsStart ==
  ASSUME AccountsInit
  PROVE  AccountsInv
<1>1. users = << >> /\ codes = << >> /\ Rows = {} /\ Len(users) = 0
  BY DEF AccountsInit, Rows
<1>2. UsersOK /\ CodesOK
  BY <1>1, AccountsAssumption DEF UsersOK, CodesOK
<1>3. TasksOK
  BY IdlerTyped DEF AccountsInit, TasksOK
<1>4. NotesOK
  BY AccountsAssumption DEF AccountsInit, NotesOK
<1>5. AllFit
  BY DEF AccountsInit, AllFit, Fits, Idler, Redeems, Rowed
<1>6. Apart
  BY DEF AccountsInit, Apart, Idler, Redeems, Tasks
<1>7. OneTelegram /\ OneUsable /\ SeedKnown
  BY <1>1 DEF OneTelegram, OneUsable, SeedKnown
<1>8. LinkIsKept
  BY DEF AccountsInit, LinkIsKept
<1> QED BY <1>2, <1>3, <1>4, <1>5, <1>6, <1>7, <1>8 DEF AccountsInv

LEMMA AccountsStep ==
  ASSUME AccountsInv, [AccountsNext]_accountVars
  PROVE  AccountsInv'
<1>1. ASSUME NEW w \in Tasks, TaskSteps(w) PROVE AccountsInv'
  <2>1. CASE FindTelegram(w)
    BY <2>1, FindTelegramKeeps
  <2>2. CASE InsertTelegram(w) \/ InsertEmail(w)
    BY <2>2, InsertsKeep
  <2>3. CASE \/ InsertTelegramTaken(w) \/ InsertEmailTaken(w) \/ PutEmailTaken(w)
             \/ AttachClashes(w)
    BY <2>3, StopsKeep
  <2>4. CASE LookForEmail(w)
    BY <2>4, LookForEmailKeeps
  <2>5. CASE PutSettings(w) \/ PutWallet(w) \/ PutSeed(w) \/ PutDefaults(w) \/ PutFeed(w)
    BY <2>5, PutsKeep
  <2>6. CASE EmailConflict(w)
    BY <2>6, EmailConflictKeeps
  <2>7. CASE OwnEmail(w)
    BY <2>7, OwnEmailKeeps
  <2>8. CASE PutEmail(w)
    BY <2>8, PutEmailKeeps
  <2>9. CASE LinkedAlready(w)
    BY <2>9, LinkedAlreadyKeeps
  <2>10. CASE DropCodes(w)
    BY <2>10, DropCodesKeeps
  <2>11. CASE Mint(w)
    BY <2>11, MintKeeps
  <2>12. CASE ReadCode(w)
    BY <2>12, ReadCodeKeeps
  <2>13. CASE ReadPrimary(w)
    BY <2>13, ReadPrimaryKeeps
  <2>14. CASE ReadDuplicate(w)
    BY <2>14, ReadDuplicateKeeps
  <2>15. CASE IsFresh(w)
    BY <2>15, IsFreshKeeps
  <2>16. CASE Attach(w)
    BY <2>16, AttachKeeps
  <2> QED BY <1>1, <2>1, <2>2, <2>3, <2>4, <2>5, <2>6, <2>7, <2>8, <2>9, <2>10, <2>11, <2>12,
             <2>13, <2>14, <2>15, <2>16 DEF TaskSteps
<1>2. ASSUME NEW w \in Tasks, ProvideFails(w) PROVE AccountsInv'
  BY <1>2, ProvideFailsKeeps
<1>3. ASSUME NEW w \in Tasks, NEW t \in Telegrams, Upsert(w, t) PROVE AccountsInv'
  BY <1>3, UpsertKeeps
<1>4. ASSUME NEW w \in WebTasks, NEW e \in Emails, Register(w, e) \/ Login(w, e) PROVE AccountsInv'
  <2>1. w \in Tasks
    BY DEF Tasks
  <2> QED BY <1>4, <2>1, RegisterKeeps, LoginKeeps
<1>5. ASSUME NEW w \in WebTasks, NEW r \in Rows, NEW e \in Emails, LinkEmail(w, r, e)
      PROVE  AccountsInv'
  <2>1. w \in Tasks
    BY DEF Tasks
  <2> QED BY <1>5, <2>1, LinkEmailKeeps
<1>6. ASSUME NEW w \in WebTasks, NEW r \in Rows, Generate(w, r) PROVE AccountsInv'
  <2>1. w \in Tasks
    BY DEF Tasks
  <2> QED BY <1>6, <2>1, GenerateKeeps
<1>7. ASSUME NEW w \in BotTasks, NEW c \in DOMAIN codes, NEW t \in Telegrams, Redeem(w, c, t)
      PROVE  AccountsInv'
  BY <1>7, RedeemKeeps
<1>8. ASSUME NEW c \in DOMAIN codes, Expire(c) PROVE AccountsInv'
  BY <1>8, ExpireKeeps
<1>9. ASSUME NEW r \in Rows, TradeOn(r) PROVE AccountsInv'
  BY <1>9, TradeOnKeeps
<1>10. CASE RestartAll
  BY <1>10, RestartAllKeeps
<1>11. CASE UNCHANGED accountVars
  <2>1. /\ users' = users /\ codes' = codes /\ task' = task /\ tokens' = tokens /\ linked' = linked
        /\ twice' = twice /\ spared' = spared /\ plan' = plan /\ mishaps' = mishaps
    BY <1>11 DEF accountVars
  <2>2. users \in Seq(Person) /\ NotesOK
    BY DEF AccountsInv, UsersOK
  <2>3. Gains
    BY <2>1, <2>2 DEF Gains, NotesOK
  <2> QED BY <2>1, <2>3, GainsKeep, StillKeeps
<1> QED BY <1>1, <1>2, <1>3, <1>4, <1>5, <1>6, <1>7, <1>8, <1>9, <1>10, <1>11 DEF AccountsNext

LEMMA AccountsHold == AccountsSpec => []AccountsInv
BY AccountsStart, AccountsStep, PTL DEF AccountsSpec

\* Users, codes, handlers and links keep their types: no handler works on a row
\* or a code that is not there.
THEOREM AccountsTyped == AccountsSpec => []AccountsTypeOK
<1>1. AccountsInv => AccountsTypeOK
  BY AccountParts DEF AccountsInv, UsersOK
<1> QED BY <1>1, AccountsHold, PTL

\* account_link.redeem_link_code: for any number of handlers, codes and rows, a
\* Telegram id stays with the account it was told it is linked to (with a
\* webhook, while no account had two usable codes).
THEOREM LinkStays == AccountsSpec => []LinkIsKept
<1>1. AccountsInv => LinkIsKept
  BY DEF AccountsInv
<1> QED BY <1>1, AccountsHold, PTL

\* users._bootstrap_new_user: an account, however it was made and whatever it is
\* joined with meanwhile, has its paper capital, or a handler that is still to
\* put it there, or a statement of its own failed.
THEOREM SeedReaches == AccountsSpec => []SeedLands
<1>1. AccountsInv => SeedLands
  BY DEF AccountsInv, SeedKnown, SeedLands, Seeding
<1> QED BY <1>1, AccountsHold, PTL
=============================================================================
