---------------------------- MODULE Withdrawals ----------------------------
(***************************************************************************)
(* Withdrawals (wallet/withdrawals.py): a request debits the ledger and is *)
(* approved at once ('auto') or by an operator ('manual'); an approved row *)
(* is paid on chain from a hot pool shared by all users, and a row that is *)
(* rejected or fails before its broadcast is refunded.                     *)
(*                                                                         *)
(* One user, requests of one unit each.  Web requests run concurrently.    *)
(* Telegram updates are handled one after the other while the bot polls    *)
(* for them; when Telegram pushes them to /telegram/webhook, each is a     *)
(* task of its own.                                                        *)
(***************************************************************************)
EXTENDS Integers

CONSTANTS
  Requests,   \* withdrawal requests
  Web,        \* the requests made through the web API
  NoRequest,  \* not a request: no Telegram handler is running
  Funds,      \* the user's balance before any request
  Pool,       \* USDC in the hot pool
  StartLive,  \* EXECUTION_PATH_VALIDATED at the first start
  MaxFaults,  \* bound on the calls that fail
  MaxRestarts \* bound on the restarts

ASSUME WithdrawalAssumption ==
  /\ Web \subseteq Requests /\ NoRequest \notin Requests
  /\ Funds \in Nat /\ Pool \in Nat /\ StartLive \in BOOLEAN
  /\ MaxFaults \in Nat /\ MaxRestarts \in Nat

VARIABLES
  mode,     \* system_settings.withdrawal_approval_mode
  polling,  \* TELEGRAM_WEBHOOK_URL is not set
  live,     \* EXECUTION_PATH_VALIDATED
  status,   \* withdrawals.status; "none" before the INSERT
  txHash,   \* withdrawals.tx_hash IS NOT NULL
  ledger,   \* sum of the ledger entries that refer to the request
  balance,  \* wallets.balance_usdc
  pool,     \* USDC left in the hot pool
  tx,       \* the request's transfer on chain
  paid,     \* units the destination received
  pc,       \* where the task that handles the request stands
  readMode, \* the approval mode that task read
  bot,      \* the request the Telegram handler is busy with
  faults, restarts

rowVars   == <<status, txHash, ledger, balance>>
chainVars == <<pool, tx, paid>>
taskVars  == <<pc, readMode, bot>>
confVars  == <<polling, mode, live>>
boundVars == <<faults, restarts>>
vars      == <<rowVars, chainVars, taskVars, confVars, boundVars>>

Modes == {"manual", "auto"}

TypeOK ==
  /\ polling \in BOOLEAN /\ mode \in Modes /\ live \in BOOLEAN
  /\ status \in [Requests -> {"none", "pending", "approved", "rejected", "processing",
                              "completed", "failed"}]
  /\ txHash \in [Requests -> BOOLEAN]
  /\ ledger \in [Requests -> {-1, 0}]
  /\ balance \in Int
  /\ pool \in 0 .. Pool
  /\ tx \in [Requests -> {"none", "mempool", "mined", "reverted"}]
  /\ paid \in [Requests -> Nat]
  /\ pc \in [Requests -> {"idle", "asked", "insert", "check", "mark", "preflight",
                          "broadcast", "wait", "record", "refund", "fail"}]
  /\ readMode \in [Requests -> Modes]
  /\ bot \in Requests \union {NoRequest}
  /\ faults \in 0 .. MaxFaults /\ restarts \in 0 .. MaxRestarts

Init ==
  /\ polling \in BOOLEAN /\ mode = "manual" /\ live = StartLive
  /\ status = [r \in Requests |-> "none"]
  /\ txHash = [r \in Requests |-> FALSE]
  /\ ledger = [r \in Requests |-> 0]
  /\ balance = Funds
  /\ pool = Pool
  /\ tx = [r \in Requests |-> "none"]
  /\ paid = [r \in Requests |-> 0]
  /\ pc = [r \in Requests |-> "idle"]
  /\ readMode = [r \in Requests |-> "manual"]
  /\ bot = NoRequest
  /\ faults = 0 /\ restarts = 0

-----------------------------------------------------------------------------
(* The task that handles request r.                                        *)

\* r's task goes from one await to the next; at "idle" it returns, and a
\* Telegram handler makes room for the next update.
Go(r, from, to) ==
  /\ pc[r] = from
  /\ pc' = [pc EXCEPT ![r] = to]
  /\ bot' = IF to = "idle" /\ bot = r THEN NoRequest ELSE bot

\* While the bot polls, the next update waits for this one.
Handled(r) == IF polling THEN r ELSE NoRequest

Debit(r)  == ledger' = [ledger EXCEPT ![r] = @ - 1] /\ balance' = balance - 1
Credit(r) == ledger' = [ledger EXCEPT ![r] = @ + 1] /\ balance' = balance + 1

\* request_withdrawal: the web endpoint never reads the balance.
WebRequest(r) ==
  /\ r \in Web /\ status[r] = "none"
  /\ Go(r, "idle", "asked")
  /\ UNCHANGED <<rowVars, chainVars, readMode, confVars, boundVars>>

\* Mutant of TelegramConfirm: updates are handled concurrently.
TelegramConfirm_Concurrent(r) ==
  /\ r \notin Web /\ status[r] = "none"
  /\ balance >= 1
  /\ pc[r] = "idle" /\ pc' = [pc EXCEPT ![r] = "asked"]
  /\ UNCHANGED <<rowVars, chainVars, readMode, bot, confVars, boundVars>>

\* _process_withdraw_confirm: the amount is covered by the balance.
TelegramConfirm(r) ==
  /\ r \notin Web /\ status[r] = "none"
  /\ bot = NoRequest
  /\ balance >= 1
  /\ pc[r] = "idle" /\ pc' = [pc EXCEPT ![r] = "asked"]
  /\ bot' = Handled(r)
  /\ UNCHANGED <<rowVars, chainVars, readMode, confVars, boundVars>>

\* get_approval_mode.
ReadMode(r) ==
  /\ Go(r, "asked", "insert")
  /\ readMode' = [readMode EXCEPT ![r] = mode]
  /\ UNCHANGED <<rowVars, chainVars, confVars, boundVars>>

\* Mutant of InsertRequest: an auto-approved row is not settled inline.
InsertRequest_Unsettled(r) ==
  /\ Go(r, "insert", "idle")
  /\ status' = [status EXCEPT ![r] = IF readMode[r] = "auto" THEN "approved" ELSE "pending"]
  /\ Debit(r)
  /\ UNCHANGED <<txHash, chainVars, readMode, confVars, boundVars>>

\* create_withdrawal_request: the row and the debit in one transaction; an
\* auto-approved row is settled inline.
InsertRequest(r) ==
  LET auto == readMode[r] = "auto" IN
  /\ Go(r, "insert", IF auto THEN "check" ELSE "idle")
  /\ status' = [status EXCEPT ![r] = IF auto THEN "approved" ELSE "pending"]
  /\ Debit(r)
  /\ UNCHANGED <<txHash, chainVars, readMode, confVars, boundVars>>

\* approve_withdrawal, from the operator's Telegram panel.
Approve(r) ==
  /\ bot = NoRequest /\ status[r] = "pending"
  /\ pc[r] = "idle" /\ pc' = [pc EXCEPT ![r] = "check"]
  /\ bot' = Handled(r)
  /\ status' = [status EXCEPT ![r] = "approved"]
  /\ UNCHANGED <<txHash, ledger, balance, chainVars, readMode, confVars, boundVars>>

\* reject_withdrawal: the row and the refund in one transaction.
Reject(r) ==
  /\ bot = NoRequest /\ status[r] = "pending"
  /\ status' = [status EXCEPT ![r] = "rejected"]
  /\ Credit(r)
  /\ UNCHANGED <<txHash, chainVars, taskVars, confVars, boundVars>>

-----------------------------------------------------------------------------
(* _settle_withdrawal and _attempt_onchain_transfer.                       *)

\* Paper mode defers the transfer; a row with a tx_hash is never sent again.
CheckSent(r) ==
  /\ Go(r, "check", IF live /\ ~txHash[r] THEN "mark" ELSE "idle")
  /\ UNCHANGED <<rowVars, chainVars, readMode, confVars, boundVars>>

\* 'approved' to 'processing'; whether a row matched is not looked at.
MarkProcessing(r) ==
  /\ Go(r, "mark", "preflight")
  /\ status' = [status EXCEPT ![r] = IF @ = "approved" THEN "processing" ELSE @]
  /\ UNCHANGED <<txHash, ledger, balance, chainVars, readMode, confVars, boundVars>>

\* The pre-flight reads the pool before the nonce lock is taken; gas that is
\* too dear is refused like an empty pool.
Preflight(r) ==
  /\ \E cheap \in BOOLEAN :
       Go(r, "preflight", IF cheap /\ pool >= 1 THEN "broadcast" ELSE "refund")
  /\ UNCHANGED <<rowVars, chainVars, readMode, confVars, boundVars>>

\* send_raw_transaction, under the nonce lock.
Broadcast(r) ==
  /\ Go(r, "broadcast", "wait")
  /\ tx' = [tx EXCEPT ![r] = "mempool"]
  /\ UNCHANGED <<rowVars, pool, paid, readMode, confVars, boundVars>>

\* The chain executes the transfer, which reverts when the pool is short.
Mine(r) ==
  /\ tx[r] = "mempool"
  /\ IF pool >= 1
     THEN /\ tx' = [tx EXCEPT ![r] = "mined"]
          /\ pool' = pool - 1
          /\ paid' = [paid EXCEPT ![r] = @ + 1]
     ELSE /\ tx' = [tx EXCEPT ![r] = "reverted"]
          /\ UNCHANGED <<pool, paid>>
  /\ UNCHANGED <<rowVars, taskVars, confVars, boundVars>>

\* The receipt: a reverted transfer raises.
Receipt(r) ==
  /\ tx[r] \in {"mined", "reverted"}
  /\ Go(r, "wait", IF tx[r] = "mined" THEN "record" ELSE "fail")
  /\ UNCHANGED <<rowVars, chainVars, readMode, confVars, boundVars>>

\* Mutant of NoReceipt: an answer that does not come is taken for a refusal.
NoReceipt_Refunds(r) ==
  /\ faults < MaxFaults /\ faults' = faults + 1
  /\ Go(r, "wait", "refund")
  /\ UNCHANGED <<rowVars, chainVars, readMode, confVars, restarts>>

\* No receipt within 180 s: the transfer may still be executed.
NoReceipt(r) ==
  /\ faults < MaxFaults /\ faults' = faults + 1
  /\ Go(r, "wait", "fail")
  /\ UNCHANGED <<rowVars, chainVars, readMode, confVars, restarts>>

\* 'completed' with the tx_hash, whatever the status is.
Record(r) ==
  /\ Go(r, "record", "idle")
  /\ status' = [status EXCEPT ![r] = "completed"]
  /\ txHash' = [txHash EXCEPT ![r] = TRUE]
  /\ UNCHANGED <<ledger, balance, chainVars, readMode, confVars, boundVars>>

\* A call raises something else, and the row is to be failed.  A broadcast whose
\* answer is lost may have reached the chain.
TransferRaises(r) ==
  /\ faults < MaxFaults /\ faults' = faults + 1
  /\ live /\ pc[r] \in {"check", "mark", "preflight", "broadcast", "record"}
  /\ Go(r, pc[r], "fail")
  /\ \/ UNCHANGED tx
     \/ pc[r] = "broadcast" /\ tx' = [tx EXCEPT ![r] = "mempool"]
  /\ UNCHANGED <<rowVars, pool, paid, readMode, confVars, restarts>>

Unsettled(r) == status[r] \in {"approved", "processing"}

\* A refused transfer: 'failed' and the refund in one transaction.
Refund(r) ==
  /\ Go(r, "refund", "idle")
  /\ IF Unsettled(r) /\ ~txHash[r]
     THEN status' = [status EXCEPT ![r] = "failed"] /\ Credit(r)
     ELSE UNCHANGED <<status, ledger, balance>>
  /\ UNCHANGED <<txHash, chainVars, readMode, confVars, boundVars>>

\* Any other error: 'failed' without a refund.
Fail(r) ==
  /\ Go(r, "fail", "idle")
  /\ status' = [status EXCEPT ![r] = IF Unsettled(r) THEN "failed" ELSE @]
  /\ UNCHANGED <<txHash, ledger, balance, chainVars, readMode, confVars, boundVars>>

\* A statement outside the try block raises: the task ends where it is.
StatementLost(r) ==
  /\ faults < MaxFaults /\ faults' = faults + 1
  /\ pc[r] \in {"asked", "insert", "refund", "fail"}
  /\ Go(r, pc[r], "idle")
  /\ UNCHANGED <<rowVars, chainVars, readMode, confVars, restarts>>

\* set_approval_mode, from the operator's Telegram panel.
SetMode(m) ==
  /\ bot = NoRequest
  /\ mode # m /\ mode' = m
  /\ UNCHANGED <<polling, live, rowVars, chainVars, taskVars, boundVars>>

\* A restart loses every task and may open the execution guard.
Restart ==
  /\ restarts < MaxRestarts /\ restarts' = restarts + 1
  /\ pc' = [r \in Requests |-> "idle"]
  /\ bot' = NoRequest
  /\ live' \in {live, TRUE}
  /\ UNCHANGED <<polling, mode, rowVars, chainVars, readMode, faults>>

\* A step of a task that is already running.
TaskStep(r) ==
  \/ ReadMode(r) \/ InsertRequest(r)
  \/ CheckSent(r) \/ MarkProcessing(r) \/ Preflight(r) \/ Broadcast(r)
  \/ Receipt(r) \/ NoReceipt(r) \/ Record(r)
  \/ TransferRaises(r) \/ Refund(r) \/ Fail(r) \/ StatementLost(r)

Next ==
  \/ \E r \in Requests :
       \/ WebRequest(r) \/ TelegramConfirm(r) \/ Approve(r) \/ Reject(r)
       \/ TaskStep(r)
       \/ Mine(r)
  \/ \E m \in Modes : SetMode(m)
  \/ Restart

Spec == Init /\ [][Next]_vars

\* asyncio runs every task that can go on, and the chain executes what is in
\* the mempool; users and operators owe nothing.
WithdrawalsFairness ==
  \A r \in Requests : WF_vars(TaskStep(r)) /\ WF_vars(Mine(r))
FairSpec == Spec /\ WithdrawalsFairness
-----------------------------------------------------------------------------
(* Properties.                                                             *)

\* A request whose debit was given back is never paid: the refund is posted
\* only for a refusal before the broadcast, or by a rejection that excludes
\* every approval (withdrawals.py:244-276, :288-316).
RefundedIsUnpaid ==
  \A r \in Requests :
    status[r] # "none" /\ ledger[r] = 0 =>
      tx[r] = "none" /\ status[r] \in {"rejected", "failed"}

\* A request is paid at most once, and only after it was approved: one task
\* settles it, and it is never approved again (withdrawals.py:211-224).
PaidOnceApproved ==
  \A r \in Requests :
    /\ paid[r] <= 1
    /\ tx[r] # "none" => ledger[r] = -1 /\ status[r] \in {"processing", "completed", "failed"}

\* A completed row records a transfer that was executed: a receipt that says
\* it reverted raises instead (polygon_usdc.py:139-144).
CompletedIsPaid ==
  \A r \in Requests : status[r] = "completed" => tx[r] = "mined" /\ txHash[r]

\* No request is both paid and given back: the three parts together
\* (withdrawals.py:178-316).
PaidOrRefunded == RefundedIsUnpaid /\ PaidOnceApproved /\ CompletedIsPaid

\* What the row, the ledger and the transfer of a request amount to for its user.
PhaseOf(r) ==
  CASE status[r] = "none" -> "none"
    [] status[r] = "pending" -> "pending"
    [] status[r] = "completed" -> "recorded"
    [] OTHER -> IF tx[r] = "mined" THEN "paid" ELSE IF ledger[r] = 0 THEN "returned" ELSE "approved"

requestPhase == [r \in Requests |-> PhaseOf(r)]

Promise == INSTANCE RequestBook WITH phase <- requestPhase, received <- paid

\* Whatever the web, the bot, the operator, the chain and restarts do, step by step a
\* request is asked for, approved, and either given back or paid, for good; the balance
\* moves by its unit in the very steps that debit it and give it back, and only an
\* executed transfer is recorded as completed (withdrawals.py:62-316).
ImplementsRequestBook == Promise!Spec

\* A user who withdraws through Telegram only is never overdrawn while the bot
\* polls: no other update runs between the balance check and the debit
\* (bot/handlers/wallet.py:290-300).
TelegramNeverOverdraws ==
  polling /\ (\A r \in Web : status[r] = "none") => balance >= 0

\* While the process stays up and its calls are answered, an approved row is
\* paid or failed in the end: "otherwise an auto-approved live withdrawal would
\* be debited but never sent" (withdrawals.py:91-93).
ApprovedIsSettled ==
  \A r \in Requests :
    live /\ status[r] = "approved" ~>
      status[r] \in {"completed", "failed"} \/ restarts > 0 \/ faults > 0
=============================================================================
