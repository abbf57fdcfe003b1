--------------------------- MODULE RedeemPipeline ---------------------------
(***************************************************************************)
(* Settlement after resolution: the resolution job that classifies the     *)
(* rows of a closed market, the redeem_queue table, the instant worker     *)
(* (one asyncio task per queue row) and the hourly worker with its reaper. *)
(*                                                                         *)
(* A queue row belongs to one position, so a row is named by its position  *)
(* and so is the instant task that was created for it.                     *)
(***************************************************************************)
EXTENDS PositionBook

CONSTANTS
  Instant,      \* positions whose owner has auto_redeem_mode = 'instant'
  Hourly,       \* the hourly worker
  SlowWorkers   \* may a settle attempt outlast the reaper's 300 s?

Workers == Positions \union {Hourly}

\* The job of the hourly worker between two rows, of no consequence.
AnyRow == CHOOSE p \in Positions : TRUE

ASSUME PipelineAssumption ==
  /\ Positions # {}
  /\ Instant \subseteq Positions
  /\ Hourly \notin Positions
  /\ SlowWorkers \in BOOLEAN

VARIABLES
  queue,      \* redeem_queue.status of p's row; "none" before the INSERT, and
              \* "stale" for a 'processing' row whose claim is over 300 s old
  detect,     \* where the resolution job stands
  rows,       \* its snapshot: <<p, was the row read as 'closed'?>>
  clean,      \* classification_complete
  spawn,      \* queue rows to start an instant task for
  drain,      \* pending rows the hourly worker still has to process
  worker,     \* worker[k] : where worker k stands
  job,        \* job[k] : the row it claimed
  readClosed, \* readClosed[k] : was the position 'closed' when it claimed?
  retried,    \* retried[k] : is this the instant worker's second attempt?
  recorded,   \* is there a live_redemptions row for the market's condition?
  submits     \* redeemPositions transactions submitted on chain

pipelineVars == <<queue, detect, rows, clean, spawn, drain, worker, job,
                  readClosed, retried, recorded, submits>>
workerVars   == <<worker, job, readClosed, retried>>

\* idle, then: claim the row; gas guard (instant, live rows); settle: look up
\* live_redemptions; submit the transaction; record it; credit; flag (row
\* already closed); done: mark_done; release: release_back_to_pending.  The
\* hourly worker is in load between the reaper and its SELECT, and in next
\* between two rows.
Stages == {"idle", "load", "next", "claim", "gas", "settle", "submit",
           "record", "credit", "flag", "done", "release"}

PipelineTypeOK ==
  /\ queue \in [Positions -> {"none", "pending", "processing", "stale", "done"}]
  /\ detect \in {"idle", "fetch", "park", "classify"}
  /\ rows \in SUBSET (Positions \X BOOLEAN)
  /\ clean \in BOOLEAN
  /\ spawn \in SUBSET Positions
  /\ drain \in SUBSET Positions
  /\ worker \in [Workers -> Stages]
  /\ job \in [Workers -> Positions]
  /\ readClosed \in [Workers -> BOOLEAN]
  /\ retried \in [Workers -> BOOLEAN]
  /\ recorded \in BOOLEAN
  /\ submits \in Nat

PipelineInit ==
  /\ queue = [p \in Positions |-> "none"]
  /\ detect = "idle"
  /\ rows = {}
  /\ clean = TRUE
  /\ spawn = {}
  /\ drain = {}
  /\ worker = [k \in Workers |-> "idle"]
  /\ job = [k \in Workers |-> IF k = Hourly THEN AnyRow ELSE k]
  /\ readClosed = [k \in Workers |-> FALSE]
  /\ retried = [k \in Workers |-> FALSE]
  /\ recorded = FALSE
  /\ submits = 0

-----------------------------------------------------------------------------
(* The resolution job: detect_resolutions, _process_market_resolution.     *)

DetectStart ==
  /\ detect = "idle"
  /\ \E p \in Positions : /\ ~redeemed[p] /\ ~resolved
                          /\ Unsettled(p) \/ (status[p] = "closed" /\ due)
  /\ detect' = "fetch"
  /\ UNCHANGED <<bookVars, queue, rows, clean, spawn, drain, workerVars,
                 recorded, submits, faults>>

\* The market is re-fetched.  Not closed yet: park the rows that are past due.
DetectOpen ==
  /\ detect = "fetch"
  /\ official = "trading"
  /\ detect' = "park"
  /\ UNCHANGED <<bookVars, queue, rows, clean, spawn, drain, workerVars,
                 recorded, submits, faults>>

Park ==
  /\ detect = "park"
  /\ ParkRows
  /\ detect' = "idle"
  /\ UNCHANGED <<marketVars, queue, rows, clean, spawn, drain, workerVars,
                 recorded, submits, faults>>

\* Closed: read the rows that are not redeemed.
DetectClosed ==
  /\ detect = "fetch"
  /\ official # "trading"
  /\ detect' = "classify"
  /\ rows' = {<<p, status[p] = "closed">> : p \in
                {q \in Positions : status[q] # "absent" /\ ~redeemed[q]}}
  /\ clean' = TRUE
  /\ spawn' = {}
  /\ UNCHANGED <<bookVars, queue, drain, workerVars, recorded, submits, faults>>

\* settle_losing_position.
SettleLoser(row) ==
  LET p == row[1] IN
  /\ detect = "classify" /\ row \in rows
  /\ p \notin Winners
  /\ IF row[2] THEN FlagRow(p) ELSE SettleRow(p, <<>>)
  /\ rows' = rows \ {row}
  /\ UNCHANGED <<marketVars, queue, detect, clean, spawn, drain, workerVars,
                 recorded, submits, faults>>

\* _enqueue_redeem: INSERT ... ON CONFLICT (position_id) DO NOTHING.
Enqueue(row) ==
  LET p == row[1] IN
  /\ detect = "classify" /\ row \in rows
  /\ p \in Winners
  /\ IF queue[p] = "none"
     THEN /\ queue' = [queue EXCEPT ![p] = "pending"]
          /\ spawn' = IF p \in Instant THEN spawn \union {p} ELSE spawn
     ELSE UNCHANGED <<queue, spawn>>
  /\ rows' = rows \ {row}
  /\ UNCHANGED <<bookVars, detect, clean, drain, workerVars, recorded, submits,
                 faults>>

\* Either of them raises: the market must not be flipped by this pass.
ClassifyRaises(row) ==
  /\ detect = "classify" /\ row \in rows
  /\ Fault
  /\ clean' = FALSE
  /\ rows' = rows \ {row}
  /\ UNCHANGED <<bookVars, queue, detect, spawn, drain, workerVars, recorded,
                 submits>>

\* The flip, and one asyncio task per instant row.
Flip ==
  /\ detect = "classify" /\ rows = {}
  /\ IF clean THEN FlipMarket ELSE UNCHANGED marketVars
  /\ worker' = [k \in Workers |-> IF k \in spawn THEN "claim" ELSE worker[k]]
  /\ detect' = "idle"
  /\ spawn' = {}
  /\ UNCHANGED <<rowVars, queue, rows, clean, drain, job, readClosed, retried,
                 recorded, submits, faults>>

DetectStep ==
  \/ DetectStart
  \/ DetectOpen
  \/ Park
  \/ DetectClosed
  \/ \E row \in rows : SettleLoser(row) \/ Enqueue(row) \/ ClassifyRaises(row)
  \/ Flip

-----------------------------------------------------------------------------
(* The workers.                                                            *)

\* Worker k is done with its row.
Finish(k) ==
  /\ worker' = [worker EXCEPT ![k] = IF k = Hourly THEN "next" ELSE "idle"]
  /\ job' = [job EXCEPT ![k] = IF k = Hourly THEN AnyRow ELSE k]
  /\ readClosed' = [readClosed EXCEPT ![k] = FALSE]
  /\ retried' = [retried EXCEPT ![k] = FALSE]

Stage(k, s) ==
  /\ worker' = [worker EXCEPT ![k] = s]
  /\ UNCHANGED <<job, readClosed, retried>>

\* 300 seconds pass since p's row was claimed.  Unless workers may be slow,
\* that happens only to a row no worker is still busy with.
Age(p) ==
  /\ queue[p] = "processing"
  /\ SlowWorkers \/ \A k \in Workers : worker[k] \in {"idle", "load", "next", "claim"}
                                          \/ job[k] # p
  /\ queue' = [queue EXCEPT ![p] = "stale"]
  /\ UNCHANGED <<bookVars, detect, rows, clean, spawn, drain, workerVars,
                 recorded, submits, faults>>

\* Mutant of Reap: the reaper is not called.
Reap_Skipped ==
  /\ worker[Hourly] = "idle"
  /\ Stage(Hourly, "load")
  /\ UNCHANGED <<bookVars, queue, detect, rows, clean, spawn, drain, recorded,
                 submits, faults>>

\* hourly_worker.run_once: reap_stale_processing, then the SELECT.
Reap ==
  /\ worker[Hourly] = "idle"
  /\ queue' = [p \in Positions |-> IF queue[p] = "stale" THEN "pending" ELSE queue[p]]
  /\ Stage(Hourly, "load")
  /\ UNCHANGED <<bookVars, detect, rows, clean, spawn, drain, recorded, submits,
                 faults>>

LoadPending ==
  /\ worker[Hourly] = "load"
  /\ drain' = {p \in Positions : queue[p] = "pending"}
  /\ Stage(Hourly, "next")
  /\ UNCHANGED <<bookVars, queue, detect, rows, clean, spawn, recorded, submits,
                 faults>>

NextPending ==
  /\ worker[Hourly] = "next"
  /\ IF drain = {}
     THEN Stage(Hourly, "idle") /\ UNCHANGED drain
     ELSE \E p \in drain : /\ drain' = drain \ {p}
                           /\ worker' = [worker EXCEPT ![Hourly] = "claim"]
                           /\ job' = [job EXCEPT ![Hourly] = p]
                           /\ UNCHANGED <<readClosed, retried>>
  /\ UNCHANGED <<bookVars, queue, detect, rows, clean, spawn, recorded, submits,
                 faults>>

\* claim_queue_row; the position is read in the same transaction.
Claim(k) ==
  LET p == job[k] IN
  /\ worker[k] = "claim"
  /\ IF queue[p] = "pending"
     THEN /\ queue' = [queue EXCEPT ![p] = "processing"]
          /\ readClosed' = [readClosed EXCEPT ![k] = (status[p] = "closed")]
          /\ worker' = [worker EXCEPT ![k] =
                          IF k # Hourly /\ p \in Live THEN "gas" ELSE "settle"]
          /\ UNCHANGED <<job, retried>>
     ELSE Finish(k) /\ UNCHANGED queue
  /\ UNCHANGED <<bookVars, detect, rows, clean, spawn, drain, recorded, submits,
                 faults>>

\* Instant worker, live row: defer to the hourly worker on a gas spike.
GasGuard(k) ==
  /\ worker[k] = "gas"
  /\ \E s \in {"settle", "release"} : Stage(k, s)
  /\ UNCHANGED <<bookVars, queue, detect, rows, clean, spawn, drain, recorded,
                 submits, faults>>

\* settle_winning_position up to its first write: an already closed row is only
\* flagged, a live row goes through ensure_live_redemption first.
Settle(k) ==
  /\ worker[k] = "settle"
  /\ Stage(k, CASE readClosed[k] -> "flag"
                [] ~readClosed[k] /\ job[k] \in Live /\ ~recorded -> "submit"
                [] OTHER -> "credit")
  /\ UNCHANGED <<bookVars, queue, detect, rows, clean, spawn, drain, recorded,
                 submits, faults>>

SubmitRedemption(k) ==
  /\ worker[k] = "submit"
  /\ submits' = submits + 1
  /\ Stage(k, "record")
  /\ UNCHANGED <<bookVars, queue, detect, rows, clean, spawn, drain, recorded,
                 faults>>

RecordRedemption(k) ==
  /\ worker[k] = "record"
  /\ recorded' = TRUE
  /\ Stage(k, "credit")
  /\ UNCHANGED <<bookVars, queue, detect, rows, clean, spawn, drain, submits,
                 faults>>

\* ensure_live_redemption raised: the internal credit is posted all the same.
\* The transaction may have been submitted, or its INSERT lost.
RedemptionRaises(k) ==
  /\ worker[k] \in {"submit", "record"}
  /\ Fault
  /\ \E n \in IF worker[k] = "submit" THEN {0, 1} ELSE {0} : submits' = submits + n
  /\ Stage(k, "credit")
  /\ UNCHANGED <<bookVars, queue, detect, rows, clean, spawn, drain, recorded>>

CreditWinner(k) ==
  /\ worker[k] = "credit"
  /\ SettleRow(job[k], <<"payoff">>)
  /\ Stage(k, "done")
  /\ UNCHANGED <<marketVars, queue, detect, rows, clean, spawn, drain, recorded,
                 submits, faults>>

FlagClosed(k) ==
  /\ worker[k] = "flag"
  /\ FlagRow(job[k])
  /\ Stage(k, "done")
  /\ UNCHANGED <<marketVars, queue, detect, rows, clean, spawn, drain, recorded,
                 submits, faults>>

\* mark_done has no status guard.
MarkDone(k) ==
  /\ worker[k] = "done"
  /\ queue' = [queue EXCEPT ![job[k]] = "done"]
  /\ Finish(k)
  /\ UNCHANGED <<bookVars, detect, rows, clean, spawn, drain, recorded, submits,
                 faults>>

\* Mutant of SettleRaises: the exception is swallowed and the row marked done.
SettleRaises_Swallowed(k) ==
  /\ worker[k] \in {"flag", "credit", "done"}
  /\ Fault
  /\ Stage(k, "done")
  /\ UNCHANGED <<bookVars, queue, detect, rows, clean, spawn, drain, recorded,
                 submits>>

\* A statement of the attempt raises: the instant worker sleeps and tries once
\* more, the hourly worker and a second attempt give the row back.
SettleRaises(k) ==
  /\ worker[k] \in {"flag", "credit", "done"}
  /\ Fault
  /\ IF k # Hourly /\ ~retried[k]
     THEN /\ worker' = [worker EXCEPT ![k] = "settle"]
          /\ retried' = [retried EXCEPT ![k] = TRUE]
          /\ UNCHANGED <<job, readClosed>>
     ELSE Stage(k, "release")
  /\ UNCHANGED <<bookVars, queue, detect, rows, clean, spawn, drain, recorded,
                 submits>>

\* release_back_to_pending, guarded by status = 'processing'.
Release(k) ==
  LET p == job[k] IN
  /\ worker[k] = "release"
  /\ queue' = [queue EXCEPT ![p] = IF @ \in {"processing", "stale"} THEN "pending" ELSE @]
  /\ Finish(k)
  /\ UNCHANGED <<bookVars, detect, rows, clean, spawn, drain, recorded, submits,
                 faults>>

\* The release itself fails: the row is left to the reaper.
ReleaseRaises(k) ==
  /\ worker[k] = "release"
  /\ Fault
  /\ Finish(k)
  /\ UNCHANGED <<bookVars, queue, detect, rows, clean, spawn, drain, recorded,
                 submits>>

WorkerStep(k) ==
  \/ Claim(k)
  \/ GasGuard(k)
  \/ Settle(k)
  \/ SubmitRedemption(k)
  \/ RecordRedemption(k)
  \/ RedemptionRaises(k)
  \/ CreditWinner(k)
  \/ FlagClosed(k)
  \/ MarkDone(k)
  \/ SettleRaises(k)
  \/ Release(k)
  \/ ReleaseRaises(k)

HourlyStep == Reap \/ LoadPending \/ NextPending \/ WorkerStep(Hourly)

PipelineStep ==
  \/ DetectStep
  \/ HourlyStep
  \/ \E p \in Positions : WorkerStep(p) \/ Age(p)

\* The process dies; the tables and the chain do not.
PipelineCrash ==
  /\ detect' = "idle"
  /\ rows' = {}
  /\ clean' = TRUE
  /\ spawn' = {}
  /\ drain' = {}
  /\ worker' = [k \in Workers |-> "idle"]
  /\ job' = [k \in Workers |-> IF k = Hourly THEN AnyRow ELSE k]
  /\ readClosed' = [k \in Workers |-> FALSE]
  /\ retried' = [k \in Workers |-> FALSE]
  /\ UNCHANGED <<queue, recorded, submits>>
=============================================================================
