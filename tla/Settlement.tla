----------------------------- MODULE Settlement -----------------------------
(***************************************************************************)
(* The life of a position in one bot process: the trade engine opens it,   *)
(* the closers of ExitWatcher and the jobs of RedeemPipeline race to close *)
(* it, and the process may restart at any moment.                          *)
(***************************************************************************)
EXTENDS ExitWatcher, RedeemPipeline

CONSTANT MaxCrashes  \* bound on the restarts of a behaviour

ASSUME SettlementAssumption == MaxCrashes \in Nat

VARIABLES
  approved,  \* Late positions whose entry saw an unresolved market
  crashes    \* restarts so far

vars == <<bookVars, closerVars, pipelineVars, faults, approved, crashes>>

TypeOK ==
  /\ BookTypeOK
  /\ CloserTypeOK
  /\ PipelineTypeOK
  /\ approved \in SUBSET Positions
  /\ crashes \in 0 .. MaxCrashes

Init ==
  /\ BookInit
  /\ CloserInit
  /\ PipelineInit
  /\ approved = {}
  /\ crashes = 0

\* The entry path reads the market row (signal scan, risk gate) ...
Approve(p) ==
  /\ p \in Late \ approved
  /\ status[p] = "absent"
  /\ ~resolved
  /\ approved' = approved \union {p}
  /\ UNCHANGED <<bookVars, closerVars, pipelineVars, faults, crashes>>

\* ... and inserts the position some awaits later, without reading it again.
Insert(p) ==
  /\ p \in approved
  /\ InsertPosition(p)
  /\ approved' = approved \ {p}
  /\ UNCHANGED <<marketVars, closerVars, pipelineVars, faults, crashes>>

Crash ==
  /\ crashes < MaxCrashes
  /\ crashes' = crashes + 1
  /\ CloserCrash
  /\ PipelineCrash
  /\ approved' = {}
  /\ UNCHANGED <<bookVars, faults>>

Closing  == CloserStep /\ UNCHANGED <<pipelineVars, approved, crashes>>
Settling == PipelineStep /\ UNCHANGED <<closerVars, approved, crashes>>
Trading  == MarketStep /\ UNCHANGED <<closerVars, pipelineVars, faults, approved, crashes>>

Next ==
  \/ \E p \in Positions : Approve(p) \/ Insert(p)
  \/ Closing
  \/ Settling
  \/ Trading
  \/ Crash

Spec == Init /\ [][Next]_vars

\* APScheduler starts every job again after its interval and asyncio resumes
\* every task, so each task takes its next step in the end.  Users and the
\* market do as they please; a cached list does expire (TTL 300 s) and a claim
\* left alone does grow old.
Fairness ==
  /\ \A w \in Watchers :
       WF_vars(WatcherStep(w) /\ UNCHANGED <<pipelineVars, approved, crashes>>)
  /\ \A m \in Manuals :
       WF_vars(CloseStep(m) /\ UNCHANGED <<pipelineVars, approved, crashes>>)
  /\ WF_vars(DetectStep /\ UNCHANGED <<closerVars, approved, crashes>>)
  /\ WF_vars(HourlyStep /\ UNCHANGED <<closerVars, approved, crashes>>)
  /\ \A p \in Positions :
       /\ WF_vars(WorkerStep(p) /\ UNCHANGED <<closerVars, approved, crashes>>)
       /\ WF_vars(Age(p) /\ UNCHANGED <<closerVars, approved, crashes>>)
  /\ WF_vars(Delist /\ UNCHANGED <<closerVars, pipelineVars, faults, approved, crashes>>)

FairSpec == Spec /\ Fairness
-----------------------------------------------------------------------------
(* Properties.                                                             *)

\* A position pays its user once.  A row that is not closed has paid nothing;
\* a closed one has paid exactly one credit, or is a loser written off by the
\* settlement.  Every close path guards its UPDATE on the status and posts the
\* credit in the same transaction (paper.py:115, live.py:483, registry.py:325,
\* redeem_router.py:332); live.py:450 and :468 write the status unguarded.
PaidOnce ==
  \A p \in Positions :
    IF status[p] = "closed"
    THEN \/ Len(ledger[p]) = 1
         \/ p \notin Winners /\ redeemed[p] /\ ledger[p] = <<>>
    ELSE ledger[p] = <<>>

\* The claim of live.close_position is exclusive: while a closer submits the
\* SELL of a row, finishes it or rolls it back, the row is 'closing' and no
\* other closer is in that section for it (live.py:426).
ClaimExclusive ==
  \A c \in Closers : Claimed(c) =>
    /\ status[on[c]] = "closing"
    /\ \A d \in Closers \ {c} : Claimed(d) => on[d] # on[c]

\* A redeemed row is closed: no path may reopen it or leave it waiting after
\* the flag was set (redeem_router.py:306, :340, :405).
RedeemedIsClosed == \A p \in Positions : redeemed[p] => status[p] = "closed"

\* When the market row says resolved, every winner that waits for its payoff
\* has a queue row: the flip comes after a clean classification of all the
\* rows (redeem_router.py:205).
FlipAfterEnqueue ==
  resolved => \A p \in Winners : Unsettled(p) => queue[p] # "none"

\* A queue row is done only when its position is closed: a worker that was
\* reaped, retried or raced never completes a row that is still waiting.
DoneIsSettled == \A p \in Positions : queue[p] = "done" => status[p] = "closed"

\* The queue tells the truth at every step: the three parts together
\* (redeem_router.py:205-349).
QueueIsHonest == RedeemedIsClosed /\ FlipAfterEnqueue /\ DoneIsSettled

\* As long as no call fails, the broker accepts one SELL per live position,
\* whichever closers fire on it together (live.py:426).
SoldOnce == faults = 0 => \A p \in Positions : sold[p] <= 1

\* The rows implement the abstract stake book: what its phase and its credits
\* are in the tables.
stakePhase ==
  [p \in Positions |-> CASE status[p] = "absent" -> "none"
                         [] status[p] = "closed" -> "settled"
                         [] OTHER -> "held"]

stakePaid == [p \in Positions |-> Len(ledger[p])]

Stake == INSTANCE StakeBook WITH
  Stakes <- Positions, phase <- stakePhase, paid <- stakePaid

\* Every stake is placed, held and settled once, with at most one credit posted
\* in the very step that settles it: the abstract specification StakeBook.
ImplementsStakeBook == Stake!Spec

\* Once Polymarket has closed the market and its cached list has expired, every
\* open position is settled in the end, through restarts, failed statements
\* and reaped claims ("no positions are stranded", redeem_router.py:124).
EventuallySettled ==
  official = "delisted" ~> \A p \in Positions : ~Unsettled(p)

\* A queue row is never left behind: neither a crash between the claim and
\* mark_done nor a failed release strands it (redeem_router.py:534).
QueueDrains ==
  \A p \in Positions : queue[p] = "processing" ~> queue[p] = "done"

\* What resolution starts it finishes: neither an open position nor a claimed row
\* of the queue is left behind (redeem_router.py:124, :534).
NothingStranded == EventuallySettled /\ QueueDrains

\* A force-close marker set on an open position is acted upon, unless the
\* position is parked for settlement first (exit_watcher.py:377).
ForceCloseHonoured ==
  \A p \in Positions :
    force[p] ~> status[p] \in {"closed", "pending_settlement"}
=============================================================================
