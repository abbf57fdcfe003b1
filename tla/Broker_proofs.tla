---------------------------- MODULE Broker_proofs ----------------------------
(***************************************************************************)
(* Theorems about Broker, for every number of calls, every threshold, every*)
(* number of attempts and every capacity of the bucket; and about Alerts,  *)
(* for all sets of dependencies, positions, users and requests.            *)
(***************************************************************************)
EXTENDS Broker, Alerts, TLAPS

\* A request waits for its next attempt only while it has attempts left.
AttemptsLeft == \A c \in Calls : call[c].at = "backoff" => call[c].attempt < MaxAttempts

\* The inductive invariant.
BrokerInv == BrokerTypeOK /\ AttemptsLeft /\ ClosedIsCalm

\* Where the task of a call may stand.
Standings == [at : Placed, attempt : {0}] \cup [at : InFlight, attempt : 1 .. MaxAttempts]

-----------------------------------------------------------------------------
(* One task moves: the others stand where they stood.                      *)

LEMMA MoveKeeps ==
  ASSUME BrokerTypeOK, AttemptsLeft, NEW c \in Calls, NEW to \in Standings,
         to.at = "backoff" => to.attempt < MaxAttempts,
         call' = [call EXCEPT ![c] = to]
  PROVE  call' \in [Calls -> Standings] /\ AttemptsLeft'
BY DEF BrokerTypeOK, AttemptsLeft, Standings

LEMMA PlacedStanding ==
  ASSUME NEW s \in Placed
  PROVE  At(s) \in Standings /\ At(s).at # "backoff"
BY DEF At, Placed, Standings

LEMMA TryStanding ==
  ASSUME NEW s \in InFlight, NEW n \in 1 .. MaxAttempts
  PROVE  Try(s, n) \in Standings /\ Try(s, n).at = s /\ Try(s, n).attempt = n
BY DEF Try, InFlight, Standings

\* A task in flight has made at least one attempt, and at most MaxAttempts.
LEMMA AttemptCounts ==
  ASSUME BrokerTypeOK, NEW c \in Calls, call[c].at \in InFlight
  PROVE  call[c].attempt \in 1 .. MaxAttempts
BY DEF BrokerTypeOK, InFlight, Placed

LEMMA BrokerInitHolds ==
  ASSUME BrokerAssumption, BrokerInit
  PROVE  BrokerInv
BY DEF BrokerAssumption, BrokerInit, BrokerInv, BrokerTypeOK, AttemptsLeft, ClosedIsCalm,
       At, Placed

-----------------------------------------------------------------------------
(* The steps of a task that leave the circuit as it is.                    *)

\* What these steps do to the rest of the state.
Quiet == UNCHANGED <<circuit, exchangeUp>> /\ tokens' \in 0 .. Burst

LEMMA QuietKeeps ==
  ASSUME BrokerAssumption, BrokerInv, NEW c \in Calls, NEW to \in Standings,
         to.at = "backoff" => to.attempt < MaxAttempts,
         call' = [call EXCEPT ![c] = to], Quiet
  PROVE  BrokerInv'
<1>1. call' \in [Calls -> Standings] /\ AttemptsLeft'
  BY MoveKeeps DEF BrokerInv
<1> QED BY <1>1 DEF BrokerInv, BrokerTypeOK, Standings, ClosedIsCalm, Quiet, circuit

LEMMA StartKeeps ==
  ASSUME BrokerAssumption, BrokerInv, NEW c \in Calls, Start(c)
  PROVE  BrokerInv'
<1>1. At("admit") \in Standings /\ At("admit").at # "backoff"
  BY PlacedStanding DEF Placed
<1>2. Quiet
  BY DEF Start, Quiet, BrokerInv, BrokerTypeOK
<1> QED BY <1>1, <1>2, QuietKeeps DEF Start, Moves

LEMMA PageReturnsKeeps ==
  ASSUME BrokerAssumption, BrokerInv, NEW c \in Calls, PageReturns(c)
  PROVE  BrokerInv'
<1>1. At("idle") \in Standings /\ At("idle").at # "backoff"
  BY PlacedStanding DEF Placed
<1>2. Quiet
  BY DEF PageReturns, Quiet, BrokerInv, BrokerTypeOK
<1> QED BY <1>1, <1>2, QuietKeeps DEF PageReturns, Moves

LEMMA TakeTokenKeeps ==
  ASSUME BrokerAssumption, BrokerInv, NEW c \in Calls, TakeToken(c)
  PROVE  BrokerInv'
<1> DEFINE n == call[c].attempt
<1>1. n \in 1 .. MaxAttempts
  BY AttemptCounts DEF TakeToken, Moves, InFlight, BrokerInv
<1>2. Try("sent", n) \in Standings /\ Try("sent", n).at = "sent"
  BY <1>1, TryStanding DEF InFlight
<1>3. Quiet
  BY DEF TakeToken, Quiet, BrokerInv, BrokerTypeOK, BrokerAssumption
<1> QED BY <1>2, <1>3, QuietKeeps DEF TakeToken, Moves

LEMMA AnswerKeeps ==
  ASSUME BrokerAssumption, BrokerInv, NEW c \in Calls, Answer(c)
  PROVE  BrokerInv'
<1> DEFINE n == call[c].attempt
<1>1. n \in 1 .. MaxAttempts
  BY AttemptCounts DEF Answer, AnswersOk, AnswersRefused, AnswerLost, Moves, InFlight, BrokerInv
<1>2. Quiet
  BY DEF Answer, AnswersOk, AnswersRefused, AnswerLost, Quiet, BrokerInv, BrokerTypeOK
<1>3. \A s \in {"succeeded", "idle", "failed"} :
        At(s) \in Standings /\ At(s).at # "backoff"
  BY PlacedStanding DEF Placed
<1>4. Try("backoff", n) \in Standings /\ Try("backoff", n).attempt = n
  BY <1>1, TryStanding DEF InFlight
<1>5. CASE AnswersOk(c) \/ AnswersRefused(c)
  BY <1>2, <1>3, <1>5, QuietKeeps DEF AnswersOk, AnswersRefused, Moves
<1>6. CASE AnswerLost(c)
  <2>1. CASE n < MaxAttempts
    <3>1. call' = [call EXCEPT ![c] = Try("backoff", n)]
      BY <1>6, <2>1 DEF AnswerLost, Moves
    <3> QED BY <1>2, <1>4, <2>1, <3>1, QuietKeeps
  <2>2. CASE ~(n < MaxAttempts)
    <3>1. call' = [call EXCEPT ![c] = At("failed")]
      BY <1>6, <2>2 DEF AnswerLost, Moves
    <3> QED BY <1>2, <1>3, <3>1, QuietKeeps
  <2> QED BY <2>1, <2>2
<1> QED BY <1>5, <1>6 DEF Answer

\* The attempts of a request never exceed MaxAttempts.
LEMMA ResendKeeps ==
  ASSUME BrokerAssumption, BrokerInv, NEW c \in Calls, Resend(c)
  PROVE  BrokerInv'
<1> DEFINE n == call[c].attempt
<1>1. n \in 1 .. MaxAttempts
  BY AttemptCounts DEF Resend, Moves, InFlight, BrokerInv
<1>2. n + 1 \in 1 .. MaxAttempts
  BY <1>1 DEF Resend, Moves, BrokerInv, AttemptsLeft, BrokerAssumption
<1>3. Try("acquire", n + 1) \in Standings /\ Try("acquire", n + 1).at = "acquire"
  BY <1>2, TryStanding DEF InFlight
<1>4. Quiet
  BY DEF Resend, Quiet, BrokerInv, BrokerTypeOK
<1> QED BY <1>3, <1>4, QuietKeeps DEF Resend, Moves

-----------------------------------------------------------------------------
(* The steps that change the circuit.                                      *)

LEMMA AdmitKeeps ==
  ASSUME BrokerAssumption, BrokerInv, NEW c \in Calls, Admit(c)
  PROVE  BrokerInv'
<1>1. At("idle") \in Standings /\ At("idle").at # "backoff"
  BY PlacedStanding DEF Placed
<1>2. Try("acquire", 1) \in Standings /\ Try("acquire", 1).at = "acquire"
  BY TryStanding DEF InFlight, BrokerAssumption
<1>3. call' \in [Calls -> Standings] /\ AttemptsLeft'
  BY <1>1, <1>2, MoveKeeps DEF Admit, Moves, BrokerInv
<1>4. ClosedIsCalm'
  BY DEF Admit, BrokerInv, BrokerTypeOK, ClosedIsCalm
<1> QED BY <1>3, <1>4 DEF Admit, BrokerInv, BrokerTypeOK, Standings

LEMMA RecordSuccessKeeps ==
  ASSUME BrokerAssumption, BrokerInv, NEW c \in Calls, RecordSuccess(c)
  PROVE  BrokerInv'
<1>1. At("idle") \in Standings /\ At("idle").at # "backoff"
  BY PlacedStanding DEF Placed
<1>2. call' \in [Calls -> Standings] /\ AttemptsLeft'
  BY <1>1, MoveKeeps DEF RecordSuccess, Moves, BrokerInv
<1> QED BY <1>2 DEF RecordSuccess, BrokerInv, BrokerTypeOK, Standings, ClosedIsCalm,
                    BrokerAssumption

LEMMA RecordFailureKeeps ==
  ASSUME BrokerAssumption, BrokerInv, NEW c \in Calls, RecordFailure(c)
  PROVE  BrokerInv'
<1> DEFINE count == IF breaker = "HALF_OPEN" \/ failures = TripAt
                    THEN failures ELSE failures + 1
           trips == breaker = "HALF_OPEN" \/ count = TripAt
<1>1. \A s \in {"page", "idle"} : At(s) \in Standings /\ At(s).at # "backoff"
  BY PlacedStanding DEF Placed
<1>2. call' = [call EXCEPT ![c] = At(IF trips THEN "page" ELSE "idle")]
  BY DEF RecordFailure, Moves
<1>3. call' \in [Calls -> Standings] /\ AttemptsLeft'
  BY <1>1, <1>2, MoveKeeps DEF BrokerInv
<1>4. count \in 0 .. TripAt
  BY DEF BrokerInv, BrokerTypeOK, BrokerAssumption
<1>5. /\ failures' = count
      /\ breaker' = IF trips THEN "OPEN" ELSE breaker
      /\ cool' = IF trips THEN Reset ELSE cool
      /\ UNCHANGED <<tokens, exchangeUp>>
  BY DEF RecordFailure
\* A failure that does not trip meets a closed breaker, or a full count.
<1>6. ClosedIsCalm'
  BY <1>4, <1>5 DEF BrokerInv, BrokerTypeOK, ClosedIsCalm, BrokerAssumption
<1>7. failures' \in 0 .. TripAt /\ cool' \in 0 .. Reset
  BY <1>4, <1>5 DEF BrokerInv, BrokerTypeOK, BrokerAssumption
<1>8. breaker' \in {"CLOSED", "OPEN", "HALF_OPEN"}
  BY <1>5 DEF BrokerInv, BrokerTypeOK
<1> QED BY <1>3, <1>5, <1>6, <1>7, <1>8 DEF BrokerInv, BrokerTypeOK, Standings

\* The dashboard, the clock and the exchange.
LEMMA WorldKeeps ==
  ASSUME BrokerAssumption, BrokerInv, ReadState \/ ClockTicks \/ ExchangeChanges
  PROVE  BrokerInv'
<1> USE DEF BrokerInv, BrokerTypeOK, AttemptsLeft, ClosedIsCalm
<1>1. CASE ReadState
  BY <1>1 DEF ReadState
<1>2. CASE ClockTicks
  BY <1>2 DEF ClockTicks, BrokerAssumption
<1>3. CASE ExchangeChanges
  BY <1>3 DEF ExchangeChanges, circuit
<1> QED BY <1>1, <1>2, <1>3

LEMMA BrokerStepKeeps ==
  ASSUME BrokerAssumption, BrokerInv, [BrokerNext]_brokerVars
  PROVE  BrokerInv'
<1>1. CASE BrokerNext
  <2>1. ASSUME NEW c \in Calls, Start(c) \/ TakeToken(c) \/ CallGoes(c)
        PROVE  BrokerInv'
    BY <2>1, StartKeeps, TakeTokenKeeps, AdmitKeeps, RecordSuccessKeeps, RecordFailureKeeps,
       PageReturnsKeeps, AnswerKeeps, ResendKeeps DEF CallGoes
  <2>2. CASE ReadState \/ ClockTicks \/ ExchangeChanges
    BY <2>2, WorldKeeps
  <2> QED BY <1>1, <2>1, <2>2 DEF BrokerNext
<1>2. CASE UNCHANGED brokerVars
  BY <1>2 DEF brokerVars, BrokerInv, BrokerTypeOK, AttemptsLeft, ClosedIsCalm
<1> QED BY <1>1, <1>2

\* circuit_breaker.py and rate_limiter.py: the counters stay in their ranges and no
\* request is sent more than MaxAttempts times.
THEOREM BrokerTyped ==
  ASSUME BrokerAssumption
  PROVE  BrokerSpec => []BrokerTypeOK
<1>1. BrokerInit => BrokerInv
  BY BrokerInitHolds
<1>2. BrokerInv /\ [BrokerNext]_brokerVars => BrokerInv'
  BY BrokerStepKeeps
<1>3. BrokerInv => BrokerTypeOK
  BY DEF BrokerInv
<1> QED BY <1>1, <1>2, <1>3, PTL DEF BrokerSpec

\* circuit_breaker.py: for every threshold and every number of overlapping calls the
\* breaker is closed exactly while fewer failures are counted than trip it.
THEOREM BreakerIsCalm ==
  ASSUME BrokerAssumption
  PROVE  BrokerSpec => []ClosedIsCalm
<1>1. BrokerInit => BrokerInv
  BY BrokerInitHolds
<1>2. BrokerInv /\ [BrokerNext]_brokerVars => BrokerInv'
  BY BrokerStepKeeps
<1>3. BrokerInv => ClosedIsCalm
  BY DEF BrokerInv
<1> QED BY <1>1, <1>2, <1>3, PTL DEF BrokerSpec

-----------------------------------------------------------------------------
(* Alerts.  Every cool-down has a key somebody can ask about again, since  *)
(* every page under way has one.                                           *)

AlertTasks == Probes \cup Timers
PagesAreKeyed ==
  \A t \in AlertTasks :
    task[t].at = "send" => <<task[t].key, task[t].about>> \in AlertKeys

\* The inductive invariant.
AlertsInv == AlertsTypeOK /\ PagesAreKeyed

\* What a task may be.
AlertTask == [at : {"idle", "asked", "send"}, about : SUBSET Problems,
              key : {"none", "down", "degraded", "close", "low"}]

\* A task that goes on to something of its type, with a key if it is a page.
LEMMA BecomesKeyed ==
  ASSUME AlertsInv, NEW t \in AlertTasks, NEW next \in AlertTask, Becomes(t, next),
         next.at = "send" => <<next.key, next.about>> \in AlertKeys
  PROVE  task' \in [AlertTasks -> AlertTask] /\ PagesAreKeyed'
BY DEF AlertsInv, AlertsTypeOK, PagesAreKeyed, AlertTasks, AlertTask, Becomes

\* A dispatch ends the task or makes it a page with its key.
LEMMA DispatchKeyed ==
  ASSUME AlertsInv, NEW t \in AlertTasks, NEW S \in SUBSET Problems,
         NEW key \in {"down", "degraded", "close", "low"}, Dispatch(t, key, S),
         S # {} => <<key, S>> \in AlertKeys
  PROVE  task' \in [AlertTasks -> AlertTask] /\ PagesAreKeyed'
<1>1. CASE S = {} \/ <<key, S>> \in muted
  <2>1. Becomes(t, Idle) /\ Idle \in AlertTask /\ Idle.at # "send"
    BY <1>1 DEF Dispatch, Idle, AlertTask
  <2> QED BY <2>1, BecomesKeyed
<1>2. CASE ~(S = {} \/ <<key, S>> \in muted)
  <2>1. Becomes(t, Page(key, S)) /\ Page(key, S) \in AlertTask
    BY <1>2 DEF Dispatch, Page, AlertTask
  <2>2. Page(key, S).key = key /\ Page(key, S).about = S
    BY DEF Page
  <2> QED BY <1>2, <2>1, <2>2, BecomesKeyed
<1> QED BY <1>1, <1>2

LEMMA LeastBounds ==
  ASSUME AlertsAssumption, NEW n \in 0 .. PageAt
  PROVE  Least(n + 1) \in 0 .. PageAt
BY DEF AlertsAssumption, Least

LEMMA AlertsInitHolds ==
  ASSUME AlertsAssumption, AlertsInit
  PROVE  AlertsInv
BY DEF AlertsAssumption, AlertsInit, AlertsInv, AlertsTypeOK, PagesAreKeyed, AlertTasks, Idle,
       Problems

LEMMA AlertsStepKeeps ==
  ASSUME AlertsAssumption, AlertsInv, [AlertsNext]_alertVars
  PROVE  AlertsInv'
<1> USE DEF AlertsInv, AlertsTypeOK
<1>0. AlertTask = [at : {"idle", "asked", "send"}, about : SUBSET Problems,
                   key : {"none", "down", "degraded", "close", "low"}]
      /\ AlertTasks = Probes \cup Timers
      /\ "watcher" \in AlertTasks /\ "hourly" \in AlertTasks
  BY DEF AlertTask, AlertTasks, Timers
<1>1. ASSUME NEW p \in Probes, Probe(p)
      PROVE  AlertsInv'
  <2>1. Asked(bad \cap Checks) \in AlertTask /\ Asked(bad \cap Checks).at # "send"
    BY DEF Asked, AlertTask, Problems
  <2>2. task' \in [AlertTasks -> AlertTask] /\ PagesAreKeyed'
    BY <1>1, <2>1, BecomesKeyed DEF Probe, AlertTasks
  <2> QED BY <1>0, <1>1, <2>2 DEF Probe
<1>2. ASSUME NEW p \in Probes, RecordRound(p)
      PROVE  AlertsInv'
  <2>1. PICK failing \in Findings(p) :
          /\ streak' = Counted(failing)
          /\ Dispatch(p, Verdict(failing), {c \in failing : streak'[c] = PageAt})
    BY <1>2 DEF RecordRound
  <2>2. failing \subseteq Checks /\ Verdict(failing) \in {"down", "degraded"}
    BY DEF Findings, Verdict
  <2>3. streak' \in [Checks \cup Stuck -> 0 .. PageAt]
    BY <2>1, LeastBounds DEF Counted, AlertsAssumption
  <2>4. PICK S \in SUBSET Checks : S = {c \in failing : streak'[c] = PageAt}
    BY <2>2
  <2>5. PICK key \in {"down", "degraded"} : key = Verdict(failing)
    BY <2>2
  <2>6. task' \in [AlertTasks -> AlertTask] /\ PagesAreKeyed'
    <3>1. Dispatch(p, key, S)
      BY <2>1, <2>4, <2>5
    <3>2. p \in AlertTasks /\ S \in SUBSET Problems /\ (S # {} => <<key, S>> \in AlertKeys)
      BY DEF AlertTasks, Problems, AlertKeys
    <3>3. key \in {"down", "degraded", "close", "low"}
      OBVIOUS
    <3> HIDE DEF AlertsInv, AlertsTypeOK
    <3> QED BY <3>1, <3>2, <3>3, DispatchKeyed
  <2> QED BY <1>0, <1>2, <2>3, <2>6 DEF RecordRound
<1>3. ASSUME NEW x \in Stuck, CloseFails(x)
      PROVE  AlertsInv'
  <2>1. streak' \in [Checks \cup Stuck -> 0 .. PageAt]
    BY <1>3, LeastBounds DEF CloseFails
  <2>2. PICK S \in {{}, {x}} : S = IF streak'[x] = PageAt THEN {x} ELSE {}
    OBVIOUS
  <2>3. S \in SUBSET Problems /\ (S # {} => <<"close", S>> \in AlertKeys)
    BY DEF Problems, AlertKeys
  <2>4. task' \in [AlertTasks -> AlertTask] /\ PagesAreKeyed'
    BY <1>0, <1>3, <2>2, <2>3, DispatchKeyed DEF CloseFails
  <2> QED BY <1>0, <1>3, <2>1, <2>4 DEF CloseFails
<1>4. ASSUME NEW x \in Stuck, CloseWorks(x)
      PROVE  AlertsInv'
  <2>1. streak' \in [Checks \cup Stuck -> 0 .. PageAt]
    BY <1>4 DEF CloseWorks, AlertsAssumption
  <2> QED BY <1>4, <2>1 DEF CloseWorks, PagesAreKeyed
<1>5. ASSUME NEW x \in Poor, CheckBalance(x)
      PROVE  AlertsInv'
  <2>1. {x} \in SUBSET Problems /\ <<"low", {x}>> \in AlertKeys
    BY DEF Problems, AlertKeys
  <2>2. task' \in [AlertTasks -> AlertTask] /\ PagesAreKeyed'
    BY <1>0, <1>5, <2>1, DispatchKeyed DEF CheckBalance
  <2> QED BY <1>0, <1>5, <2>2 DEF CheckBalance
<1>6. ASSUME NEW t \in Probes \cup Timers, Send(t)
      PROVE  AlertsInv'
  <2>1. Idle \in AlertTask /\ Idle.at # "send"
    BY DEF Idle, AlertTask
  <2>2. task' \in [AlertTasks -> AlertTask] /\ PagesAreKeyed'
    BY <1>0, <1>6, <2>1, BecomesKeyed DEF Send
  <2>3. muted' \subseteq AlertKeys
    BY <1>6 DEF Send, PagesAreKeyed, AlertTasks
  <2> QED BY <1>0, <1>6, <2>2, <2>3 DEF Send
<1>7. ASSUME NEW k \in muted, CooldownEnds(k)
      PROVE  AlertsInv'
  BY <1>7 DEF CooldownEnds, PagesAreKeyed
<1>8. CASE AlertsRestart
  <2>1. streak' \in [Checks \cup Stuck -> 0 .. PageAt]
    BY <1>8 DEF AlertsRestart, AlertsAssumption
  <2>2. task' \in [AlertTasks -> AlertTask] /\ PagesAreKeyed'
    BY <1>8 DEF AlertsRestart, Idle, AlertTask, AlertTasks, PagesAreKeyed
  <2>3. muted' = {} /\ alertRestarts' \in 0 .. MaxAlertRestarts
        /\ UNCHANGED <<may, bad, telegramUp>>
    BY <1>8 DEF AlertsRestart, AlertsAssumption
  <2> QED BY <1>0, <2>1, <2>2, <2>3
<1>9. ASSUME NEW x \in Problems, Changes(x)
      PROVE  AlertsInv'
  BY <1>9 DEF Changes, PagesAreKeyed
<1>10. CASE TelegramChanges
  BY <1>10 DEF TelegramChanges, PagesAreKeyed
<1>11. CASE UNCHANGED alertVars
  BY <1>11 DEF alertVars, PagesAreKeyed
<1> QED BY <1>1, <1>2, <1>3, <1>4, <1>5, <1>6, <1>7, <1>8, <1>9, <1>10, <1>11 DEF AlertsNext

\* monitoring/alerts.py: the counters stay within the threshold and every cool-down
\* belongs to a key of _dispatch that names what it was about.
THEOREM AlertsTyped ==
  ASSUME AlertsAssumption
  PROVE  AlertsSpec => []AlertsTypeOK
<1>1. AlertsInit => AlertsInv
  BY AlertsInitHolds
<1>2. AlertsInv /\ [AlertsNext]_alertVars => AlertsInv'
  BY AlertsStepKeeps
<1>3. AlertsInv => AlertsTypeOK
  BY DEF AlertsInv
<1> QED BY <1>1, <1>2, <1>3, PTL DEF AlertsSpec
=============================================================================
