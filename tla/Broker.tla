------------------------------- MODULE Broker -------------------------------
(***************************************************************************)
(* The order calls of integrations/clob: every post_order, cancel_order    *)
(* and get_order of the process shares one circuit breaker and one token   *)
(* bucket (circuit_breaker.py, rate_limiter.py), and the adapter sends a   *)
(* signed request up to MaxAttempts times (adapter.py).  A call is a task  *)
(* of its own, so the answers of calls that began before the breaker       *)
(* opened arrive whenever they do.                                         *)
(*                                                                         *)
(* The lock of the breaker is never held over an await: its critical       *)
(* sections are single steps.  Time passes in ticks, of which the          *)
(* cool-down lasts Reset, and a tick refills one token.  The counter of    *)
(* failures stops at TripAt, the only value it is compared with.           *)
(***************************************************************************)
EXTENDS Integers

CONSTANTS
  Posts,       \* tasks that post an order
  Polls,       \* tasks that read or cancel one: the polling of lifecycle.py
  TripAt,      \* CIRCUIT_BREAKER_THRESHOLD
  Reset,       \* CIRCUIT_BREAKER_RESET_SECONDS
  MaxAttempts, \* DEFAULT_MAX_RETRIES
  Burst        \* capacity of the token bucket, CLOB_RATE_LIMIT_RPS

Calls == Posts \cup Polls

ASSUME BrokerAssumption ==
  /\ TripAt \in Nat \ {0} /\ MaxAttempts \in Nat \ {0} /\ Burst \in Nat \ {0}
  /\ Reset \in Nat

VARIABLES
  breaker,    \* _state
  failures,   \* _failures
  cool,       \* ticks of the cool-down left, from _opened_at
  tokens,     \* _tokens
  call,       \* call[c] : where the task of c stands, and its attempt
  exchangeUp  \* the exchange takes requests and its answers arrive

circuit    == <<breaker, failures, cool>>
brokerVars == <<breaker, failures, cool, tokens, call, exchangeUp>>

At(s)      == [at |-> s, attempt |-> 0]
Try(s, n)  == [at |-> s, attempt |-> n]
Placed     == {"idle", "admit", "succeeded", "failed", "page"}
InFlight   == {"acquire", "sent", "backoff"}

BrokerTypeOK ==
  /\ breaker \in {"CLOSED", "OPEN", "HALF_OPEN"}
  /\ failures \in 0 .. TripAt /\ cool \in 0 .. Reset /\ tokens \in 0 .. Burst
  /\ call \in [Calls -> [at : Placed, attempt : {0}]
                        \cup [at : InFlight, attempt : 1 .. MaxAttempts]]
  /\ exchangeUp \in BOOLEAN

BrokerInit ==
  /\ breaker = "CLOSED" /\ failures = 0 /\ cool = 0 /\ tokens = Burst
  /\ call = [c \in Calls |-> At("idle")]
  /\ exchangeUp = TRUE

Moves(c, from, to) == call[c].at = from /\ call' = [call EXCEPT ![c] = to]

-----------------------------------------------------------------------------
(* The circuit breaker.                                                    *)

Start(c) == Moves(c, "idle", At("admit")) /\ UNCHANGED <<circuit, tokens, exchangeUp>>

\* Mutant of Cooled: the cool-down is over only after its end.
Cooled_Later == cool < 0
Cooled       == cool = 0

\* Before the request: an open breaker whose cool-down is over half-opens, and
\* lets this call and every later one through; one still cooling raises
\* ClobCircuitOpenError.
Admit(c) ==
  /\ UNCHANGED <<failures, cool, tokens, exchangeUp>>
  /\ \/ /\ breaker = "OPEN" /\ ~Cooled
        /\ Moves(c, "admit", At("idle")) /\ UNCHANGED breaker
     \/ /\ breaker = "OPEN" => Cooled
        /\ Moves(c, "admit", Try("acquire", 1))
        /\ breaker' = IF breaker = "OPEN" THEN "HALF_OPEN" ELSE breaker

\* The dashboard of api/ops.py half-opens it too, without the lock.
ReadState ==
  /\ breaker = "OPEN" /\ Cooled /\ breaker' = "HALF_OPEN"
  /\ UNCHANGED <<failures, cool, tokens, call, exchangeUp>>

\* Mutant of RecordSuccess: a trial closes the breaker and keeps its count.
RecordSuccess_Keeps(c) ==
  /\ Moves(c, "succeeded", At("idle"))
  /\ breaker' = "CLOSED" /\ cool' = 0
  /\ UNCHANGED <<failures, tokens, exchangeUp>>

\* A success closes the breaker in every state, also when the call had begun
\* before it opened.
RecordSuccess(c) ==
  /\ Moves(c, "succeeded", At("idle"))
  /\ breaker' = "CLOSED" /\ failures' = 0 /\ cool' = 0
  /\ UNCHANGED <<tokens, exchangeUp>>

\* The failure that reaches the threshold opens the breaker, and so do the one
\* of a trial and a late one: each restarts the cool-down and pages the operator.
RecordFailure(c) ==
  LET count == IF breaker = "HALF_OPEN" \/ failures = TripAt
               THEN failures ELSE failures + 1
      trips == breaker = "HALF_OPEN" \/ count = TripAt
  IN /\ failures' = count
     /\ breaker' = IF trips THEN "OPEN" ELSE breaker
     /\ cool' = IF trips THEN Reset ELSE cool
     /\ Moves(c, "failed", At(IF trips THEN "page" ELSE "idle"))
     /\ UNCHANGED <<tokens, exchangeUp>>

\* _on_circuit_open: notify_operator swallows its own failures, and the call
\* raises its exception after it.
PageReturns(c) == Moves(c, "page", At("idle")) /\ UNCHANGED <<circuit, tokens, exchangeUp>>

-----------------------------------------------------------------------------
(* The request and its attempts.                                           *)

\* RateLimiter.acquire: a task that finds no token sleeps and looks again.
TakeToken(c) ==
  /\ tokens > 0 /\ tokens' = tokens - 1
  /\ Moves(c, "acquire", Try("sent", call[c].attempt))
  /\ UNCHANGED <<circuit, exchangeUp>>

\* A 2xx answer.
AnswersOk(c) ==
  /\ Moves(c, "sent", At("succeeded"))
  /\ UNCHANGED <<circuit, tokens, exchangeUp>>

\* A 4xx other than 429, or a body that is no JSON: raised at once, not counted.
AnswersRefused(c) ==
  /\ Moves(c, "sent", At("idle"))
  /\ UNCHANGED <<circuit, tokens, exchangeUp>>

\* A timeout, a lost connection, a 429 or a 5xx: sent again with the same
\* headers after the backoff, until the attempts are used up.
AnswerLost(c) ==
  /\ ~exchangeUp
  /\ Moves(c, "sent", IF call[c].attempt < MaxAttempts
                      THEN Try("backoff", call[c].attempt) ELSE At("failed"))
  /\ UNCHANGED <<circuit, tokens, exchangeUp>>

Resend(c) ==
  /\ Moves(c, "backoff", Try("acquire", call[c].attempt + 1))
  /\ UNCHANGED <<circuit, tokens, exchangeUp>>

ClockTicks ==
  /\ cool' = IF cool > 0 THEN cool - 1 ELSE cool
  /\ tokens' = IF tokens < Burst THEN tokens + 1 ELSE tokens
  /\ UNCHANGED <<breaker, failures, call, exchangeUp>>

ExchangeChanges ==
  /\ exchangeUp' = ~exchangeUp
  /\ UNCHANGED <<circuit, tokens, call>>

-----------------------------------------------------------------------------
Answer(c)   == AnswersOk(c) \/ AnswersRefused(c) \/ AnswerLost(c)
CallGoes(c) == \/ Admit(c) \/ RecordSuccess(c) \/ RecordFailure(c) \/ PageReturns(c)
               \/ Answer(c) \/ Resend(c)

BrokerNext ==
  \/ \E c \in Calls : Start(c) \/ TakeToken(c) \/ CallGoes(c)
  \/ ReadState \/ ClockTicks \/ ExchangeChanges

\* asyncio gives every task its turn, httpx bounds every request, the clock runs,
\* a sleeper of the bucket finds a token in the end, and lifecycle.py polls the
\* open orders in every interval.
BrokerFairness ==
  /\ WF_brokerVars(ClockTicks)
  /\ \A c \in Calls : SF_brokerVars(TakeToken(c)) /\ WF_brokerVars(CallGoes(c))
  /\ \A c \in Polls : WF_brokerVars(Start(c))

BrokerSpec == BrokerInit /\ [][BrokerNext]_brokerVars /\ BrokerFairness

-----------------------------------------------------------------------------
(* Properties.                                                             *)

\* circuit_breaker.py: the breaker is closed exactly while fewer than TripAt
\* failures are counted, whatever late answers, trials of several calls at once
\* and refusals in between do.  A closed breaker with a full count would trip on
\* the first failure, an open one with a low count would never page again.
ClosedIsCalm == breaker = "CLOSED" <=> failures < TripAt

\* An outage of the exchange does not outlive itself: once its answers arrive
\* again the breaker stops turning calls away, although late failures restart
\* the cool-down and refusals neither count nor close.
Recovers == (<>[]exchangeUp) => (<>[](breaker # "OPEN"))
=============================================================================
