------------------------------- MODULE Alerts -------------------------------
(***************************************************************************)
(* What the operator is paged about, and the low-balance message of a      *)
(* user: monitoring/alerts.py with its three callers, the /health route,   *)
(* the exit watcher and the hourly balance check.  The counters and the    *)
(* cool-downs live in the module and are gone after a restart.             *)
(*                                                                         *)
(* Every request to /health runs the checks and records what it found in a *)
(* task of its own, so two rounds can overlap.  A cool-down ends at some   *)
(* time after it began; how long it lasts makes no difference here.        *)
(***************************************************************************)
EXTENDS Naturals, FiniteSets

CONSTANTS
  Checks,    \* the dependencies run_health_checks asks
  Database,  \* the one whose failure makes the verdict "down"
  Stuck,     \* positions whose close may keep failing
  Poor,      \* users whose balance may be low
  Probes,    \* requests to /health at the same time
  PageAt,    \* CONSECUTIVE_FAIL_THRESHOLD and CLOSE_FAILURE_OPERATOR_THRESHOLD
  MaxAlertRestarts  \* bound on the restarts of the process

Problems == Checks \cup Stuck \cup Poor
Timers   == {"watcher", "hourly"}

ASSUME AlertsAssumption ==
  /\ Database \in Checks /\ PageAt \in Nat \ {0} /\ MaxAlertRestarts \in Nat
  /\ Checks \cap Stuck = {} /\ Checks \cap Poor = {} /\ Stuck \cap Poor = {}
  /\ Probes \cap Timers = {}

VARIABLES
  may,         \* the problems this behaviour can meet
  bad,         \* those it has now
  telegramUp,  \* Telegram delivers
  streak,      \* _consecutive_failures, and close_failure_count of a position
  muted,       \* keys of _last_alert_at whose cool-down has not ended
  alertRestarts, \* restarts so far
  task         \* task[t] : what a task does, the problems it is about and its key

alertVars == <<may, bad, telegramUp, streak, muted, alertRestarts, task>>

Idle      == [at |-> "idle", about |-> {}, key |-> "none"]
Asked(S)  == [at |-> "asked", about |-> S, key |-> "none"]
Page(k,S) == [at |-> "send", about |-> S, key |-> k]
AlertKeys == ({"down", "degraded"} \X ((SUBSET Checks) \ {{}}))
             \cup ({"close"} \X {{x} : x \in Stuck}) \cup ({"low"} \X {{x} : x \in Poor})

AlertsTypeOK ==
  /\ bad \subseteq may /\ may \subseteq Problems /\ telegramUp \in BOOLEAN
  /\ streak \in [Checks \cup Stuck -> 0 .. PageAt]
  /\ muted \subseteq AlertKeys /\ alertRestarts \in 0 .. MaxAlertRestarts
  /\ task \in [Probes \cup Timers ->
       [at : {"idle", "asked", "send"}, about : SUBSET Problems,
        key : {"none", "down", "degraded", "close", "low"}]]

AlertsInit ==
  /\ may \in {Checks, Stuck \cup Poor}
  /\ bad = {} /\ telegramUp = TRUE
  /\ streak = [x \in Checks \cup Stuck |-> 0]
  /\ muted = {} /\ alertRestarts = 0
  /\ task = [t \in Probes \cup Timers |-> Idle]

Least(n) == IF n < PageAt THEN n ELSE PageAt
Becomes(t, next) == task' = [task EXCEPT ![t] = next]

\* _dispatch up to its send: nothing while the cool-down of the key lasts.
Dispatch(t, key, S) ==
  Becomes(t, IF S = {} \/ <<key, S>> \in muted THEN Idle ELSE Page(key, S))

-----------------------------------------------------------------------------
(* The health route.                                                       *)

\* A request: the checks run beside each other, each with its timeout.
Probe(p) ==
  /\ task[p].at = "idle" /\ Becomes(p, Asked(bad \cap Checks))
  /\ UNCHANGED <<may, bad, telegramUp, streak, muted, alertRestarts>>

\* What a round may find: a check whose dependency changed meanwhile may have
\* seen it either way.
Findings(p) ==
  {S \in SUBSET Checks : /\ task[p].about \cap bad \subseteq S
                         /\ S \subseteq task[p].about \cup (bad \cap Checks)}

Verdict(failing) == IF Database \in failing THEN "down" ELSE "degraded"

\* record_health_result: counts of the checks that failed, none for the others.
\* Mutant of Counted: one check that answers resets the count of every check.
Counted_AnyReset(failing) ==
  [x \in Checks \cup Stuck |-> IF x \in Stuck THEN streak[x]
                      ELSE IF failing = Checks THEN Least(streak[x] + 1) ELSE 0]
Counted(failing) ==
  [x \in Checks \cup Stuck |-> IF x \in Stuck THEN streak[x]
                      ELSE IF x \in failing THEN Least(streak[x] + 1) ELSE 0]

\* The background task of the request records and pages about the checks that
\* have reached the threshold, under a key that names them.
RecordRound(p) ==
  /\ task[p].at = "asked"
  /\ \E failing \in Findings(p) :
       /\ streak' = Counted(failing)
       /\ Dispatch(p, Verdict(failing), {c \in failing : streak'[c] = PageAt})
  /\ UNCHANGED <<may, bad, telegramUp, muted, alertRestarts>>

-----------------------------------------------------------------------------
(* The other callers.                                                      *)

\* The exit watcher on a position it tries to close: the count of the row, and
\* the page from the second failure on.
CloseFails(x) ==
  /\ x \in Stuck \cap bad /\ task["watcher"].at = "idle"
  /\ streak' = [streak EXCEPT ![x] = Least(@ + 1)]
  /\ Dispatch("watcher", "close", IF streak'[x] = PageAt THEN {x} ELSE {})
  /\ UNCHANGED <<may, bad, telegramUp, muted, alertRestarts>>

CloseWorks(x) ==
  /\ x \in Stuck \ bad /\ streak[x] > 0 /\ task["watcher"].at = "idle"
  /\ streak' = [streak EXCEPT ![x] = 0]
  /\ UNCHANGED <<may, bad, telegramUp, muted, alertRestarts, task>>

\* check_balance_alerts: alert_user_low_balance with the hour of its own key.
CheckBalance(x) ==
  /\ x \in Poor \cap bad /\ task["hourly"].at = "idle"
  /\ Dispatch("hourly", "low", {x})
  /\ UNCHANGED <<may, bad, telegramUp, streak, muted, alertRestarts>>

-----------------------------------------------------------------------------

\* notifications.send retries and then returns FALSE.  A page arms its
\* cool-down only when it was delivered; the low-balance message does not look
\* at the result.
Send(t) ==
  /\ task[t].at = "send" /\ Becomes(t, Idle)
  /\ muted' = IF telegramUp \/ task[t].key = "low"
              THEN muted \cup {<<task[t].key, task[t].about>>} ELSE muted
  /\ UNCHANGED <<may, bad, telegramUp, streak, alertRestarts>>

CooldownEnds(k) ==
  /\ k \in muted /\ muted' = muted \ {k}
  /\ UNCHANGED <<may, bad, telegramUp, streak, alertRestarts, task>>

\* The process stops and starts: close_failure_count is in the database.
AlertsRestart ==
  /\ alertRestarts < MaxAlertRestarts /\ alertRestarts' = alertRestarts + 1
  /\ streak' = [x \in Checks \cup Stuck |-> IF x \in Stuck THEN streak[x] ELSE 0]
  /\ muted' = {} /\ task' = [t \in Probes \cup Timers |-> Idle]
  /\ UNCHANGED <<may, bad, telegramUp>>

Changes(x)  == x \in may /\ bad' = (bad \ {x}) \cup ({x} \ bad)
               /\ UNCHANGED <<may, telegramUp, streak, muted, alertRestarts, task>>
TelegramChanges ==
  telegramUp' = ~telegramUp /\ UNCHANGED <<may, bad, streak, muted, alertRestarts, task>>

AlertsNext ==
  \/ \E p \in Probes : Probe(p) \/ RecordRound(p)
  \/ \E x \in Stuck : CloseFails(x) \/ CloseWorks(x)
  \/ \E x \in Poor : CheckBalance(x)
  \/ \E t \in Probes \cup Timers : Send(t)
  \/ \E k \in muted : CooldownEnds(k)
  \/ \E x \in Problems : Changes(x)
  \/ AlertsRestart \/ TelegramChanges

\* Fly asks /health every 15 seconds (fly.toml), the watcher comes back to an
\* open position every tick, the balance check runs every hour, and a
\* cool-down ends.
AlertsFairness ==
  /\ \A p \in Probes : WF_alertVars(Probe(p)) /\ WF_alertVars(RecordRound(p))
  /\ \A x \in Stuck : SF_alertVars(CloseFails(x))
  /\ \A x \in Poor : SF_alertVars(CheckBalance(x))
  /\ \A t \in Probes \cup Timers : WF_alertVars(Send(t))
  /\ \A k \in AlertKeys : WF_alertVars(CooldownEnds(k))

AlertsSpec == AlertsInit /\ [][AlertsNext]_alertVars /\ AlertsFairness

-----------------------------------------------------------------------------
(* Properties.                                                             *)

\* The problems named in a page that was delivered and still mutes its key.
Named == UNION {k[2] : k \in muted}

\* alerts.py: threshold, cool-down and per-check reset never silence a problem.
\* One that stays, on a process that stays up with a link to Telegram, is told
\* of again and again, whatever else fails and recovers beside it.
Paged ==
  \A x \in Problems :
    <>[](x \in bad /\ telegramUp) => []<>(x \in Named)
=============================================================================
