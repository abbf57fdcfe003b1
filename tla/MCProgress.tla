----------------------------- MODULE MCProgress -----------------------------
(***************************************************************************)
(* What must come about: small instances for TLC of the liveness of        *)
(* TradeEntry, Broker and Alerts, which share no state.  A behaviour runs  *)
(* one of them, the scope, and the others stay as they start.              *)
(***************************************************************************)
EXTENDS TradeEntry, Broker, Alerts

CONSTANTS db, rpc

VARIABLE scope

progressVars == <<entryVars, brokerVars, alertVars, scope>>

PauseResume == {"pause", "resume"}

\* Bound: the user leaves the switches alone and no dedup row ages; no fairness
\* rests on these actions.
Calm ==
  /\ UNCHANGED autoOn /\ (liveOn' => liveOn)
  /\ \A k \in Keys : (recent[k] => recent'[k]) /\ (idem[k] = "live" => idem'[k] = "live")

ProgressInit ==
  /\ scope \in {"entry", "broker", "alerts"}
  /\ EntryInit /\ BrokerInit /\ AlertsInit
  /\ scope # "alerts" => may = Checks

ProgressNext ==
  /\ UNCHANGED scope
  /\ \/ scope = "entry" /\ EntryNext /\ UNCHANGED <<brokerVars, alertVars>>
     \/ scope = "broker" /\ BrokerNext /\ UNCHANGED <<entryVars, alertVars>>
     \/ scope = "alerts" /\ AlertsNext /\ UNCHANGED <<entryVars, brokerVars>>

\* The fairness of the three specifications, each in its own scope.
ProgressFairness ==
  /\ \A j \in Jobs : SF_entryVars(scope = "entry" /\ (JobGoesOn(j) \/ JobFails(j)))
  /\ WF_entryVars(scope = "entry" /\ OperatorGoesOn)
  /\ WF_entryVars(scope = "entry" /\ CacheAges)
  /\ WF_brokerVars(scope = "broker" /\ ClockTicks)
  /\ \A c \in Calls : /\ SF_brokerVars(scope = "broker" /\ TakeToken(c))
                      /\ WF_brokerVars(scope = "broker" /\ CallGoes(c))
  /\ \A c \in Polls : WF_brokerVars(scope = "broker" /\ Start(c))
  /\ \A p \in Probes : /\ WF_alertVars(scope = "alerts" /\ Probe(p))
                       /\ WF_alertVars(scope = "alerts" /\ RecordRound(p))
  /\ \A x \in Stuck : SF_alertVars(scope = "alerts" /\ CloseFails(x))
  /\ \A x \in Poor : SF_alertVars(scope = "alerts" /\ CheckBalance(x))
  /\ \A t \in Probes \cup Timers : WF_alertVars(scope = "alerts" /\ Send(t))
  /\ \A k \in AlertKeys : WF_alertVars(scope = "alerts" /\ CooldownEnds(k))

ProgressSpec == ProgressInit /\ [][ProgressNext]_progressVars /\ ProgressFairness
=============================================================================
