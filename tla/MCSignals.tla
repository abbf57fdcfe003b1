------------------------------ MODULE MCSignals ------------------------------
(***************************************************************************)
(* Small instances for TLC of the way from a signal to a trade and to its  *)
(* receipt: Scanner publishes, Feeds subscribes, ScanJobs with Bankroll    *)
(* trades and Receipts tells.  They share no state; a behaviour runs one   *)
(* of them, the scope, and the others stay as they start.                  *)
(***************************************************************************)
EXTENDS ScanJobs, Scanner, Feeds, Receipts

CONSTANTS m1, m2, m3, mkt1, mkt2,
  Scopes  \* the components this instance runs

VARIABLE scope

signalVars == <<vars, scanVars, feedVars, receiptVars, scope>>

Off == [breaker |-> FALSE, override |-> FALSE, topup |-> FALSE, safeClose |-> FALSE,
        live |-> FALSE, keys |-> {<<m1, "yes">>}, moves |-> {}]
\* One setting per question: the direction window over three markets, the two
\* legs of one market, the caps of a live user, the breaker, the switches.
Directions == [Off EXCEPT !.safeClose = TRUE, !.keys = {<<m1, "yes">>, <<m2, "yes">>, <<m3, "yes">>}]
Legs    == [Off EXCEPT !.safeClose = TRUE, !.override = TRUE, !.topup = TRUE,
                       !.keys = {<<m1, "yes">>, <<m1, "no">>}, !.moves = {"close", "age"}]
Caps    == [Directions EXCEPT !.safeClose = FALSE, !.live = TRUE]
Guarded == [Off EXCEPT !.breaker = TRUE, !.moves = {"wallet"}]
Switched == [Off EXCEPT !.moves = {"switch", "strategy", "restart"}]
AllConfigs == {Directions, Legs, Caps, Guarded, Switched}
Levels == {1, 3, 4}
Known  == {"late_entry_v3", "signal_following", "copy_trade"}

AllScopes == {"jobs", "scanner", "feeds", "receipts"}
\* A position opened on paper and closed by the watcher, and beside it a close of
\* the same position on a screen or of a position of another market; and a live
\* position that is closed on a screen.
OpenedOnes == {<<mkt1, 1, "paper">>, <<mkt2, 1, "live">>}
ClosedOnes == {<<mkt1, 1, "watcher">>, <<mkt1, 1, "myTrades">>, <<mkt2, 1, "trades">>}
SomeCasts == {{<<mkt1, 1, "paper">>, <<mkt1, 1, "watcher">>, <<mkt1, 1, "myTrades">>},
              {<<mkt1, 1, "watcher">>, <<mkt2, 1, "trades">>},
              {<<mkt2, 1, "live">>, <<mkt2, 1, "trades">>}}

SignalsInit ==
  /\ scope \in Scopes
  /\ Init /\ ScannerInit /\ FeedsInit /\ ReceiptsInit
  /\ scope # "jobs" => config = Switched
  /\ scope # "scanner" => edge = LiveFeed /\ open = Outlets
  /\ scope # "feeds" => active = Feeds
  /\ scope # "receipts" => report[<<mkt1, 1, "paper">>].at = "idle"

SignalsNext ==
  /\ UNCHANGED scope
  /\ \/ scope = "jobs" /\ Next /\ UNCHANGED <<scanVars, feedVars, receiptVars>>
     \/ scope = "scanner" /\ ScannerNext /\ UNCHANGED <<vars, feedVars, receiptVars>>
     \/ scope = "feeds" /\ FeedsNext /\ UNCHANGED <<vars, scanVars, receiptVars>>
     \/ scope = "receipts" /\ ReceiptsNext /\ UNCHANGED <<vars, scanVars, feedVars>>

\* The fairness of ScanJobs in its scope; the others promise only safety.
SignalsSpec ==
  /\ SignalsInit /\ [][SignalsNext]_signalVars
  /\ \A j \in Jobs : WF_vars(scope = "jobs" /\ JobStep(j))
=============================================================================
