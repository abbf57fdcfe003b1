---------------------------- MODULE MCPositions -----------------------------
(***************************************************************************)
(* Small instances for TLC of two ways to a position: one entered and left *)
(* within a candle (CandleTrade), one copied from a leader (CopyTrade).    *)
(* They share no state; a behaviour runs one of them, the scope, and the   *)
(* other stays as it starts.                                               *)
(***************************************************************************)
EXTENDS CopyTrade, CandleTrade

CONSTANTS t1, t2,
  Scopes  \* the components this instance runs

VARIABLE scope

positionVars == <<copyVars, candleVars, scope>>

AllScopes  == {"copy", "candle"}
CandleOnly == {"candle"}

Quiet == [jobs |-> {Monitor, Track}, decoded |-> TRUE, ignored |-> {}, start |-> {t1}, cap |-> 2,
          made |-> 0, leader |-> 2, moves |-> {}]
\* One setting per question: the cap across the jobs; days and crashes; two
\* tasks with failures and filters, by the monitor and by the track; the tasks'
\* life; the switches; a key that ages between two copies.
Capped   == [Quiet EXCEPT !.cap = 1, !.made = 3, !.leader = 3]
Crashing == [Quiet EXCEPT !.cap = 1, !.made = 2, !.moves = {"day", "crash"}]
Failing  == [Quiet EXCEPT !.decoded = FALSE, !.start = {t1, t2}, !.cap = 3, !.ignored = {2},
                          !.made = 2, !.leader = 3,
                          !.moves = {"fail"}]
Tracking == [Quiet EXCEPT !.jobs = {Track}, !.start = {t1, t2}, !.made = 2, !.leader = 3,
                          !.moves = {"fail"}]
Managed  == [Quiet EXCEPT !.jobs = {Monitor}, !.start = {}, !.made = 1, !.leader = 1,
                          !.moves = {"task", "manual"}]
Switched == [Quiet EXCEPT !.jobs = {Monitor}, !.made = 1, !.leader = 1,
                          !.moves = {"user", "admin", "halt", "fail"}]
Aging    == [Quiet EXCEPT !.made = 1, !.moves = {"age"}]
AllConfigs == {Capped, Crashing, Failing, Tracking, Managed, Switched, Aging}

\* Seven ticks to the dollar and a candle of four units: a preset for the cheap
\* side with a floor and a fixed-time exit, and one for the favoured side that
\* asks for narrow books and holds.  The user may select either after the entry.
Flip == [window |-> 4, floor |-> 3, lo |-> 1, hi |-> 3, lean |-> 2, narrow |-> FALSE,
         underdog |-> TRUE, force |-> 1]
Plain == [window |-> 4, floor |-> 0, lo |-> 4, hi |-> 6, lean |-> 1, narrow |-> TRUE,
          underdog |-> FALSE, force |-> Never]
TwoPresets == {Flip, Plain}
Leg(a, w) == [ask |-> a, wide |-> w]
FewQuotes == {[yes |-> Leg(4, FALSE), no |-> Leg(2, FALSE)],
              [yes |-> Leg(5, FALSE), no |-> Leg(1, TRUE)],
              [yes |-> Leg(2, FALSE), no |-> Leg(4, FALSE)],
              [yes |-> Leg(0, FALSE), no |-> Leg(5, FALSE)]}
TwoTargets == {<<20, 20>>, <<0, 0>>}

PositionsInit ==
  /\ scope \in Scopes
  /\ CopyInit /\ CandleInit
  /\ scope # "copy" => config = Managed
  /\ scope # "candle" => preset = Flip /\ book.yes.ask = 0

PositionsNext ==
  /\ UNCHANGED scope
  /\ \/ scope = "copy" /\ CopyNext /\ UNCHANGED candleVars
     \/ scope = "candle" /\ CandleNext /\ UNCHANGED copyVars
     \/ scope = "candle" /\ Ended /\ UNCHANGED positionVars

\* The fairness of CopyTrade and of CandleTrade in their scopes: a job goes on,
\* time passes and the watcher of every position is scheduled; the exchange, the
\* user and the fast watcher promise nothing.
PositionsSpec ==
  /\ PositionsInit /\ [][PositionsNext]_positionVars
  /\ \A j \in Jobs : WF_copyVars(scope = "copy" /\ JobStep(j))
  /\ WF_candleVars(scope = "candle" /\ TickDown)
  /\ WF_candleVars(scope = "candle" /\ ListHeld("main"))
  /\ WF_candleVars(scope = "candle" /\ (Watch("main") \/ WatchBlind("main")))
  /\ WF_candleVars(scope = "candle" /\ CloseHeld("main"))
=============================================================================
