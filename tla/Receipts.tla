------------------------------ MODULE Receipts ------------------------------
(***************************************************************************)
(* What the owner of a position hears about it.  The engines, the exit     *)
(* watcher and the closing screens report an opening or a close on one or  *)
(* two surfaces: a message of their own (services/trade_notifications,     *)
(* monitoring/alerts.py) and an event of core/event_bus.py that            *)
(* services/notification_service.py turns into a message.  Every surface   *)
(* but the plain message of the live engine asks route_outgoing_alert of   *)
(* webtrader/backend/notification_prefs.py, which drops what repeats       *)
(* within _DEDUP_TTL_SEC, writes the row of the web page and reads the     *)
(* preferences.                                                            *)
(*                                                                         *)
(* One user, whose id is known.  A report is a task; time passes in ticks. *)
(***************************************************************************)
EXTENDS Integers, Sequences

CONSTANTS
  Held,     \* the markets of the positions
  Opened,   \* the reports <<market, number, source>> of openings
  Closers,  \* the reports <<market, number, source>> of closes
  Casts,    \* bound: the sets of reports a behaviour may have
  Window    \* ticks of _DEDUP_TTL_SEC

Reports == Opened \cup Closers
Kinds   == {"trade_opened", "trade_closed"}
Sources == {"paper", "live", "watcher", "myTrades", "trades"}

ASSUME ReceiptsAssumption ==
  /\ Opened \subseteq Held \X Nat \X {"paper", "live"}
  /\ Closers \subseteq Held \X Nat \X {"watcher", "myTrades", "trades"}
  /\ Casts \subseteq SUBSET Reports /\ Window \in Nat \ {0}

\* The surfaces a source reports on, one after the other; the event comes last.
Surfaces == [paper    |-> <<"notifier", "event">>, live   |-> <<"direct", "event">>,
             watcher  |-> <<"alert", "event">>,    trades |-> <<"event">>,
             myTrades |-> <<"alert">>]

Position(r) == <<r[1], r[2]>>
Kind(r)     == IF r \in Opened THEN "trade_opened" ELSE "trade_closed"

VARIABLES
  report,  \* report[r] : what task r does next, and the surfaces it has left
  closed,  \* positions whose row is closed
  window,  \* window[<<k, m>>] : ticks the entry of _DEDUP_CACHE is still good for
  wants,   \* wants[c] : the channel "tg" of notification_prefs, and notifications_on
  told,    \* the reports of which a message was delivered (history)
  excused  \* <<k, m>> of which a message was unwanted or not delivered (history)

receiptVars == <<report, closed, window, wants, told, excused>>

Topics   == Kinds \X Held
About(r) == <<Kind(r), r[1]>>  \* what a message says

\* The key of _DEDUP_CACHE.
\* Mutant of Topic: the key does not name the market.
Topic_AnyMarket(r) == <<Kind(r), CHOOSE m \in Held : TRUE>>
Topic(r) == <<Kind(r), r[1]>>

ReceiptsTypeOK ==
  /\ report \in [Reports -> [at   : {"absent", "idle", "close", "start", "ask", "send", "done"},
                             left : Seq({"notifier", "direct", "alert", "event"})]]
  /\ closed \subseteq {Position(r) : r \in Closers}
  /\ window \in [Topics -> 0 .. Window]
  /\ wants \in [{"tg", "on"} -> BOOLEAN]
  /\ told \subseteq Reports /\ excused \subseteq Topics

ReceiptsInit ==
  /\ \E cast \in Casts :
       report = [r \in Reports |-> [at   |-> IF r \in cast THEN "idle" ELSE "absent",
                                    left |-> Surfaces[r[3]]]]
  /\ closed = {}
  /\ window = [t \in Topics |-> 0]
  /\ wants = [c \in {"tg", "on"} |-> TRUE]
  /\ told = {} /\ excused = {}

On(r, place)  == report[r].at = place
Turns(r, next) == report' = [report EXCEPT ![r].at = next]

\* The surface is done with: the next one follows.
NextSurface(r) ==
  report' = [report EXCEPT ![r] =
    [at |-> IF Len(@.left) = 1 THEN "done" ELSE "start", left |-> Tail(@.left)]]

-----------------------------------------------------------------------------
(* The sources.                                                            *)

\* A fill of the paper or of the live engine.
FillReported(r) ==
  /\ r \in Opened /\ On(r, "idle") /\ Turns(r, "start")
  /\ UNCHANGED <<closed, window, wants, told, excused>>

\* A closer has found the row open.
FindOpen(r) ==
  /\ r \in Closers /\ On(r, "idle") /\ Position(r) \notin closed /\ Turns(r, "close")
  /\ UNCHANGED <<closed, window, wants, told, excused>>

\* It closes the row, or another one has done so meanwhile: my_trades.py then
\* stays silent, while the watcher and trades.py report the close as their own.
CloseRow(r) ==
  /\ On(r, "close") /\ closed' = closed \cup {Position(r)}
  /\ Turns(r, IF Position(r) \in closed /\ r[3] = "myTrades" THEN "done" ELSE "start")
  /\ UNCHANGED <<window, wants, told, excused>>

-----------------------------------------------------------------------------
(* The surfaces.                                                           *)

\* route_outgoing_alert: the message is dropped when one of the same topic went
\* this way within the window, else it renews the window and the web page gets its row.
\* The live engine sends without asking.
Route(r) ==
  /\ On(r, "start")
  /\ IF Head(report[r].left) = "direct"
     THEN Turns(r, "send") /\ UNCHANGED window
     ELSE IF window[Topic(r)] > 0
     THEN NextSurface(r) /\ UNCHANGED window
     ELSE Turns(r, "ask") /\ window' = [window EXCEPT ![Topic(r)] = Window]
  /\ UNCHANGED <<closed, wants, told, excused>>

Excuse(r) == excused' = excused \cup {About(r)}

\* should_notify, and notifications_on on every surface but the alerts of the
\* watcher and of my_trades.py; a failed read means yes.
Ask(r) ==
  LET wanted == wants["tg"] /\ (Head(report[r].left) = "alert" \/ wants["on"])
  IN /\ On(r, "ask")
     /\ \/ Turns(r, "send") /\ UNCHANGED excused
        \/ ~wanted /\ NextSurface(r) /\ Excuse(r)
     /\ UNCHANGED <<closed, window, wants, told>>

\* notifications.send: delivered, or given up after its retries.
Send(r) ==
  /\ On(r, "send") /\ NextSurface(r)
  /\ \/ told' = told \cup {r} /\ UNCHANGED excused
     \/ Excuse(r) /\ UNCHANGED told
  /\ UNCHANGED <<closed, window, wants>>

\* The user edits the preferences, on the web page or in the settings menu.
Prefers(c) ==
  /\ wants' = [wants EXCEPT ![c] = ~@]
  /\ UNCHANGED <<report, closed, window, told, excused>>

WindowPasses ==
  /\ \E t \in Topics : window[t] > 0
  /\ window' = [t \in Topics |-> IF window[t] > 0 THEN window[t] - 1 ELSE 0]
  /\ UNCHANGED <<report, closed, wants, told, excused>>

ReceiptsNext ==
  \/ \E r \in Reports : FillReported(r) \/ FindOpen(r) \/ CloseRow(r) \/ Route(r) \/ Ask(r) \/ Send(r)
  \/ \E c \in {"tg", "on"} : Prefers(c)
  \/ WindowPasses

ReceiptsSpec == ReceiptsInit /\ [][ReceiptsNext]_receiptVars

-----------------------------------------------------------------------------
(* Properties.                                                             *)

Quiet(S) == \A r \in S : report[r].at \in {"absent", "idle", "done"}
Reported(S) == \E r \in S : On(r, "done")

\* notification_prefs.py: dropping what repeats never drops everything.  When
\* the tasks about a topic have ended, the user has had a message about it,
\* unless one was unwanted or could not be delivered.
SomeSurfaceTells ==
  \A t \in Topics \ excused :
    LET about == {r \in Reports : About(r) = t}
    IN Quiet(about) /\ Reported(about) => about \cap told # {}
=============================================================================
