------------------------------- MODULE Feeds -------------------------------
(***************************************************************************)
(* The signal feeds one user follows.  services/signal_feed keeps a row    *)
(* per subscription and a count per feed; the row of user_strategies that  *)
(* subscribe and unsubscribe keep beside them is what puts the user on the *)
(* list of every scan (signal_scan_job.py, _load_enrolled_users).          *)
(*                                                                         *)
(* An update of the user is a task; in webhook mode the tasks of two       *)
(* updates run beside each other.  Each begins with upsert_user, which     *)
(* enrols the user anew (users.py), in statements of their own; subscribe  *)
(* is a transaction under an advisory lock of the user, unsubscribe one    *)
(* without it.  A transaction reads what others have committed.            *)
(***************************************************************************)
EXTENDS Naturals, FiniteSets

CONSTANTS
  Feeds,   \* the feeds in the catalogue
  Demo,    \* the feed of _DEMO_FEED_ID, to which upsert_user subscribes
  Cap,     \* MAX_SUBSCRIPTIONS_PER_USER
  Updates  \* updates handled at the same time

ASSUME FeedsAssumption ==
  /\ Demo \in Feeds /\ IsFiniteSet(Feeds)
  /\ Cap \in Nat \ {0}
  /\ "free" \notin Updates

VARIABLES
  active,     \* the feeds whose status is active; the operator's to choose
  subs,       \* feeds with a committed row that is not unsubscribed
  count,      \* count[f] : subscriber_count of f, as far as this user makes it
  enrolled,   \* the row of user_strategies: "none", "on" or "off"
  lock,       \* the task that holds the advisory lock, or "free"
  update      \* update[t] : the step a task is at, its feed and what it has read

feedVars == <<active, subs, count, enrolled, lock, update>>

UpdateSteps == {"idle", "row", "sub", "toggle", "on", "insert", "off", "count", "commit"}

FeedsTypeOK ==
  /\ active \subseteq Feeds /\ subs \subseteq Feeds
  /\ count \in [Feeds -> {0, 1}]
  /\ enrolled \in {"none", "on", "off"}
  /\ lock \in Updates \cup {"free"}
  /\ update \in [Updates -> [at : UpdateSteps, then : {"none", "toggle", "on", "off"},
                             feed : Feeds, last : BOOLEAN]]

Rest == [at |-> "idle", then |-> "none", feed |-> Demo, last |-> FALSE]

FeedsInit ==
  /\ active \in SUBSET Feeds /\ subs = {} /\ enrolled = "none"
  /\ count = [f \in Feeds |-> 0]
  /\ lock = "free" /\ update = [t \in Updates |-> Rest]

At(t, step)   == update[t].at = step
GoesTo(t, step) == update' = [update EXCEPT ![t].at = step]
Ends(t)       == update' = [update EXCEPT ![t] = Rest]

-----------------------------------------------------------------------------
(* upsert_user, and what the user asked for.                               *)

\* An update arrives: any command, or /signals on, /signals off, or a button of
\* the catalogue about one feed.
Arrives(t) ==
  /\ At(t, "idle")
  /\ \E w \in {"none", "toggle", "on", "off"}, f \in Feeds :
       /\ w = "none" => f = Demo
       /\ update' = [update EXCEPT ![t] = [at |-> "row", then |-> w, feed |-> f, last |-> FALSE]]
  /\ UNCHANGED <<active, subs, count, enrolled, lock>>

\* _enroll_signal_following: the row of user_strategies, unless there is one.
EnrolRow(t) ==
  /\ At(t, "row") /\ GoesTo(t, "sub")
  /\ enrolled' = IF enrolled = "none" THEN "on" ELSE enrolled
  /\ UNCHANGED <<active, subs, count, lock>>

\* Then the subscription of the demo feed, unless there is one; not counted.
EnrolSub(t) ==
  /\ At(t, "sub")
  /\ IF update[t].then = "none" THEN Ends(t) ELSE GoesTo(t, update[t].then)
  /\ subs' = subs \cup {Demo}
  /\ UNCHANGED <<active, count, enrolled, lock>>

\* The button: which way it goes is read before the transaction begins.
ToggleFeed(t) ==
  /\ At(t, "toggle") /\ GoesTo(t, IF update[t].feed \in subs THEN "off" ELSE "on")
  /\ UNCHANGED <<active, subs, count, enrolled, lock>>

-----------------------------------------------------------------------------
(* subscribe.                                                              *)

Enrol == enrolled' = IF enrolled = "none" THEN "on" ELSE enrolled

\* The early returns; a user who has the feed already is enrolled if no row is.
Declined(t) ==
  /\ At(t, "on") /\ lock = "free" /\ Ends(t)
  /\ \/ update[t].feed \notin active /\ UNCHANGED enrolled
     \/ update[t].feed \in active \cap subs /\ Enrol
     \/ /\ update[t].feed \in active \ subs /\ Cardinality(subs) >= Cap
        /\ UNCHANGED enrolled
  /\ UNCHANGED <<active, subs, count, lock>>

\* Mutant of Admit: one feed more than the cap.
Admit_OneMore(t) ==
  /\ At(t, "on") /\ lock = "free" /\ lock' = t
  /\ update[t].feed \in active \ subs /\ Cardinality(subs) <= Cap
  /\ update' = [update EXCEPT ![t].at = "insert", ![t].last = (subs = {})]
  /\ UNCHANGED <<active, subs, count, enrolled>>

\* The lock is taken, and the cap holds as of now.
Admit(t) ==
  /\ At(t, "on") /\ lock = "free" /\ lock' = t
  /\ update[t].feed \in active \ subs /\ Cardinality(subs) < Cap
  /\ update' = [update EXCEPT ![t].at = "insert", ![t].last = (subs = {})]
  /\ UNCHANGED <<active, subs, count, enrolled>>

\* The row, the count and the enrolment, which is switched on again only when
\* there was no subscription; if an enrolment has added the row meanwhile, the
\* unique index refuses this one and the transaction is rolled back.
Insert(t) ==
  LET f == update[t].feed IN
  /\ At(t, "insert") /\ lock' = "free" /\ Ends(t) /\ UNCHANGED active
  /\ IF f \in subs THEN UNCHANGED <<subs, count, enrolled>>
     ELSE /\ subs' = subs \cup {f} /\ count' = [count EXCEPT ![f] = 1]
          /\ IF update[t].last THEN enrolled' = "on" ELSE Enrol

-----------------------------------------------------------------------------
(* unsubscribe.                                                            *)

\* The row is flipped, not yet committed; a second flip of it waits for that.
Flip(t) ==
  /\ At(t, "off")
  /\ ~\E o \in Updates \ {t} : update[o].at \in {"count", "commit"}
                               /\ update[o].feed = update[t].feed
  /\ IF update[t].feed \in subs THEN GoesTo(t, "count") ELSE Ends(t)
  /\ UNCHANGED <<active, subs, count, enrolled, lock>>

\* What remains, as of what the other transactions have committed.
Remaining(t) ==
  /\ At(t, "count")
  /\ update' = [update EXCEPT ![t].at = "commit",
                              ![t].last = (subs \ {update[t].feed} = {})]
  /\ UNCHANGED <<active, subs, count, enrolled, lock>>

Commit(t) ==
  /\ At(t, "commit") /\ Ends(t)
  /\ subs' = subs \ {update[t].feed} /\ count' = [count EXCEPT ![update[t].feed] = 0]
  /\ enrolled' = IF update[t].last /\ enrolled = "on" THEN "off" ELSE enrolled
  /\ UNCHANGED <<active, lock>>

FeedsNext ==
  \E t \in Updates :
    \/ Arrives(t) \/ EnrolRow(t) \/ EnrolSub(t) \/ ToggleFeed(t)
    \/ Declined(t) \/ Admit(t) \/ Insert(t) \/ Flip(t) \/ Remaining(t) \/ Commit(t)

FeedsSpec == FeedsInit /\ [][FeedsNext]_feedVars

-----------------------------------------------------------------------------
(* Properties.                                                             *)

\* signal_feed_service.py, "the cap check + insert land atomically": whatever
\* the updates of a user overlap with, the feeds chosen stay within the cap; the
\* demo feed, which upsert_user adds, comes on top of it.
SubscriptionCap == Cardinality(subs \ {Demo}) <= Cap

\* subscriber_count never tells of a subscriber that is gone.
CountIsBacked == \A f \in Feeds : count[f] = 1 => f \in subs

\* The subscriptions and their counts, whatever two updates do at once
\* (signal_feed_service.py:224-375).
SubscriptionsHold == SubscriptionCap /\ CountIsBacked
=============================================================================
