---------------------------- MODULE Signals_proofs ----------------------------
(***************************************************************************)
(* Theorems about the way from a signal to a trade and to its receipt:     *)
(* Scanner, Feeds, Receipts and ScanJobs with Bankroll, for every set of   *)
(* markets, feeds, updates, reports and jobs.                              *)
(***************************************************************************)
EXTENDS ScanJobs, Scanner, Feeds, Receipts, FiniteSetTheorems, SequenceTheorems,
        TLAPS

-----------------------------------------------------------------------------
(* Scanner: what is published.                                             *)

\* Between its read of the table and its publication nothing else publishes,
\* so that what the pass has read of the candidate in hand is still so.
HandTells ==
  /\ pass \in {"read", "upsert", "publish", "readH", "publishH"} => now \in Signals
  /\ pass \in {"upsert", "publish"} => fresh[<<edge, now>>] = 0
  /\ pass = "publish" => now[1] \in synced
  /\ pass = "publishH" => fresh[<<LiveFeed, now>>] = 0

\* The Heisenberg path takes its candidates from the table.
HeisenbergReads ==
  /\ pass \in {"readH", "publishH"} => now[1] \in synced
  /\ pass \in {"heis", "readH", "publishH"} => todo \subseteq synced \X SignalSides

\* The inductive invariant.
ScannerInv ==
  /\ ScannerTypeOK
  /\ PublishedOnce /\ PublishedIsSynced
  /\ HandTells
  /\ HeisenbergReads

LEMMA ScannerInitHolds ==
  ASSUME ScannerInit
  PROVE  ScannerInv
<1>1. \A k \in Outlets \X Signals : fresh[k] = 0
  BY DEF ScannerInit
<1>2. PublishedOnce /\ PublishedIsSynced
  BY <1>1 DEF PublishedOnce, PublishedIsSynced
<1>3. ScannerTypeOK
  <2>1. fresh \in [Outlets \X Signals -> 0 .. 2]
    BY DEF ScannerInit
  <2>2. killed \in BOOLEAN
    BY DEF ScannerInit
  <2> QED BY <2>1, <2>2 DEF ScannerInit, ScannerTypeOK
<1>4. HandTells /\ HeisenbergReads
  BY DEF ScannerInit, HandTells, HeisenbergReads
<1> QED BY <1>2, <1>3, <1>4 DEF ScannerInv

\* A publication of the candidate in hand, which the pass found on none.
LEMMA PublicationKeeps ==
  ASSUME ScannerInv, NEW feed \in Outlets, now \in Signals, now[1] \in synced,
         fresh[<<feed, now>>] = 0, Publishes(feed), UNCHANGED synced
  PROVE  /\ fresh' \in [Outlets \X Signals -> 0 .. 2]
         /\ PublishedOnce' /\ PublishedIsSynced'
<1>1. <<feed, now>> \in Outlets \X Signals /\ fresh \in [Outlets \X Signals -> 0 .. 2]
  BY DEF ScannerInv, ScannerTypeOK
<1>2. fresh' = [fresh EXCEPT ![<<feed, now>>] = 1]
  BY <1>1 DEF Publishes
<1>3. fresh' \in [Outlets \X Signals -> 0 .. 2] /\ PublishedOnce'
  BY <1>1, <1>2 DEF ScannerInv, PublishedOnce
<1>4. PublishedIsSynced'
  BY <1>1, <1>2 DEF ScannerInv, PublishedIsSynced
<1> QED BY <1>3, <1>4

LEMMA ScannerStep ==
  ASSUME ScannerInv, [ScannerNext]_scanVars
  PROVE  ScannerInv'
<1> USE DEF ScannerInv, ScannerTypeOK, HandTells, HeisenbergReads, Holds
<1>1. CASE StartPass
  BY <1>1 DEF StartPass, EdgeChoices, PublishedOnce, PublishedIsSynced
<1>2. CASE Take
  BY <1>2 DEF Take, PublishedOnce, PublishedIsSynced
<1>3. CASE Read
  <2>1. <<edge, now>> \in Outlets \X Signals
    BY <1>3 DEF Read
  <2> QED BY <1>3, <2>1 DEF Read, AlreadyPublished, PublishedOnce, PublishedIsSynced
<1>4. CASE Upsert
  BY <1>4 DEF Upsert, PublishedOnce, PublishedIsSynced, Signals
<1>5. CASE EdgePublish
  <2>1. CASE Publishes(edge)
    BY <1>5, <2>1, PublicationKeeps DEF EdgePublish
  <2>2. CASE UNCHANGED fresh
    BY <1>5, <2>2 DEF EdgePublish, PublishedOnce, PublishedIsSynced
  <2> QED BY <1>5, <2>1, <2>2 DEF EdgePublish
<1>6. CASE EdgeEnds
  BY <1>6 DEF EdgeEnds, PublishedOnce, PublishedIsSynced
<1>7. ASSUME NEW S \in SUBSET (synced \X SignalSides), pass = "heis", GoesOn(S)
      PROVE  ScannerInv'
  <2>1. S \subseteq Signals
    BY DEF Signals
  <2>2. CASE S = {}
    BY <1>7, <2>1, <2>2 DEF GoesOn, PublishedOnce, PublishedIsSynced
  <2>3. CASE S # {}
    BY <1>7, <2>1, <2>3 DEF GoesOn, PublishedOnce, PublishedIsSynced
  <2> QED BY <2>2, <2>3
<1>8. CASE StartHeisenberg
  BY <1>7, <1>8 DEF StartHeisenberg
<1>9. CASE HeisenbergTakes
  BY <1>7, <1>9 DEF HeisenbergTakes
<1>10. CASE ReadHeisenberg
  BY <1>10 DEF ReadHeisenberg, AlreadyPublished, PublishedOnce, PublishedIsSynced, Outlets
<1>11. CASE HeisenbergPublish
  <2>1. CASE Publishes(LiveFeed) /\ UNCHANGED todo
    BY <1>11, <2>1, PublicationKeeps DEF HeisenbergPublish, Outlets
  <2>2. CASE UNCHANGED fresh /\ todo' = {c \in todo : c[1] # now[1]}
    BY <1>11, <2>2 DEF HeisenbergPublish, PublishedOnce, PublishedIsSynced
  <2> QED BY <1>11, <2>1, <2>2 DEF HeisenbergPublish
<1>12. ASSUME NEW m \in Scanned, SyncAdds(m)
       PROVE  ScannerInv'
  BY <1>12 DEF SyncAdds, PublishedOnce, PublishedIsSynced
<1>13. ASSUME NEW k \in Outlets \X Signals, Ages(k)
       PROVE  ScannerInv'
  BY <1>13 DEF Ages, PublishedOnce, PublishedIsSynced
<1>14. CASE KillFlips
  BY <1>14 DEF KillFlips, PublishedOnce, PublishedIsSynced
<1>15. ASSUME NEW f \in Outlets, FeedFlips(f)
       PROVE  ScannerInv'
  BY <1>15 DEF FeedFlips, PublishedOnce, PublishedIsSynced
<1>16. CASE Stops
  BY <1>16 DEF Stops, PublishedOnce, PublishedIsSynced
<1>17. CASE UNCHANGED scanVars
  BY <1>17 DEF scanVars, PublishedOnce, PublishedIsSynced
<1> QED BY <1>1, <1>2, <1>3, <1>4, <1>5, <1>6, <1>8, <1>9, <1>10, <1>11, <1>12, <1>13, <1>14,
           <1>15, <1>16, <1>17 DEF ScannerNext

\* The scanner's state keeps to its types.
THEOREM ScannerTyped == ScannerSpec => []ScannerTypeOK
<1>1. ScannerInv => ScannerTypeOK
  BY DEF ScannerInv
<1> QED BY <1>1, ScannerInitHolds, ScannerStep, PTL DEF ScannerSpec

\* The two paths of market_signal_scanner.py, stopped anywhere and started again,
\* put a side of a market on a feed once within the window, and only when its
\* market can be looked up.
THEOREM PublishedOnceAndSynced == ScannerSpec => []PublishedWell
<1>1. ScannerInv => PublishedWell
  BY DEF ScannerInv, PublishedWell
<1> QED BY <1>1, ScannerInitHolds, ScannerStep, PTL DEF ScannerSpec

-----------------------------------------------------------------------------
(* Feeds: how many feeds a user has.                                       *)

\* Only the task that is about to insert its row holds the lock.
LockTells == \A t \in Updates : update[t].at = "insert" <=> lock = t

\* While it holds it there is room for one more row: meanwhile the other tasks
\* add no feed but the demo one.
RoomIsLeft == lock # "free" => Cardinality(subs \ {Demo}) < Cap

\* The inductive invariant.
FeedsInv ==
  /\ FeedsTypeOK
  /\ LockTells
  /\ RoomIsLeft
  /\ SubscriptionCap /\ CountIsBacked

\* Every set of feeds is finite.
LEMMA FeedsFinite ==
  ASSUME FeedsAssumption, NEW S \in SUBSET Feeds
  PROVE  IsFiniteSet(S) /\ Cardinality(S) \in Nat
BY FS_Subset, FS_CardinalityType DEF FeedsAssumption

\* A part of a set of feeds is no larger.
LEMMA FewerFeeds ==
  ASSUME FeedsAssumption, NEW S \in SUBSET Feeds, NEW T \in SUBSET S
  PROVE  Cardinality(T) <= Cardinality(S)
BY FeedsFinite, FS_Subset

LEMMA FeedsInitHolds ==
  ASSUME FeedsAssumption, FeedsInit
  PROVE  FeedsInv
<1>1. subs \ {Demo} = {} /\ Cardinality({}) = 0
  BY FS_EmptySet DEF FeedsInit
<1>2. SubscriptionCap
  BY <1>1 DEF SubscriptionCap, FeedsAssumption
<1>3. FeedsTypeOK
  <2>1. Rest \in [at : UpdateSteps, then : {"none", "toggle", "on", "off"}, feed : Feeds, last : BOOLEAN]
    BY DEF Rest, UpdateSteps, FeedsAssumption
  <2> QED BY <2>1 DEF FeedsInit, FeedsTypeOK
<1>4. LockTells /\ RoomIsLeft /\ CountIsBacked
  BY DEF FeedsInit, FeedsAssumption, LockTells, RoomIsLeft, CountIsBacked, Rest
<1> QED BY <1>2, <1>3, <1>4 DEF FeedsInv

\* A step of one task that neither takes nor gives the lock, and leaves the rows
\* as they are or adds the demo feed.
LEMMA QuietUpdate ==
  ASSUME FeedsAssumption, FeedsInv, NEW t \in Updates, ~At(t, "insert"),
         NEW r \in [at : UpdateSteps, then : {"none", "toggle", "on", "off"},
                    feed : Feeds, last : BOOLEAN],
         r.at # "insert", update' = [update EXCEPT ![t] = r],
         subs' = subs \/ subs' = subs \cup {Demo}, enrolled' \in {"none", "on", "off"},
         UNCHANGED <<active, count, lock>>
  PROVE  FeedsInv'
<1>1. FeedsTypeOK'
  BY DEF FeedsInv, FeedsTypeOK, FeedsAssumption
<1>2. LockTells'
  BY DEF FeedsInv, FeedsTypeOK, LockTells, At
<1>3. subs' \ {Demo} = subs \ {Demo}
  OBVIOUS
<1>4. RoomIsLeft' /\ SubscriptionCap'
  BY <1>3 DEF FeedsInv, RoomIsLeft, SubscriptionCap
<1>5. CountIsBacked'
  BY DEF FeedsInv, FeedsTypeOK, CountIsBacked
<1> QED BY <1>1, <1>2, <1>4, <1>5 DEF FeedsInv

LEMMA AdmitKeeps ==
  ASSUME FeedsAssumption, FeedsInv, NEW t \in Updates, Admit(t)
  PROVE  FeedsInv'
<1> USE DEF Admit, At, FeedsInv
<1>1. FeedsTypeOK'
  <2> DEFINE Record == [at : UpdateSteps, then : {"none", "toggle", "on", "off"},
                        feed : Feeds, last : BOOLEAN]
  <2> DEFINE r == [update[t] EXCEPT !.at = "insert", !.last = (subs = {})]
  <2>1. update[t] \in Record /\ (subs = {}) \in BOOLEAN
    BY DEF FeedsTypeOK
  <2>2. r \in Record
    BY <2>1 DEF UpdateSteps
  <2>3. update' = [update EXCEPT ![t] = r]
    BY DEF FeedsTypeOK
  <2>4. update' \in [Updates -> Record]
    BY <2>2, <2>3 DEF FeedsTypeOK
  <2> QED BY <2>4 DEF FeedsTypeOK
<1>2. LockTells'
  BY DEF FeedsTypeOK, LockTells, FeedsAssumption
<1>3. RoomIsLeft'
  <2>1. Cardinality(subs \ {Demo}) <= Cardinality(subs)
    BY FewerFeeds DEF FeedsTypeOK
  <2>2. Cardinality(subs \ {Demo}) \in Nat /\ Cardinality(subs) \in Nat
    BY FeedsFinite DEF FeedsTypeOK
  <2> QED BY <2>1, <2>2 DEF RoomIsLeft, FeedsAssumption
<1>4. SubscriptionCap' /\ CountIsBacked'
  BY DEF SubscriptionCap, CountIsBacked
<1> QED BY <1>1, <1>2, <1>3, <1>4

\* The row of the lock's holder is the one there was room for.
LEMMA InsertKeeps ==
  ASSUME FeedsAssumption, FeedsInv, NEW t \in Updates, Insert(t)
  PROVE  FeedsInv'
<1> DEFINE f == update[t].feed
<1> USE DEF Insert, At, Ends, FeedsInv
<1>1. f \in Feeds /\ lock = t /\ lock # "free"
  BY DEF FeedsTypeOK, LockTells, FeedsAssumption
<1>2. FeedsTypeOK'
  <2>1. Rest \in [at : UpdateSteps, then : {"none", "toggle", "on", "off"}, feed : Feeds, last : BOOLEAN]
    BY DEF Rest, UpdateSteps, FeedsAssumption
  <2>2. update' \in [Updates -> [at : UpdateSteps, then : {"none", "toggle", "on", "off"},
                                 feed : Feeds, last : BOOLEAN]]
    BY <2>1 DEF FeedsTypeOK
  <2>3. enrolled' \in {"none", "on", "off"}
    BY DEF FeedsTypeOK, Enrol
  <2> QED BY <1>1, <2>2, <2>3 DEF FeedsTypeOK
<1>3. LockTells' /\ RoomIsLeft'
  BY <1>1 DEF FeedsTypeOK, LockTells, RoomIsLeft, FeedsAssumption, Rest
<1>4. SubscriptionCap'
  <2>1. CASE f \in subs
    BY <2>1 DEF SubscriptionCap
  <2>2. CASE f \notin subs
    <3> DEFINE S == subs \ {Demo}
    <3>1. S \in SUBSET Feeds /\ S \cup {f} \in SUBSET Feeds
      BY <1>1 DEF FeedsTypeOK
    <3>2. IsFiniteSet(S) /\ Cardinality(S) \in Nat /\ Cardinality(S) < Cap
      BY <1>1, <3>1, FeedsFinite DEF RoomIsLeft
    <3>3. Cardinality(S \cup {f}) <= Cap /\ Cardinality(S \cup {f}) \in Nat
      <4>1. Cardinality(S \cup {f}) = IF f \in S THEN Cardinality(S) ELSE Cardinality(S) + 1
        BY <3>2, FS_AddElement
      <4> HIDE DEF S, f
      <4> QED BY <3>2, <4>1 DEF FeedsAssumption
    <3>4. subs' \ {Demo} \in SUBSET (S \cup {f})
      BY <2>2
    <3>5. Cardinality(subs' \ {Demo}) <= Cardinality(S \cup {f})
      BY <3>1, <3>4, FewerFeeds
    <3>6. Cardinality(subs' \ {Demo}) \in Nat
      BY <3>1, <3>4, FeedsFinite
    <3> QED BY <3>3, <3>5, <3>6 DEF SubscriptionCap, FeedsAssumption
  <2> QED BY <2>1, <2>2
<1>5. CountIsBacked'
  BY <1>1 DEF FeedsTypeOK, CountIsBacked
<1> QED BY <1>2, <1>3, <1>4, <1>5

LEMMA CommitKeeps ==
  ASSUME FeedsAssumption, FeedsInv, NEW t \in Updates, Commit(t)
  PROVE  FeedsInv'
<1> USE DEF Commit, At, Ends, FeedsInv
<1>1. FeedsTypeOK'
  <2>1. Rest \in [at : UpdateSteps, then : {"none", "toggle", "on", "off"}, feed : Feeds, last : BOOLEAN]
    BY DEF Rest, UpdateSteps, FeedsAssumption
  <2> QED BY <2>1 DEF FeedsTypeOK
<1>2. LockTells'
  BY DEF FeedsTypeOK, LockTells, Rest
<1>3. Cardinality(subs' \ {Demo}) <= Cardinality(subs \ {Demo})
  BY FewerFeeds DEF FeedsTypeOK
<1>4. Cardinality(subs' \ {Demo}) \in Nat /\ Cardinality(subs \ {Demo}) \in Nat
  BY FeedsFinite DEF FeedsTypeOK
<1>5. RoomIsLeft' /\ SubscriptionCap'
  BY <1>3, <1>4 DEF RoomIsLeft, SubscriptionCap, FeedsAssumption
<1>6. CountIsBacked'
  BY DEF FeedsTypeOK, CountIsBacked
<1> QED BY <1>1, <1>2, <1>5, <1>6

LEMMA FeedsStep ==
  ASSUME FeedsAssumption, FeedsInv, [FeedsNext]_feedVars
  PROVE  FeedsInv'
<1> DEFINE Record == [at : UpdateSteps, then : {"none", "toggle", "on", "off"},
                      feed : Feeds, last : BOOLEAN]
<1>1. Rest \in Record /\ Rest.at = "idle"
  BY DEF Rest, UpdateSteps, FeedsAssumption
<1>2. ASSUME NEW t \in Updates, Arrives(t) PROVE FeedsInv'
  <2>1. PICK w \in {"none", "toggle", "on", "off"}, f \in Feeds :
          update' = [update EXCEPT ![t] = [at |-> "row", then |-> w, feed |-> f, last |-> FALSE]]
    BY <1>2 DEF Arrives
  <2>2. [at |-> "row", then |-> w, feed |-> f, last |-> FALSE] \in Record
    BY DEF UpdateSteps
  <2> QED BY <1>2, <2>1, <2>2, QuietUpdate DEF Arrives, At, FeedsInv, FeedsTypeOK
<1>3. ASSUME NEW t \in Updates, NEW where \in UpdateSteps, where # "insert", ~At(t, "insert"),
             GoesTo(t, where), subs' = subs \/ subs' = subs \cup {Demo},
             enrolled' \in {"none", "on", "off"}, UNCHANGED <<active, count, lock>>
      PROVE  FeedsInv'
  <2>1. update[t] \in Record
    BY DEF FeedsInv, FeedsTypeOK
  <2>2. [update[t] EXCEPT !.at = where] \in Record
    BY <2>1
  <2>3. update' = [update EXCEPT ![t] = [update[t] EXCEPT !.at = where]]
    BY <1>3 DEF GoesTo
  <2>4. [update[t] EXCEPT !.at = where].at # "insert"
    BY <1>3, <2>1
  <2> QED BY <1>3, <2>2, <2>3, <2>4, QuietUpdate
<1>4. ASSUME NEW t \in Updates, ~At(t, "insert"),
             Ends(t), subs' = subs \/ subs' = subs \cup {Demo},
             enrolled' \in {"none", "on", "off"}, UNCHANGED <<active, count, lock>>
      PROVE  FeedsInv'
  BY <1>1, <1>4, QuietUpdate DEF Ends
<1>5. ASSUME NEW t \in Updates, EnrolRow(t) PROVE FeedsInv'
  BY <1>3, <1>5 DEF EnrolRow, At, UpdateSteps, FeedsInv, FeedsTypeOK
<1>6. ASSUME NEW t \in Updates, EnrolSub(t) PROVE FeedsInv'
  <2>1. update[t].then \in {"none", "toggle", "on", "off"} /\ enrolled' \in {"none", "on", "off"}
    BY <1>6 DEF EnrolSub, FeedsInv, FeedsTypeOK
  <2> QED BY <1>3, <1>4, <1>6, <2>1 DEF EnrolSub, At, UpdateSteps
<1>7. ASSUME NEW t \in Updates, ToggleFeed(t) PROVE FeedsInv'
  BY <1>3, <1>7 DEF ToggleFeed, At, UpdateSteps, FeedsInv, FeedsTypeOK
<1>8. ASSUME NEW t \in Updates, Declined(t) PROVE FeedsInv'
  BY <1>4, <1>8 DEF Declined, At, Enrol, FeedsInv, FeedsTypeOK
<1>9. ASSUME NEW t \in Updates, Flip(t) PROVE FeedsInv'
  BY <1>3, <1>4, <1>9 DEF Flip, At, UpdateSteps, FeedsInv, FeedsTypeOK
<1>10. ASSUME NEW t \in Updates, Remaining(t) PROVE FeedsInv'
  <2>1. update[t] \in Record /\ (subs \ {update[t].feed} = {}) \in BOOLEAN
    BY DEF FeedsInv, FeedsTypeOK
  <2> DEFINE r == [update[t] EXCEPT !.at = "commit", !.last = (subs \ {update[t].feed} = {})]
  <2>2. r \in Record /\ r.at # "insert"
    BY <2>1 DEF UpdateSteps
  <2>3. update' = [update EXCEPT ![t] = r]
    BY <1>10, <2>1 DEF Remaining, FeedsInv, FeedsTypeOK
  <2>4. ~At(t, "insert") /\ UNCHANGED <<active, subs, count, enrolled, lock>>
    BY <1>10 DEF Remaining, At
  <2>5. enrolled' \in {"none", "on", "off"}
    BY <2>4 DEF FeedsInv, FeedsTypeOK
  <2> HIDE DEF r
  <2> QED BY <2>2, <2>3, <2>4, <2>5, QuietUpdate
<1>11. CASE UNCHANGED feedVars
  BY <1>11 DEF feedVars, FeedsInv, FeedsTypeOK, LockTells, RoomIsLeft, SubscriptionCap, CountIsBacked
<1> QED BY <1>2, <1>5, <1>6, <1>7, <1>8, <1>9, <1>10, <1>11, AdmitKeeps, InsertKeeps, CommitKeeps
        DEF FeedsNext

\* The rows of a user's feeds keep to their types.
THEOREM FeedsTyped ==
  ASSUME FeedsAssumption
  PROVE  FeedsSpec => []FeedsTypeOK
<1>1. FeedsInv => FeedsTypeOK
  BY DEF FeedsInv
<1> QED BY <1>1, FeedsInitHolds, FeedsStep, PTL DEF FeedsSpec

\* subscribe, unsubscribe and the enrolment of upsert_user, in any number of
\* updates at once, never leave a user with more chosen feeds than the cap, nor
\* a feed with a subscriber that is gone.
THEOREM FeedsAreCapped ==
  ASSUME FeedsAssumption
  PROVE  FeedsSpec => []SubscriptionsHold
<1>1. FeedsInv => SubscriptionsHold
  BY DEF FeedsInv, SubscriptionsHold
<1> QED BY <1>1, FeedsInitHolds, FeedsStep, PTL DEF FeedsSpec

-----------------------------------------------------------------------------
(* Receipts: what the owner of a position hears.                           *)

\* A message about topic t is on its way.
Sending(t) == \E r \in Reports : About(r) = t /\ report[r].at \in {"ask", "send"}
Busy(t)    == \E r \in Reports : About(r) = t /\ report[r].at \in {"start", "ask", "send"}

\* None has reached the owner, and none was refused or lost.
Owed(t) == t \notin excused /\ \A r \in told : About(r) # t

\* As long as the owner is owed a message about t, what makes a report stay
\* silent (an entry of the cache, a row that is closed already) comes with a
\* report that is still going to speak.
TopicTells(t) ==
  Owed(t) =>
    /\ window[t] > 0 => Sending(t)
    /\ (\E r \in Reports : About(r) = t /\ On(r, "done")) => Busy(t)
    /\ (\E r \in Closers : About(r) = t /\ Position(r) \in closed) => Busy(t)

\* A report that has not ended has a surface left.
SurfacesLeft == \A r \in Reports : ~On(r, "done") => report[r].left # <<>>

\* Only a closer closes.
ClosersClose == \A r \in Reports : On(r, "close") => r \in Closers

\* The inductive invariant.
ReceiptsInv ==
  /\ ReceiptsTypeOK
  /\ SurfacesLeft
  /\ ClosersClose
  /\ \A t \in Topics : TopicTells(t)

Places == {"absent", "idle", "close", "start", "ask", "send", "done"}
Leaves == Seq({"notifier", "direct", "alert", "event"})

\* What a report is about; closes of one position are about one topic.
LEMMA Topical ==
  ASSUME ReceiptsAssumption
  PROVE  /\ \A r \in Reports : About(r) \in Topics
         /\ \A r, q \in Closers : Position(r) = Position(q) => About(r) = About(q)
<1>1. \A r \in Reports : r[1] \in Held
  BY DEF ReceiptsAssumption, Reports
<1>2. \A r \in Closers : r \notin Opened
  <2>1. \A r \in Closers : r[3] \in {"watcher", "myTrades", "trades"}
    BY DEF ReceiptsAssumption
  <2>2. \A r \in Opened : r[3] \in {"paper", "live"}
    BY DEF ReceiptsAssumption
  <2> QED BY <2>1, <2>2
<1> QED BY <1>1, <1>2 DEF About, Topics, Kinds, Kind, Position

LEMMA SurfacesTyped ==
  ASSUME ReceiptsAssumption, NEW r \in Reports
  PROVE  Surfaces[r[3]] \in Leaves /\ Surfaces[r[3]] # <<>>
<1>1. r[3] \in Sources
  BY DEF ReceiptsAssumption, Reports, Sources
<1>2. CASE r[3] = "paper"
  BY <1>2 DEF Surfaces, Leaves
<1>3. CASE r[3] = "live"
  BY <1>3 DEF Surfaces, Leaves
<1>4. CASE r[3] = "watcher"
  BY <1>4 DEF Surfaces, Leaves
<1>5. CASE r[3] = "myTrades"
  BY <1>5 DEF Surfaces, Leaves
<1>6. CASE r[3] = "trades"
  BY <1>6 DEF Surfaces, Leaves
<1> QED BY <1>1, <1>2, <1>3, <1>4, <1>5, <1>6 DEF Sources

LEMMA ReceiptsInitHolds ==
  ASSUME ReceiptsAssumption, ReceiptsInit
  PROVE  ReceiptsInv
<1>1. PICK cast \in Casts :
        report = [r \in Reports |-> [at   |-> IF r \in cast THEN "idle" ELSE "absent",
                                    left |-> Surfaces[r[3]]]]
  BY DEF ReceiptsInit
<1>2. \A r \in Reports : report[r].at \in {"idle", "absent"} /\ report[r].left = Surfaces[r[3]]
  BY <1>1
<1>3. report \in [Reports -> [at : Places, left : Leaves]]
  BY <1>1, SurfacesTyped DEF Places
<1>4. window \in [Topics -> 0 .. Window] /\ \A t \in Topics : window[t] = 0
  BY DEF ReceiptsInit, ReceiptsAssumption
<1>5. wants \in [{"tg", "on"} -> BOOLEAN]
  BY DEF ReceiptsInit
<1>6. ReceiptsTypeOK
  BY <1>3, <1>4, <1>5 DEF ReceiptsTypeOK, ReceiptsInit, Places, Leaves
<1>7. SurfacesLeft
  BY <1>2, SurfacesTyped DEF SurfacesLeft, On
<1>8. ASSUME NEW t \in Topics PROVE TopicTells(t)
  <2>1. ~(window[t] > 0)
    BY <1>4
  <2>2. \A r \in Reports : ~On(r, "done")
    BY <1>2 DEF On
  <2> QED BY <2>1, <2>2 DEF TopicTells, ReceiptsInit
<1>9. ClosersClose
  BY <1>2 DEF ClosersClose, On
<1> QED BY <1>6, <1>7, <1>8, <1>9 DEF ReceiptsInv

LEMMA TailOfSeq ==
  ASSUME NEW S, NEW s \in Seq(S), s # <<>>
  PROVE  Tail(s) \in Seq(S) /\ (Len(s) # 1 => Tail(s) # <<>>)
<1>1. Tail(s) \in Seq(S) /\ Len(Tail(s)) = Len(s) - 1 /\ Len(s) \in Nat
  BY HeadTailProperties
<1>2. Tail(s) = <<>> => Len(Tail(s)) = 0
  BY EmptySeq
<1> QED BY <1>1, <1>2

\* What moving on to the next surface does to the report.
LEMMA NextSurfaceMoves ==
  ASSUME ReceiptsInv, NEW r \in Reports, ~On(r, "done"), NextSurface(r)
  PROVE  /\ report' \in [Reports -> [at : Places, left : Leaves]]
         /\ SurfacesLeft'
         /\ report'[r].at \in {"start", "done"}
         /\ \A q \in Reports : q # r => report'[q] = report[q]
<1> DEFINE s == report[r].left
<1> DEFINE e == [at |-> IF Len(s) = 1 THEN "done" ELSE "start", left |-> Tail(s)]
<1>1. report \in [Reports -> [at : Places, left : Leaves]]
  BY DEF ReceiptsInv, ReceiptsTypeOK, Places, Leaves
<1>2. s \in Leaves /\ s # <<>>
  BY <1>1 DEF ReceiptsInv, SurfacesLeft
<1>3. report' = [report EXCEPT ![r] = e]
  BY DEF NextSurface
<1>4. Tail(s) \in Leaves /\ (Len(s) # 1 => Tail(s) # <<>>)
  BY <1>2, TailOfSeq DEF Leaves
<1>5. e \in [at : Places, left : Leaves] /\ e.at \in {"start", "done"}
      /\ (e.at # "done" => e.left # <<>>)
  BY <1>4 DEF Places
<1> HIDE DEF e
<1>6. report' \in [Reports -> [at : Places, left : Leaves]] /\ report'[r] = e
      /\ \A q \in Reports : q # r => report'[q] = report[q]
  BY <1>1, <1>3, <1>5
<1>7. SurfacesLeft'
  BY <1>5, <1>6 DEF ReceiptsInv, SurfacesLeft, On
<1> QED BY <1>5, <1>6, <1>7

LEMMA TurnsMoves ==
  ASSUME ReceiptsInv, NEW r \in Reports, ~On(r, "done"), NEW place \in Places, Turns(r, place)
  PROVE  /\ report' \in [Reports -> [at : Places, left : Leaves]]
         /\ SurfacesLeft'
         /\ report'[r].at = place
         /\ \A q \in Reports : q # r => report'[q] = report[q]
<1> DEFINE e == [report[r] EXCEPT !.at = place]
<1>1. report \in [Reports -> [at : Places, left : Leaves]]
  BY DEF ReceiptsInv, ReceiptsTypeOK, Places, Leaves
<1>2. report' = [report EXCEPT ![r] = e]
  BY DEF Turns
<1>3. e \in [at : Places, left : Leaves] /\ e.at = place /\ e.left = report[r].left
  BY <1>1
<1> HIDE DEF e
<1> QED BY <1>1, <1>2, <1>3 DEF ReceiptsInv, SurfacesLeft, On

\* A step of the sources.
LEMMA SourceKeeps ==
  ASSUME ReceiptsAssumption, ReceiptsInv, NEW r \in Reports,
         FillReported(r) \/ FindOpen(r) \/ CloseRow(r)
  PROVE  ReceiptsInv'
<1>1. PICK where \in {"start", "close", "done"} :
        /\ Turns(r, where) /\ report[r].at \in {"idle", "close"}
        /\ where = "close" => r \in Closers
        /\ where = "done" => r \in Closers /\ Position(r) \in closed
  BY DEF FillReported, FindOpen, CloseRow, ReceiptsInv, ClosersClose, On
<1>2. /\ UNCHANGED <<window, wants, told, excused>>
      /\ \/ closed' = closed
         \/ r \in Closers /\ closed' = closed \cup {Position(r)} /\ where \in {"start", "done"}
  <2>1. CASE CloseRow(r)
    <3>1. where \in {"start", "done"}
      BY <1>1, <2>1, TurnsMoves DEF CloseRow, Places, On
    <3> QED BY <2>1, <3>1 DEF CloseRow, ReceiptsInv, ClosersClose
  <2> QED BY <2>1 DEF FillReported, FindOpen
<1>3. where \in Places /\ ~On(r, "done")
  BY <1>1 DEF Places, On
<1>4. /\ report' \in [Reports -> [at : Places, left : Leaves]] /\ SurfacesLeft'
      /\ report'[r].at = where /\ \A q \in Reports : q # r => report'[q] = report[q]
  BY <1>1, <1>3, TurnsMoves
<1>5. closed' \subseteq {Position(q) : q \in Closers}
  BY <1>2 DEF ReceiptsInv, ReceiptsTypeOK
<1>6. ReceiptsTypeOK'
  BY <1>2, <1>4, <1>5 DEF ReceiptsInv, ReceiptsTypeOK, Places, Leaves
<1>7. ClosersClose'
  BY <1>1, <1>4 DEF ReceiptsInv, ClosersClose, On
<1>8. ASSUME NEW t \in Topics PROVE TopicTells(t)'
  <2>1. (Sending(t) => Sending(t)') /\ (Busy(t) => Busy(t)')
    BY <1>1, <1>4 DEF Sending, Busy, About, Kind
  <2>2. SUFFICES ASSUME Owed(t) PROVE
          /\ window[t]' > 0 => Sending(t)'
          /\ (\E q \in Reports : About(q) = t /\ On(q, "done")') => Busy(t)'
          /\ (\E q \in Closers : About(q) = t /\ Position(q) \in closed') => Busy(t)'
    BY <1>2 DEF TopicTells, Owed, About, Kind, Position
  <2>3. window[t]' > 0 => Sending(t)'
    BY <1>2, <2>1, <2>2 DEF ReceiptsInv, TopicTells
  <2>4. ASSUME NEW q \in Reports, About(q) = t, On(q, "done")' PROVE Busy(t)'
    <3>1. CASE q = r
      <4>1. r \in Closers /\ Position(r) \in closed /\ About(r) = t
        BY <1>1, <1>4, <2>4, <3>1 DEF On
      <4> QED BY <2>1, <2>2, <4>1 DEF ReceiptsInv, TopicTells
    <3>2. CASE q # r
      BY <1>4, <2>1, <2>2, <2>4, <3>2 DEF ReceiptsInv, TopicTells, On
    <3> QED BY <3>1, <3>2
  <2>5. ASSUME NEW q \in Closers, About(q) = t, Position(q) \in closed' PROVE Busy(t)'
    <3>1. CASE Position(q) \in closed
      BY <2>1, <2>2, <2>5, <3>1 DEF ReceiptsInv, TopicTells
    <3>2. CASE Position(q) \notin closed
      <4>1. r \in Closers /\ Position(r) = Position(q) /\ where \in {"start", "done"}
        BY <1>2, <2>5, <3>2
      <4>2. About(r) = t /\ Position(r) \notin closed
        BY <2>5, <3>2, <4>1, Topical
      <4>3. where = "start"
        BY <1>1, <4>1, <4>2
      <4> QED BY <1>4, <4>2, <4>3 DEF Busy, About, Kind
    <3> QED BY <3>1, <3>2
  <2> QED BY <2>3, <2>4, <2>5
<1> QED BY <1>4, <1>6, <1>7, <1>8 DEF ReceiptsInv

\* A report asks whether it may speak.
LEMMA RouteKeeps ==
  ASSUME ReceiptsAssumption, ReceiptsInv, NEW r \in Reports, Route(r)
  PROVE  ReceiptsInv'
<1> DEFINE u == About(r)
<1>1. On(r, "start") /\ ~On(r, "done") /\ UNCHANGED <<closed, wants, told, excused>>
      /\ Topic(r) = u /\ u \in Topics
  BY Topical DEF Route, On, Topic, About
<1>2. /\ report' \in [Reports -> [at : Places, left : Leaves]] /\ SurfacesLeft'
      /\ report'[r].at \in {"start", "ask", "send", "done"}
      /\ report'[r].at \in {"start", "done"} => window[u] > 0
      /\ \A q \in Reports : q # r => report'[q] = report[q]
      /\ \/ window' = window
         \/ window' = [window EXCEPT ![u] = Window] /\ report'[r].at = "ask"
  <2>1. CASE Turns(r, "send") /\ UNCHANGED window
    BY <1>1, <2>1, TurnsMoves DEF Places
  <2>2. CASE window[u] > 0 /\ NextSurface(r) /\ UNCHANGED window
    BY <1>1, <2>2, NextSurfaceMoves
  <2>3. CASE Turns(r, "ask") /\ window' = [window EXCEPT ![u] = Window]
    BY <1>1, <2>3, TurnsMoves DEF Places
  <2> QED BY <1>1, <2>1, <2>2, <2>3 DEF Route
<1>3. window' \in [Topics -> 0 .. Window]
  <2>1. Window \in 0 .. Window
    BY DEF ReceiptsAssumption
  <2> QED BY <1>2, <2>1 DEF ReceiptsInv, ReceiptsTypeOK
<1>4. ReceiptsTypeOK'
  BY <1>1, <1>2, <1>3 DEF ReceiptsInv, ReceiptsTypeOK, Places, Leaves
<1>5. ClosersClose'
  BY <1>2 DEF ReceiptsInv, ClosersClose, On
<1>6. ASSUME NEW t \in Topics PROVE TopicTells(t)'
  <2>1. SUFFICES ASSUME Owed(t) PROVE
          /\ window[t]' > 0 => Sending(t)'
          /\ (\E q \in Reports : About(q) = t /\ On(q, "done")') => Busy(t)'
          /\ (\E q \in Closers : About(q) = t /\ Position(q) \in closed) => Busy(t)'
    BY <1>1 DEF TopicTells, Owed, About, Kind, Position
  <2>2. CASE t # u
    <3>1. window[t]' = window[t]
      BY <1>2, <2>2 DEF ReceiptsInv, ReceiptsTypeOK
    <3>2. \A q \in Reports : About(q) = t => q # r
      BY <2>2
    <3> QED BY <1>2, <2>1, <3>1, <3>2 DEF ReceiptsInv, TopicTells, Sending, Busy, On, About, Kind
  <2>3. CASE t = u /\ report'[r].at \in {"ask", "send"}
    BY <2>3 DEF Sending, Busy, About, Kind
  <2>4. CASE t = u /\ report'[r].at \in {"start", "done"}
    <3>1. Sending(u)
      BY <1>2, <2>1, <2>4 DEF ReceiptsInv, TopicTells
    <3>2. PICK q \in Reports : About(q) = u /\ report[q].at \in {"ask", "send"}
      BY <3>1 DEF Sending
    <3>3. report'[q] = report[q]
      BY <1>1, <1>2, <3>2 DEF On
    <3> QED BY <2>4, <3>2, <3>3 DEF Sending, Busy, About, Kind
  <2> QED BY <1>2, <2>2, <2>3, <2>4
<1> QED BY <1>2, <1>4, <1>5, <1>6 DEF ReceiptsInv

\* The end of a message: it is delivered, or the owner is owed none.
LEMMA MessageKeeps ==
  ASSUME ReceiptsAssumption, ReceiptsInv, NEW r \in Reports, Ask(r) \/ Send(r)
  PROVE  ReceiptsInv'
<1> DEFINE u == About(r)
<1>1. report[r].at \in {"ask", "send"} /\ ~On(r, "done") /\ UNCHANGED <<closed, window, wants>>
      /\ u \in Topics
  BY Topical DEF Ask, Send, On
<1>2. /\ report' \in [Reports -> [at : Places, left : Leaves]] /\ SurfacesLeft'
      /\ report'[r].at \in {"start", "send", "done"}
      /\ \A q \in Reports : q # r => report'[q] = report[q]
  <2>1. CASE Turns(r, "send")
    BY <1>1, <2>1, TurnsMoves DEF Places
  <2>2. CASE NextSurface(r)
    BY <1>1, <2>2, NextSurfaceMoves
  <2> QED BY <2>1, <2>2 DEF Ask, Send
<1>3. \/ report'[r].at = "send" /\ UNCHANGED <<told, excused>>
      \/ excused' = excused \cup {u} /\ UNCHANGED told
      \/ told' = told \cup {r} /\ UNCHANGED excused
  <2>1. CASE Turns(r, "send")
    <3>1. report'[r].at = "send"
      BY <1>1, <2>1, TurnsMoves DEF Places
    <3> QED BY <3>1 DEF Ask, Send, Excuse
  <2>2. CASE ~Turns(r, "send")
    BY <2>2 DEF Ask, Send, Excuse
  <2> QED BY <2>1, <2>2
<1>4. ReceiptsTypeOK'
  BY <1>1, <1>2, <1>3 DEF ReceiptsInv, ReceiptsTypeOK, Places, Leaves
<1>5. ClosersClose'
  BY <1>2 DEF ReceiptsInv, ClosersClose, On
<1>6. ASSUME NEW t \in Topics PROVE TopicTells(t)'
  <2>1. SUFFICES ASSUME Owed(t)' PROVE
          /\ window[t] > 0 => Sending(t)'
          /\ (\E q \in Reports : About(q) = t /\ On(q, "done")') => Busy(t)'
          /\ (\E q \in Closers : About(q) = t /\ Position(q) \in closed) => Busy(t)'
    BY <1>1 DEF TopicTells, About, Kind, Position
  <2>2. Owed(t)
    BY <1>3, <2>1 DEF Owed, About, Kind
  <2>3. CASE t # u
    <3>1. \A q \in Reports : About(q) = t => q # r
      BY <2>3
    <3> QED BY <1>2, <2>2, <3>1 DEF ReceiptsInv, TopicTells, Sending, Busy, On, About, Kind
  <2>4. CASE t = u
    <3>1. report'[r].at = "send"
      BY <1>3, <2>1, <2>4 DEF Owed, About, Kind
    <3> QED BY <2>4, <3>1 DEF Sending, Busy, About, Kind
  <2> QED BY <2>3, <2>4
<1> QED BY <1>2, <1>4, <1>5, <1>6 DEF ReceiptsInv

LEMMA ReceiptsStep ==
  ASSUME ReceiptsAssumption, ReceiptsInv, [ReceiptsNext]_receiptVars
  PROVE  ReceiptsInv'
<1> USE DEF ReceiptsInv, ReceiptsTypeOK, SurfacesLeft, ClosersClose, On
<1>1. ASSUME NEW c \in {"tg", "on"}, Prefers(c)
      PROVE  ReceiptsInv'
  BY <1>1 DEF Prefers, TopicTells, Owed, Sending, Busy, About, Kind, Position
<1>2. CASE WindowPasses
  <2>1. window' \in [Topics -> 0 .. Window]
    BY <1>2 DEF WindowPasses, ReceiptsAssumption
  <2>2. \A t \in Topics : window'[t] > 0 => window[t] > 0
    BY <1>2 DEF WindowPasses
  <2>3. \A t \in Topics : TopicTells(t)'
    BY <1>2, <2>2 DEF WindowPasses, TopicTells, Owed, Sending, Busy, About, Kind, Position
  <2> QED BY <1>2, <2>1, <2>3 DEF WindowPasses
<1>3. CASE UNCHANGED receiptVars
  BY <1>3 DEF receiptVars, TopicTells, Owed, Sending, Busy, About, Kind, Position
<1> QED BY <1>1, <1>2, <1>3, SourceKeeps, RouteKeeps, MessageKeeps DEF ReceiptsNext

\* The reports keep to their types.
THEOREM ReceiptsTyped ==
  ASSUME ReceiptsAssumption
  PROVE  ReceiptsSpec => []ReceiptsTypeOK
<1>1. ReceiptsInv => ReceiptsTypeOK
  BY DEF ReceiptsInv
<1> QED BY <1>1, ReceiptsInitHolds, ReceiptsStep, PTL DEF ReceiptsSpec

\* route_outgoing_alert drops what repeats and never everything: once the reports
\* about a position's opening or close have ended, its owner has had a message,
\* unless one was unwanted or could not be delivered.
THEOREM OwnerIsTold ==
  ASSUME ReceiptsAssumption
  PROVE  ReceiptsSpec => []SomeSurfaceTells
<1>1. ReceiptsInv => SomeSurfaceTells
  <2> SUFFICES ASSUME ReceiptsInv, NEW t \in Topics \ excused,
                      NEW about, about = {r \in Reports : About(r) = t},
                      Quiet(about), Reported(about), about \cap told = {}
               PROVE  FALSE
    BY DEF SomeSurfaceTells
  <2>1. Owed(t)
    BY DEF Owed, ReceiptsInv, ReceiptsTypeOK
  <2>2. Busy(t)
    BY <2>1 DEF Reported, ReceiptsInv, TopicTells
  <2> QED BY <2>2 DEF Busy, Quiet
<1> QED BY <1>1, ReceiptsInitHolds, ReceiptsStep, PTL DEF ReceiptsSpec

-----------------------------------------------------------------------------
(* ScanJobs: types.                                                        *)

Rows == [baseline : Balances \union {0}, tripped : BOOLEAN]

\* What the jobs carry, and what they share.
CarriedOK ==
  /\ pc \in [Jobs -> Steps] /\ balanceOf \in [Jobs -> Balances] /\ cand \in [Jobs -> Keys]
  /\ lead \in [Jobs -> BOOLEAN] /\ aware \in [Jobs -> BOOLEAN] /\ upsert \in [Jobs -> Rows]

TablesOK ==
  /\ position \in [Keys -> {"none", "open", "closed"}] /\ ordered \subseteq Keys
  /\ recent \subseteq Markets

SharedOK ==
  /\ BankrollTypeOK /\ TablesOK /\ config \in Configs
  /\ log \in [Sides -> Nat] /\ leads \in [Sides -> Nat] /\ cooled \subseteq Markets
  /\ balance \in Balances /\ on \in BOOLEAN /\ enabledDb \in BOOLEAN /\ enabled \in BOOLEAN
  /\ faults \in 0 .. MaxFaults /\ restarts \in 0 .. MaxRestarts

LEMMA TypeParts == TypeOK <=> CarriedOK /\ SharedOK
BY DEF TypeOK, CarriedOK, SharedOK, TablesOK, Rows

LEMMA TypePartsNext == TypeOK' <=> CarriedOK' /\ SharedOK'
BY DEF TypeOK, CarriedOK, SharedOK, TablesOK, Rows

LEMMA IdleTyped ==
  ASSUME ScanAssumption
  PROVE  NoBalance \in Balances /\ NoKey \in Keys /\ NoRow \in Rows
<1>1. PICK m \in Markets : TRUE
  BY DEF ScanAssumption
<1>2. <<m, "yes">> \in Keys
  BY DEF Keys, Sides
<1>3. NoKey \in Keys
  BY <1>2 DEF NoKey
<1>4. NoBalance \in Balances
  BY DEF NoBalance, ScanAssumption
<1>5. NoRow \in Rows
  BY DEF NoRow, Rows
<1> QED BY <1>3, <1>4, <1>5

\* A candidate has a market and a side, and its market a lagging leg.
LEMMA KeyParts ==
  ASSUME NEW k \in Keys
  PROVE  /\ k[1] \in Markets /\ k[2] \in Sides
         /\ \A s \in Sides : <<k[1], s>> \in Keys
         /\ Lagging(k[1]) \in Sides
BY DEF Keys, Sides, Lagging

LEMMA StopTyped ==
  ASSUME ScanAssumption, CarriedOK, NEW j \in Jobs, NEW from, Stop(j, from)
  PROVE  CarriedOK'
<1>1. pc' \in [Jobs -> Steps]
  BY DEF Stop, Go, CarriedOK, Steps
<1>2. balanceOf' \in [Jobs -> Balances] /\ cand' \in [Jobs -> Keys] /\ upsert' \in [Jobs -> Rows]
  BY IdleTyped DEF Stop, CarriedOK
<1>3. lead' \in [Jobs -> BOOLEAN] /\ aware' \in [Jobs -> BOOLEAN]
  BY DEF Stop, CarriedOK
<1> QED BY <1>1, <1>2, <1>3 DEF CarriedOK

LEMMA GoTyped ==
  ASSUME CarriedOK, NEW j \in Jobs, NEW from, NEW to \in Steps, Go(j, from, to)
  PROVE  pc' \in [Jobs -> Steps]
BY DEF Go, CarriedOK

LEMMA CarryOn ==
  ASSUME CarriedOK, NEW j \in Jobs, NEW from, NEW to \in Steps, Go(j, from, to), UNCHANGED carried
  PROVE  CarriedOK'
BY GoTyped DEF carried, CarriedOK

\* The carried values, action by action.
LEMMA CarriedKeeps ==
  ASSUME ScanAssumption, TypeOK, NEW j \in Jobs, JobStep(j)
  PROVE  CarriedOK'
<1> USE TypeParts DEF carried
<1>1. CASE StartMain \/ StartFast(j) \/ Restore \/ RestoreFails
  BY <1>1, CarryOn DEF StartMain, StartFast, Restore, RestoreFails, Steps, ScanAssumption
<1>2. CASE Refresh(j) \/ RefreshFails(j) \/ CheckOpen(j) \/ CheckOpenFails(j) \/ Direction(j)
  BY <1>2, CarryOn, StopTyped DEF Refresh, RefreshFails, CheckOpen, CheckOpenFails, Direction, Steps
<1>3. CASE Load(j)
  <2>1. CASE on
    <3>1. balanceOf' \in [Jobs -> Balances]
      BY <1>3, <2>1 DEF Load, CarriedOK, SharedOK
    <3> QED BY <1>3, <2>1, <3>1, GoTyped DEF Load, CarriedOK, Steps
  <2>2. CASE ~on
    BY <1>3, <2>2, StopTyped DEF Load
  <2> QED BY <2>1, <2>2
<1>4. CASE NoCandidate(j) \/ Dropped(j) \/ TopUpDropped(j) \/ FillFails(j) \/ QueueFails(j)
           \/ GateRefuses(j)
  BY <1>4, StopTyped DEF NoCandidate, Dropped, TopUpDropped, FillFails, QueueFails, GateRefuses, Refused
<1>5. ASSUME NEW k \in Keys, Propose(j, k) PROVE CarriedOK'
  <2>1. cand' \in [Jobs -> Keys]
    BY <1>5 DEF Propose, CarriedOK
  <2> QED BY <1>5, <2>1, GoTyped DEF Propose, CarriedOK, Steps
<1>6. CASE Breaker(j)
  <2>1. CASE Transition
    <3>1. BankrollTypeOK'
      BY <1>6 DEF Breaker, Evaluate, Seeded, Latched, BankrollTypeOK, CarriedOK, SharedOK
    <3>2. (latch' = "tripped") \in BOOLEAN
      OBVIOUS
    <3>3. Row \in Rows
      BY <3>1, <3>2 DEF Row, Rows, BankrollTypeOK
    <3> DEFINE r == Row
    <3>4. upsert' = [upsert EXCEPT ![j] = r]
      BY <1>6, <2>1 DEF Breaker
    <3> HIDE DEF r
    <3>5. upsert' \in [Jobs -> Rows]
      BY <3>3, <3>4 DEF CarriedOK, r
    <3>6. pc' \in [Jobs -> Steps] /\ UNCHANGED <<balanceOf, cand, lead, aware>>
      BY <1>6, <2>1, GoTyped DEF Breaker, Steps
    <3> QED BY <3>5, <3>6 DEF CarriedOK
  <2>2. CASE ~Transition
    BY <1>6, <2>2, CarryOn, StopTyped DEF Breaker, Steps
  <2> QED BY <2>1, <2>2
<1>7. CASE Persist(j) \/ PersistFails(j)
  <2>1. CASE Stop(j, "persistBlocked")
    BY <2>1, StopTyped
  <2>2. CASE Go(j, "persist", "override") /\ upsert' = [upsert EXCEPT ![j] = NoRow]
             /\ UNCHANGED <<balanceOf, cand, lead, aware>>
    <3>1. upsert' \in [Jobs -> Rows]
      BY <2>2, IdleTyped DEF CarriedOK
    <3> QED BY <2>2, <3>1, GoTyped DEF CarriedOK, Steps
  <2> QED BY <1>7, <2>1, <2>2 DEF Persist, PersistFails, AfterPersist
<1>8. CASE Override(j)
  <2> DEFINE acts == config.override /\ config.safeClose /\ Imbalanced(MarketOf(j))
  <2>1. acts \in BOOLEAN
    OBVIOUS
  <2>2. aware' = [aware EXCEPT ![j] = acts] /\ UNCHANGED <<balanceOf, lead, upsert>>
        /\ cand' = IF acts THEN [cand EXCEPT ![j] = <<MarketOf(j), Lagging(MarketOf(j))>>] ELSE cand
    BY <1>8 DEF Override
  <2> HIDE DEF acts
  <2>3. aware' \in [Jobs -> BOOLEAN]
    BY <2>1, <2>2 DEF CarriedOK
  <2>4. <<MarketOf(j), Lagging(MarketOf(j))>> \in Keys
    BY KeyParts DEF CarriedOK, MarketOf
  <2>5. cand' \in [Jobs -> Keys]
    BY <2>2, <2>4 DEF CarriedOK
  <2>6. pc' \in [Jobs -> Steps]
    BY <1>8, GoTyped DEF Override, Steps
  <2> QED BY <2>2, <2>3, <2>5, <2>6 DEF CarriedOK
<1>9. CASE GateCaps(j) \/ GateDedup(j) \/ GateLiveCap(j) \/ GateLiveCapUnread(j)
  BY <1>9, CarryOn, StopTyped DEF GateCaps, GateDedup, GateLiveCap, GateLiveCapUnread, Refused, Steps
<1>10. CASE Fill(j) \/ Queued(j)
  BY <1>10, CarryOn, StopTyped DEF Fill, Queued, Refused, Steps
<1>11. CASE TopUp(j)
  <2> DEFINE m == MarketOf(j)
  <2>1. CASE Stop(j, "topup")
    BY <2>1, StopTyped
  <2>2. CASE /\ Go(j, "topup", "caps") /\ cand' = [cand EXCEPT ![j] = <<m, Lagging(m)>>]
             /\ lead' = [lead EXCEPT ![j] = FALSE] /\ UNCHANGED <<balanceOf, aware, upsert>>
    <3>1. <<m, Lagging(m)>> \in Keys
      BY KeyParts DEF CarriedOK, MarketOf
    <3>2. cand' \in [Jobs -> Keys]
      BY <2>2, <3>1 DEF CarriedOK
    <3>3. lead' \in [Jobs -> BOOLEAN]
      BY <2>2 DEF CarriedOK
    <3> QED BY <2>2, <3>2, <3>3, GoTyped DEF CarriedOK, Steps
  <2> QED BY <1>11, <2>1, <2>2 DEF TopUp
<1> QED BY <1>1, <1>2, <1>3, <1>4, <1>5, <1>6, <1>7, <1>8, <1>9, <1>10, <1>11 DEF JobStep

\* The shared values, action by action.
LEMMA SharedKeeps ==
  ASSUME ScanAssumption, TypeOK, NEW j \in Jobs, JobStep(j)
  PROVE  SharedOK'
<1> USE TypeParts DEF dictVars, tableVars, userVars, bounds, bankrollVars, world, SharedOK, TablesOK,
        BankrollTypeOK
<1>1. CASE StartMain \/ StartFast(j) \/ RestoreFails
  BY <1>1 DEF StartMain, StartFast, RestoreFails, Fault
<1>2. CASE Restore
  BY <1>2 DEF Restore, RestoreDicts
<1>3. CASE Refresh(j) \/ RefreshFails(j) \/ Load(j) \/ NoCandidate(j) \/ Dropped(j)
           \/ Override(j) \/ CheckOpen(j) \/ CheckOpenFails(j) \/ Direction(j)
           \/ TopUp(j) \/ TopUpDropped(j) \/ FillFails(j) \/ QueueFails(j) \/ GateLiveCapUnread(j)
  BY <1>3 DEF Refresh, RefreshFails, Load, NoCandidate, Dropped, Override, CheckOpen,
              CheckOpenFails, Direction, TopUp, TopUpDropped, FillFails, QueueFails,
              GateLiveCapUnread, Fault
<1>4. ASSUME NEW k \in Keys, Propose(j, k) PROVE SharedOK'
  BY <1>4 DEF Propose
<1>5. CASE Breaker(j)
  BY <1>5 DEF Breaker, Evaluate, Seeded, Latched, CarriedOK
<1>6. CASE Persist(j) \/ PersistFails(j)
  BY <1>6 DEF Persist, PersistFails, PersistRow, Fault, CarriedOK, Rows
<1>7. ASSUME NEW from, Refused(j, from) PROVE cooled' \subseteq Markets
  BY <1>7, KeyParts DEF Refused, MarketOf, CarriedOK
<1>8. CASE GateCaps(j) \/ GateRefuses(j) \/ GateDedup(j) \/ GateLiveCap(j)
  BY <1>7, <1>8 DEF GateCaps, GateRefuses, GateDedup, GateLiveCap
<1>9. CASE Fill(j)
  <2>1. cand[j] \in Keys /\ SideOf(j) \in Sides /\ MarketOf(j) \in Markets
    BY KeyParts DEF CarriedOK, SideOf, MarketOf
  <2>2. cooled' \subseteq Markets
    BY <1>7, <1>9 DEF Fill
  <2>3. leads' \in [Sides -> Nat]
    BY <1>9, <2>1 DEF Fill
  <2> QED BY <1>9, <2>1, <2>2, <2>3 DEF Fill
<1>10. CASE Queued(j)
  <2>1. log' \in [Sides -> Nat]
    BY <1>10, KeyParts DEF Queued, CarriedOK, SideOf
  <2> QED BY <1>7, <1>10, <2>1 DEF Queued
<1> QED BY <1>1, <1>2, <1>3, <1>4, <1>5, <1>6, <1>8, <1>9, <1>10 DEF JobStep

LEMMA EnvironmentTyped ==
  ASSUME ScanAssumption, TypeOK, Environment
  PROVE  TypeOK'
<1> USE TypeParts, TypePartsNext DEF dictVars, tableVars, userVars, bounds, bankrollVars, world, SharedOK, TablesOK,
        BankrollTypeOK, CarriedOK, carried
<1>1. ASSUME NEW b \in Balances, Wallet(b) PROVE TypeOK'
  BY <1>1 DEF Wallet
<1>2. ASSUME NEW k \in Keys, Close(k) PROVE TypeOK'
  BY <1>2 DEF Close
<1>3. ASSUME NEW m \in Markets, Age(m) PROVE TypeOK'
  BY <1>3 DEF Age
<1>4. CASE Toggle \/ ToggleStrategy
  BY <1>4 DEF Toggle, ToggleStrategy
<1>5. CASE Restart
  <2>1. CarriedOK'
    BY <1>5, IdleTyped DEF Restart, Steps
  <2>2. SharedOK'
    BY <1>5 DEF Restart, BankrollRestart
  <2> QED BY <2>1, <2>2
<1> QED BY <1>1, <1>2, <1>3, <1>4, <1>5 DEF Environment

LEMMA ScanInitTyped ==
  ASSUME ScanAssumption, Init
  PROVE  TypeOK
<1>1. CarriedOK
  BY IdleTyped DEF Init, CarriedOK, Steps
<1>2. balance \in Balances
  BY IdleTyped DEF Init
<1>3. SharedOK
  BY <1>2 DEF Init, SharedOK, TablesOK, BankrollTypeOK, BankrollInit, ScanAssumption
<1> QED BY <1>1, <1>3, TypeParts

LEMMA ScanTypes ==
  ASSUME ScanAssumption, TypeOK, [Next]_vars
  PROVE  TypeOK'
<1>1. CASE UNCHANGED vars
  BY <1>1 DEF vars, carried, world, bankrollVars, dictVars, tableVars, userVars, bounds, TypeOK,
              BankrollTypeOK
<1> QED BY <1>1, CarriedKeeps, SharedKeeps, EnvironmentTyped, TypeParts, TypePartsNext DEF Next

-----------------------------------------------------------------------------
(* ScanJobs: the caps, counted with the jobs between a check and its fill. *)

One(b) == IF b THEN 1 ELSE 0

\* A candidate on side s that the direction limit has let through and whose
\* entry is not recorded; one of them that is filled; an entry that the cap on
\* open positions, or that of live capital, has let through.
Entering == {"caps", "dedup", "cap", "fill", "queue"}
PendingAt(j, s) == pc[j] \in Entering /\ lead[j] /\ SideOf(j) = s
FilledAt(j, s)  == pc[j] = "queue" /\ lead[j] /\ SideOf(j) = s
PassedAt(j)     == pc[j] \in {"dedup", "cap", "fill"}
LivePassedAt(j) == pc[j] = "fill"

Pending(s) == {j \in Jobs : PendingAt(j, s)}
Filled(s)  == {j \in Jobs : FilledAt(j, s)}
Passed     == {j \in Jobs : PassedAt(j)}
LivePassed == {j \in Jobs : LivePassedAt(j)}

\* Every entry is recorded, about to be, or its record has failed; and what is
\* recorded or pending was let through by a check below the limit.
DirectionCounts ==
  config.safeClose =>
    \A s \in Sides :
      /\ log[s] + Cardinality(Pending(s)) <= DirectionLimit - 1 + Cardinality(Jobs)
      /\ leads[s] <= log[s] + Cardinality(Filled(s)) + faults

OpenCounts ==
  /\ IsFiniteSet(OpenKeys)
  /\ Cardinality(OpenKeys) + Cardinality(Passed) <= MaxOpen - 1 + Cardinality(Jobs)
  /\ config.live =>
       Cardinality(OpenKeys) + Cardinality(LivePassed)
         <= LiveCap - 1 + Cardinality(Jobs) + faults

CountInv == DirectionCounts /\ OpenCounts

\* What job j does to the counts.
Alone(j) ==
  \A i \in Jobs \ {j} : pc'[i] = pc[i] /\ lead'[i] = lead[i] /\ cand'[i] = cand[i]

DirectionMoves(j, s) ==
  /\ \/ log'[s] + One(PendingAt(j, s)') <= log[s] + One(PendingAt(j, s))
     \/ log'[s] = log[s] /\ log[s] < DirectionLimit
  /\ leads'[s] + log[s] + One(FilledAt(j, s)) + faults
       <= leads[s] + log'[s] + One(FilledAt(j, s)') + faults'

OpenMoves(j) ==
  /\ IsFiniteSet(OpenKeys)'
  /\ \/ Cardinality(OpenKeys)' + One(PassedAt(j)') <= Cardinality(OpenKeys) + One(PassedAt(j))
     \/ OpenKeys' = OpenKeys /\ Cardinality(OpenKeys) < MaxOpen
  /\ config.live =>
       \/ Cardinality(OpenKeys)' + One(LivePassedAt(j)') + faults
            <= Cardinality(OpenKeys) + One(LivePassedAt(j)) + faults'
       \/ OpenKeys' = OpenKeys /\ Cardinality(OpenKeys) < LiveCap /\ faults <= faults'

\* Two sets that differ in j alone.
LEMMA CardShift ==
  ASSUME NEW X, IsFiniteSet(X), NEW A \in SUBSET X, NEW B \in SUBSET X, NEW j, A \ {j} = B \ {j}
  PROVE  /\ Cardinality(A) \in Nat /\ Cardinality(B) \in Nat
         /\ Cardinality(B) <= Cardinality(X)
         /\ Cardinality(B) + One(j \in A) = Cardinality(A) + One(j \in B)
<1>1. IsFiniteSet(A) /\ IsFiniteSet(B) /\ Cardinality(B) <= Cardinality(X)
  BY FS_Subset
<1>2. Cardinality(A) \in Nat /\ Cardinality(B) \in Nat
  BY <1>1, FS_CardinalityType
<1>3. Cardinality(A \ {j}) = IF j \in A THEN Cardinality(A) - 1 ELSE Cardinality(A)
  BY <1>1, FS_RemoveElement
<1>4. Cardinality(B \ {j}) = IF j \in B THEN Cardinality(B) - 1 ELSE Cardinality(B)
  BY <1>1, FS_RemoveElement
<1>5. Cardinality(A \ {j}) = Cardinality(B \ {j})
  OBVIOUS
<1>6. Cardinality(B) + One(j \in A) = Cardinality(A) + One(j \in B)
  <2>1. CASE j \in A /\ j \in B
    BY <1>2, <1>3, <1>4, <1>5, <2>1 DEF One
  <2>2. CASE j \in A /\ j \notin B
    BY <1>2, <1>3, <1>4, <1>5, <2>2 DEF One
  <2>3. CASE j \notin A
    BY <1>2, <1>3, <1>4, <1>5, <2>3 DEF One
  <2> QED BY <2>1, <2>2, <2>3
<1> QED BY <1>1, <1>2, <1>6

\* A step of one job that moves the counts in this way keeps the invariant.
LEMMA CountsKeep ==
  ASSUME ScanAssumption, TypeOK, TypeOK', CountInv, NEW j \in Jobs, Alone(j), config' = config,
         config.safeClose => \A s \in Sides : DirectionMoves(j, s), OpenMoves(j)
  PROVE  CountInv'
<1>1. IsFiniteSet(Jobs) /\ Cardinality(Jobs) \in Nat
  BY FS_CardinalityType DEF ScanAssumption
<1>2. faults \in Nat /\ faults' \in Nat /\ MaxOpen \in Nat /\ LiveCap \in Nat /\ DirectionLimit \in Nat
  BY DEF TypeOK, ScanAssumption
<1>3. DirectionCounts'
  <2> SUFFICES ASSUME config.safeClose, NEW s \in Sides
               PROVE  /\ log'[s] + Cardinality(Pending(s)') <= DirectionLimit - 1 + Cardinality(Jobs)
                      /\ leads'[s] <= log'[s] + Cardinality(Filled(s)') + faults'
    BY DEF DirectionCounts
  <2>1. log[s] \in Nat /\ log'[s] \in Nat /\ leads[s] \in Nat /\ leads'[s] \in Nat
    BY DEF TypeOK
  <2>2. /\ Cardinality(Pending(s)) \in Nat /\ Cardinality(Pending(s)') \in Nat
        /\ Cardinality(Pending(s)') <= Cardinality(Jobs)
        /\ Cardinality(Pending(s)') + One(j \in Pending(s)) = Cardinality(Pending(s)) + One(j \in Pending(s)')
    <3>1. Pending(s) \ {j} = Pending(s)' \ {j}
      BY DEF Alone, Pending, PendingAt, SideOf
    <3>2. Pending(s) \in SUBSET Jobs /\ Pending(s)' \in SUBSET Jobs
      BY DEF Pending
    <3> QED BY <1>1, <3>1, <3>2, CardShift
  <2>3. /\ Cardinality(Filled(s)) \in Nat /\ Cardinality(Filled(s)') \in Nat
        /\ Cardinality(Filled(s)') + One(j \in Filled(s)) = Cardinality(Filled(s)) + One(j \in Filled(s)')
    <3>1. Filled(s) \ {j} = Filled(s)' \ {j}
      BY DEF Alone, Filled, FilledAt, SideOf
    <3>2. Filled(s) \in SUBSET Jobs /\ Filled(s)' \in SUBSET Jobs
      BY DEF Filled
    <3> QED BY <1>1, <3>1, <3>2, CardShift
  <2>4. /\ One(j \in Pending(s)) = One(PendingAt(j, s)) /\ One(j \in Pending(s)') = One(PendingAt(j, s)')
        /\ One(j \in Filled(s)) = One(FilledAt(j, s)) /\ One(j \in Filled(s)') = One(FilledAt(j, s)')
    BY DEF One, Pending, Filled
  <2>5. /\ One(PendingAt(j, s)) \in {0, 1} /\ One(PendingAt(j, s)') \in {0, 1}
        /\ One(FilledAt(j, s)) \in {0, 1} /\ One(FilledAt(j, s)') \in {0, 1}
    BY DEF One
  <2>6. /\ log[s] + Cardinality(Pending(s)) <= DirectionLimit - 1 + Cardinality(Jobs)
        /\ leads[s] <= log[s] + Cardinality(Filled(s)) + faults
    BY DEF CountInv, DirectionCounts
  <2>7. log'[s] + Cardinality(Pending(s)') <= DirectionLimit - 1 + Cardinality(Jobs)
    BY <1>1, <1>2, <2>1, <2>2, <2>4, <2>5, <2>6 DEF DirectionMoves
  <2>8. leads'[s] <= log'[s] + Cardinality(Filled(s)') + faults'
    BY <1>2, <2>1, <2>3, <2>4, <2>5, <2>6 DEF DirectionMoves
  <2> QED BY <2>7, <2>8
<1>4. OpenCounts'
  <2>1. /\ Cardinality(Passed) \in Nat /\ Cardinality(Passed') \in Nat
        /\ Cardinality(Passed') <= Cardinality(Jobs)
        /\ Cardinality(Passed') + One(j \in Passed) = Cardinality(Passed) + One(j \in Passed')
    <3>1. Passed \ {j} = Passed' \ {j}
      BY DEF Alone, Passed, PassedAt
    <3>2. Passed \in SUBSET Jobs /\ Passed' \in SUBSET Jobs
      BY DEF Passed
    <3> QED BY <1>1, <3>1, <3>2, CardShift
  <2>2. /\ Cardinality(LivePassed) \in Nat /\ Cardinality(LivePassed') \in Nat
        /\ Cardinality(LivePassed') <= Cardinality(Jobs)
        /\ Cardinality(LivePassed') + One(j \in LivePassed) = Cardinality(LivePassed) + One(j \in LivePassed')
    <3>1. LivePassed \ {j} = LivePassed' \ {j}
      BY DEF Alone, LivePassed, LivePassedAt
    <3>2. LivePassed \in SUBSET Jobs /\ LivePassed' \in SUBSET Jobs
      BY DEF LivePassed
    <3> QED BY <1>1, <3>1, <3>2, CardShift
  <2>3. /\ One(j \in Passed) = One(PassedAt(j)) /\ One(j \in Passed') = One(PassedAt(j)')
        /\ One(j \in LivePassed) = One(LivePassedAt(j)) /\ One(j \in LivePassed') = One(LivePassedAt(j)')
    BY DEF One, Passed, LivePassed
  <2>4. /\ One(PassedAt(j)) \in {0, 1} /\ One(PassedAt(j)') \in {0, 1}
        /\ One(LivePassedAt(j)) \in {0, 1} /\ One(LivePassedAt(j)') \in {0, 1}
    BY DEF One
  <2>5. IsFiniteSet(OpenKeys) /\ IsFiniteSet(OpenKeys')
    BY DEF CountInv, OpenCounts, OpenMoves
  <2>6. Cardinality(OpenKeys) \in Nat /\ Cardinality(OpenKeys') \in Nat
    BY <2>5, FS_CardinalityType
  <2>7. Cardinality(OpenKeys') + Cardinality(Passed') <= MaxOpen - 1 + Cardinality(Jobs)
    <3>1. Cardinality(OpenKeys) + Cardinality(Passed) <= MaxOpen - 1 + Cardinality(Jobs)
      BY DEF CountInv, OpenCounts
    <3>2. CASE Cardinality(OpenKeys') + One(PassedAt(j)') <= Cardinality(OpenKeys) + One(PassedAt(j))
      BY <1>1, <1>2, <2>1, <2>3, <2>4, <2>6, <3>1, <3>2
    <3>3. CASE OpenKeys' = OpenKeys /\ Cardinality(OpenKeys) < MaxOpen
      BY <1>1, <1>2, <2>1, <2>6, <3>3
    <3> QED BY <3>2, <3>3 DEF OpenMoves
  <2>8. ASSUME config.live
        PROVE  Cardinality(OpenKeys') + Cardinality(LivePassed') <= LiveCap - 1 + Cardinality(Jobs) + faults'
    <3>1. Cardinality(OpenKeys) + Cardinality(LivePassed) <= LiveCap - 1 + Cardinality(Jobs) + faults
      BY <2>8 DEF CountInv, OpenCounts
    <3>2. CASE Cardinality(OpenKeys') + One(LivePassedAt(j)') + faults
                 <= Cardinality(OpenKeys) + One(LivePassedAt(j)) + faults'
      BY <1>1, <1>2, <2>2, <2>3, <2>4, <2>6, <3>1, <3>2
    <3>3. CASE OpenKeys' = OpenKeys /\ Cardinality(OpenKeys) < LiveCap /\ faults <= faults'
      BY <1>1, <1>2, <2>2, <2>6, <3>3
    <3> QED BY <2>8, <3>2, <3>3 DEF OpenMoves
  <2> QED BY <2>5, <2>7, <2>8 DEF OpenCounts
<1> QED BY <1>3, <1>4 DEF CountInv

LEMMA AloneSteps ==
  ASSUME TypeOK, NEW j \in Jobs, JobStep(j)
  PROVE  Alone(j) /\ config' = config
<1> USE TypeParts DEF CarriedOK, Alone, carried, world, Stop, Go
<1>1. CASE (j = Main /\ (StartMain \/ Restore \/ RestoreFails)) \/ StartFast(j)
  BY <1>1 DEF StartMain, StartFast, Restore, RestoreFails
<1>2. CASE Refresh(j) \/ RefreshFails(j) \/ Load(j) \/ NoCandidate(j) \/ Dropped(j)
  BY <1>2 DEF Refresh, RefreshFails, Load, NoCandidate, Dropped
<1>3. ASSUME NEW k \in Keys, Propose(j, k) PROVE Alone(j) /\ config' = config
  BY <1>3 DEF Propose
<1>4. CASE Breaker(j)
  BY <1>4 DEF Breaker
<1>5. CASE Persist(j) \/ PersistFails(j)
  BY <1>5 DEF Persist, PersistFails, AfterPersist
<1>6. CASE Override(j) \/ CheckOpen(j) \/ CheckOpenFails(j) \/ Direction(j)
  BY <1>6 DEF Override, CheckOpen, CheckOpenFails, Direction
<1>7. CASE GateCaps(j) \/ GateRefuses(j) \/ GateDedup(j) \/ GateLiveCap(j) \/ GateLiveCapUnread(j)
  BY <1>7 DEF GateCaps, GateRefuses, GateDedup, GateLiveCap, GateLiveCapUnread, Refused
<1>8. CASE Fill(j) \/ FillFails(j) \/ Queued(j) \/ QueueFails(j) \/ TopUp(j) \/ TopUpDropped(j)
  BY <1>8 DEF Fill, FillFails, Queued, QueueFails, TopUp, TopUpDropped, Refused
<1> QED BY <1>1, <1>2, <1>3, <1>4, <1>5, <1>6, <1>7, <1>8 DEF JobStep

\* A step that opens, records and lets through nothing.
Uncounted(j) ==
  /\ pc[j] # "queue" /\ pc'[j] \notin Entering
  /\ UNCHANGED <<position, log, leads>> /\ faults <= faults'

LEMMA QuietMoves ==
  ASSUME TypeOK, TypeOK', CountInv, NEW j \in Jobs, Uncounted(j)
  PROVE  (\A s \in Sides : DirectionMoves(j, s)) /\ OpenMoves(j)
<1>1. faults \in Nat /\ faults' \in Nat /\ \A s \in Sides : log[s] \in Nat /\ leads[s] \in Nat
  BY DEF TypeOK
<1>2. /\ One(PassedAt(j)') = 0 /\ One(LivePassedAt(j)') = 0
      /\ \A s \in Sides : One(PendingAt(j, s)') = 0 /\ One(FilledAt(j, s)') = 0 /\ One(FilledAt(j, s)) = 0
  BY DEF Uncounted, Entering, One, PassedAt, LivePassedAt, PendingAt, FilledAt
<1>3. /\ One(PassedAt(j)) \in {0, 1} /\ One(LivePassedAt(j)) \in {0, 1}
      /\ \A s \in Sides : One(PendingAt(j, s)) \in {0, 1}
  BY DEF One
<1>4. OpenKeys' = OpenKeys
  BY DEF Uncounted, OpenKeys
<1>5. IsFiniteSet(OpenKeys) /\ Cardinality(OpenKeys) \in Nat
  BY FS_CardinalityType DEF CountInv, OpenCounts
<1>6. OpenMoves(j)
  <2>1. Cardinality(OpenKeys)' = Cardinality(OpenKeys) /\ IsFiniteSet(OpenKeys)'
    BY <1>4, <1>5
  <2> QED BY <1>1, <1>2, <1>3, <1>5, <2>1 DEF OpenMoves, Uncounted
<1>7. ASSUME NEW s \in Sides PROVE DirectionMoves(j, s)
  BY <1>1, <1>2, <1>3 DEF DirectionMoves, Uncounted
<1> QED BY <1>6, <1>7

LEMMA QuietSteps ==
  ASSUME TypeOK, NEW j \in Jobs, JobStep(j),
         ~(Direction(j) \/ GateCaps(j) \/ GateDedup(j) \/ GateLiveCap(j) \/ GateLiveCapUnread(j)
           \/ Fill(j) \/ Queued(j) \/ QueueFails(j) \/ TopUp(j))
  PROVE  Uncounted(j)
<1> USE TypeParts DEF CarriedOK, Uncounted, carried, world, Stop, Go, Entering, Steps, tableVars, dictVars,
        bounds, Fault
<1>0. faults \in Nat
  BY DEF SharedOK
<1>1. CASE (j = Main /\ (StartMain \/ Restore \/ RestoreFails)) \/ StartFast(j)
  BY <1>0, <1>1 DEF StartMain, StartFast, Restore, RestoreFails
<1>2. CASE Refresh(j) \/ RefreshFails(j) \/ Load(j) \/ NoCandidate(j) \/ Dropped(j)
  BY <1>0, <1>2 DEF Refresh, RefreshFails, Load, NoCandidate, Dropped
<1>3. ASSUME NEW k \in Keys, Propose(j, k) PROVE Uncounted(j)
  BY <1>0, <1>3 DEF Propose
<1>4. CASE Breaker(j)
  BY <1>0, <1>4 DEF Breaker
<1>5. CASE Persist(j) \/ PersistFails(j)
  BY <1>0, <1>5 DEF Persist, PersistFails, AfterPersist
<1>6. CASE Override(j) \/ CheckOpenFails(j)
  BY <1>0, <1>6 DEF Override, CheckOpenFails
<1>8. CASE CheckOpen(j)
  <2>1. Stop(j, "open") \/ Go(j, "open", "direction")
    BY <1>8 DEF CheckOpen
  <2> QED BY <1>0, <1>8, <2>1 DEF CheckOpen
<1>7. CASE GateRefuses(j) \/ FillFails(j) \/ TopUpDropped(j)
  BY <1>0, <1>7 DEF GateRefuses, FillFails, TopUpDropped, Refused
<1> QED BY <1>1, <1>2, <1>3, <1>4, <1>5, <1>6, <1>7, <1>8 DEF JobStep

\* The engine's refusal of a job that stands at one of its steps is such a step.
LEMMA RefusedMoves ==
  ASSUME TypeOK, TypeOK', CountInv, NEW j \in Jobs, NEW from, Refused(j, from), from # "queue",
         UNCHANGED <<position, log, leads, faults>>
  PROVE  (\A s \in Sides : DirectionMoves(j, s)) /\ OpenMoves(j)
<1>1. faults \in Nat
  BY DEF TypeOK
<1>2. Uncounted(j)
  BY <1>1, TypeParts DEF Uncounted, Refused, Stop, Go, CarriedOK, Entering
<1> QED BY <1>2, QuietMoves

\* A step within the engine: whether the job has passed the caps may change.
LEMMA EngineMoves ==
  ASSUME TypeOK, TypeOK', NEW j \in Jobs, pc[j] \in Entering \ {"queue"}, pc'[j] \in Entering \ {"queue"},
         CountInv, UNCHANGED <<position, log, leads, lead, cand>>, faults <= faults',
         PassedAt(j)' => PassedAt(j) \/ Cardinality(OpenKeys) < MaxOpen,
         config.live /\ LivePassedAt(j)' =>
           LivePassedAt(j) \/ Cardinality(OpenKeys) < LiveCap \/ faults' = faults + 1
  PROVE  (\A s \in Sides : DirectionMoves(j, s)) /\ OpenMoves(j)
<1>1. faults \in Nat /\ faults' \in Nat /\ \A s \in Sides : log[s] \in Nat /\ leads[s] \in Nat
  BY DEF TypeOK
<1>2. OpenKeys' = OpenKeys
  BY DEF OpenKeys
<1>3. IsFiniteSet(OpenKeys) /\ Cardinality(OpenKeys) \in Nat
  BY FS_CardinalityType DEF CountInv, OpenCounts
<1>4. Cardinality(OpenKeys)' = Cardinality(OpenKeys) /\ IsFiniteSet(OpenKeys)'
  BY <1>2, <1>3
<1>5. OpenMoves(j)
  BY <1>1, <1>2, <1>3, <1>4 DEF OpenMoves, One
<1>6. ASSUME NEW s \in Sides PROVE DirectionMoves(j, s)
  <2>1. PendingAt(j, s)' = PendingAt(j, s)
    BY DEF PendingAt, SideOf
  <2>2. ~FilledAt(j, s) /\ ~FilledAt(j, s)'
    BY DEF FilledAt
  <2> QED BY <1>1, <2>1, <2>2 DEF DirectionMoves, One
<1> QED BY <1>5, <1>6

LEMMA FillMoves ==
  ASSUME TypeOK, TypeOK', CountInv, NEW j \in Jobs, Fill(j)
  PROVE  (\A s \in Sides : DirectionMoves(j, s)) /\ OpenMoves(j)
<1> USE TypeParts DEF CarriedOK
<1>1. faults \in Nat /\ \A s \in Sides : log[s] \in Nat /\ leads[s] \in Nat
  BY DEF TypeOK
<1>2. CASE cand[j] \in ordered
  BY <1>2, RefusedMoves DEF Fill, tableVars, bounds
<1>3. CASE cand[j] \notin ordered
  <2>1. /\ pc[j] = "fill" /\ pc'[j] = "queue" /\ UNCHANGED <<log, lead, cand, faults>>
        /\ position' = [position EXCEPT ![cand[j]] = "open"]
        /\ leads' = IF lead[j] THEN [leads EXCEPT ![SideOf(j)] = @ + 1] ELSE leads
    BY <1>3 DEF Fill, Go, carried, bounds
  <2>2. /\ One(PassedAt(j)) = 1 /\ One(PassedAt(j)') = 0
        /\ One(LivePassedAt(j)) = 1 /\ One(LivePassedAt(j)') = 0
    BY <2>1 DEF One, PassedAt, LivePassedAt
  <2>3. OpenKeys' = OpenKeys \cup {cand[j]}
    BY <2>1 DEF OpenKeys, SharedOK, TablesOK
  <2>4. IsFiniteSet(OpenKeys) /\ Cardinality(OpenKeys) \in Nat
    BY FS_CardinalityType DEF CountInv, OpenCounts
  <2>5. /\ IsFiniteSet(OpenKeys \cup {cand[j]})
        /\ Cardinality(OpenKeys \cup {cand[j]})
             = IF cand[j] \in OpenKeys THEN Cardinality(OpenKeys) ELSE Cardinality(OpenKeys) + 1
    BY <2>4, FS_AddElement
  <2>6. Cardinality(OpenKeys)' <= Cardinality(OpenKeys) + 1 /\ Cardinality(OpenKeys)' \in Nat
    BY <2>3, <2>4, <2>5
  <2>7. OpenMoves(j)
    BY <1>1, <2>1, <2>2, <2>3, <2>4, <2>5, <2>6 DEF OpenMoves
  <2>8. ASSUME NEW s \in Sides PROVE DirectionMoves(j, s)
    <3>1. PendingAt(j, s)' = PendingAt(j, s)
      BY <2>1 DEF PendingAt, SideOf, Entering
    <3>2. One(FilledAt(j, s)) = 0 /\ One(FilledAt(j, s)') = IF lead[j] /\ SideOf(j) = s THEN 1 ELSE 0
      BY <2>1 DEF FilledAt, One, SideOf
    <3>3. leads'[s] = IF lead[j] /\ SideOf(j) = s THEN leads[s] + 1 ELSE leads[s]
      BY <2>1 DEF SharedOK
    <3>4. One(PendingAt(j, s)) \in {0, 1}
      BY DEF One
    <3> QED BY <1>1, <2>1, <3>1, <3>2, <3>3, <3>4 DEF DirectionMoves
  <2> QED BY <2>7, <2>8
<1> QED BY <1>2, <1>3

\* The end of a fill: recorded, or its record failed.
LEMMA RecordMoves ==
  ASSUME TypeOK, TypeOK', CountInv, NEW j \in Jobs, Queued(j) \/ QueueFails(j)
  PROVE  (config.safeClose => \A s \in Sides : DirectionMoves(j, s)) /\ OpenMoves(j)
<1> USE TypeParts DEF CarriedOK
<1>1. faults \in Nat /\ faults' \in Nat /\ \A s \in Sides : log[s] \in Nat /\ leads[s] \in Nat
  BY DEF TypeOK
<1>2. /\ pc[j] = "queue" /\ pc'[j] \in {"topup", "idle"}
      /\ UNCHANGED <<position, leads>> /\ faults <= faults'
  <2>1. CASE Queued(j)
    BY <1>1, <2>1 DEF Queued, Refused, Stop, Go, tableVars, bounds
  <2>2. CASE QueueFails(j)
    BY <1>1, <2>2 DEF QueueFails, Stop, Go, tableVars, Fault
  <2> QED BY <2>1, <2>2
<1>3. OpenKeys' = OpenKeys
  BY <1>2 DEF OpenKeys
<1>4. IsFiniteSet(OpenKeys) /\ Cardinality(OpenKeys) \in Nat
  BY FS_CardinalityType DEF CountInv, OpenCounts
<1>5. Cardinality(OpenKeys)' = Cardinality(OpenKeys) /\ IsFiniteSet(OpenKeys)'
  BY <1>3, <1>4
<1>6. OpenMoves(j)
  BY <1>1, <1>2, <1>4, <1>5 DEF OpenMoves, One, PassedAt, LivePassedAt
<1>7. ASSUME config.safeClose, NEW s \in Sides PROVE DirectionMoves(j, s)
  <2> DEFINE mine == lead[j] /\ SideOf(j) = s
  <2>1. One(PendingAt(j, s)) = One(mine) /\ One(PendingAt(j, s)') = 0
    BY <1>2 DEF One, PendingAt, Entering
  <2>2. One(FilledAt(j, s)) = One(mine) /\ One(FilledAt(j, s)') = 0
    BY <1>2 DEF One, FilledAt
  <2>3. One(mine) \in {0, 1}
    BY DEF One
  <2>4. CASE Queued(j)
    <3>1. log'[s] = log[s] + One(mine)
      <4>1. CASE lead[j]
        <5>1. log' = [log EXCEPT ![SideOf(j)] = @ + 1]
          BY <1>7, <2>4, <4>1 DEF Queued
        <5> QED BY <1>1, <4>1, <5>1 DEF SharedOK, One
      <4>2. CASE ~lead[j]
        BY <1>1, <2>4, <4>2 DEF Queued, One
      <4> QED BY <4>1, <4>2
    <3>2. faults' = faults
      BY <2>4 DEF Queued, bounds
    <3> HIDE DEF mine
    <3> QED BY <1>1, <1>2, <2>1, <2>2, <2>3, <3>1, <3>2 DEF DirectionMoves
  <2>5. CASE QueueFails(j)
    <3>1. log' = log /\ faults' = faults + 1
      BY <2>5 DEF QueueFails, dictVars, Fault
    <3> HIDE DEF mine
    <3> QED BY <1>1, <1>2, <2>1, <2>2, <2>3, <3>1 DEF DirectionMoves
  <2> QED BY <2>4, <2>5
<1> QED BY <1>6, <1>7

LEMMA JobMoves ==
  ASSUME ScanAssumption, TypeOK, TypeOK', CountInv, NEW j \in Jobs, JobStep(j)
  PROVE  (config.safeClose => \A s \in Sides : DirectionMoves(j, s)) /\ OpenMoves(j)
<1> USE TypeParts DEF CarriedOK
<1>1. faults \in Nat /\ faults' \in Nat /\ \A s \in Sides : log[s] \in Nat /\ leads[s] \in Nat
  BY DEF TypeOK
<1>2. CASE Direction(j)
  <2>1. CASE Stop(j, "direction")
    <3>1. Uncounted(j)
      BY <1>1, <1>2, <2>1 DEF Direction, Uncounted, Stop, Go, Entering, world, dictVars, tableVars, bounds
    <3> QED BY <3>1, QuietMoves
  <2>2. CASE ~Stop(j, "direction")
    <3>1. /\ pc[j] = "direction" /\ pc'[j] = "caps" /\ UNCHANGED <<position, log, leads, faults, lead, cand>>
          /\ config.safeClose => log[SideOf(j)] < DirectionLimit
      <4>1. Go(j, "direction", "caps") /\ UNCHANGED carried /\ ~(config.safeClose /\ log[SideOf(j)] >= DirectionLimit)
        BY <1>2, <2>2 DEF Direction
      <4>2. SideOf(j) \in Sides
        BY KeyParts DEF SideOf
      <4>3. config.safeClose => log[SideOf(j)] < DirectionLimit
        BY <1>1, <4>1, <4>2 DEF ScanAssumption
      <4> QED BY <1>2, <4>1, <4>3 DEF Direction, Go, world, dictVars, tableVars, bounds, carried
    <3>2. OpenKeys' = OpenKeys
      BY <3>1 DEF OpenKeys
    <3>3. IsFiniteSet(OpenKeys) /\ Cardinality(OpenKeys) \in Nat
      BY FS_CardinalityType DEF CountInv, OpenCounts
    <3>4. Cardinality(OpenKeys)' = Cardinality(OpenKeys) /\ IsFiniteSet(OpenKeys)'
      BY <3>2, <3>3
    <3>5. OpenMoves(j)
      BY <1>1, <3>1, <3>3, <3>4 DEF OpenMoves, One, PassedAt, LivePassedAt
    <3>6. ASSUME config.safeClose, NEW s \in Sides PROVE DirectionMoves(j, s)
      <4>1. One(FilledAt(j, s)) = 0 /\ One(FilledAt(j, s)') = 0
        BY <3>1 DEF FilledAt, One
      <4>2. CASE SideOf(j) = s
        BY <1>1, <3>1, <3>6, <4>1, <4>2 DEF DirectionMoves
      <4>3. CASE SideOf(j) # s
        <5>1. One(PendingAt(j, s)) = 0 /\ One(PendingAt(j, s)') = 0
          BY <3>1, <4>3 DEF PendingAt, One, SideOf
        <5> QED BY <1>1, <3>1, <4>1, <5>1 DEF DirectionMoves
      <4> QED BY <4>2, <4>3
    <3> QED BY <3>5, <3>6
  <2> QED BY <2>1, <2>2
<1>3. CASE GateCaps(j)
  <2>1. CASE Refused(j, "caps")
    BY <1>3, <2>1, RefusedMoves DEF GateCaps, tableVars, bounds
  <2>2. CASE ~Refused(j, "caps")
    <3>1. /\ pc[j] = "caps" /\ pc'[j] = "dedup" /\ UNCHANGED <<position, log, leads, faults, lead, cand>>
          /\ ~(Cardinality(OpenKeys) >= MaxOpen)
      BY <1>3, <2>2 DEF GateCaps, Go, carried, tableVars, bounds
    <3>2. Cardinality(OpenKeys) < MaxOpen
      BY <3>1, FS_CardinalityType DEF CountInv, OpenCounts, ScanAssumption
    <3> QED BY <1>1, <3>1, <3>2, EngineMoves DEF Entering, LivePassedAt
  <2> QED BY <2>1, <2>2
<1>4. CASE GateDedup(j)
  <2>1. CASE Refused(j, "dedup")
    BY <1>4, <2>1, RefusedMoves DEF GateDedup, tableVars, bounds
  <2>2. CASE ~Refused(j, "dedup")
    <3>1. /\ pc[j] = "dedup" /\ pc'[j] \in {"cap", "fill"} /\ (config.live => pc'[j] = "cap")
          /\ UNCHANGED <<position, log, leads, faults, lead, cand>>
      BY <1>4, <2>2 DEF GateDedup, Go, carried, tableVars, bounds
    <3> QED BY <1>1, <3>1, EngineMoves DEF Entering, LivePassedAt, PassedAt
  <2> QED BY <2>1, <2>2
<1>5. CASE GateLiveCap(j)
  <2>1. CASE Refused(j, "cap")
    BY <1>5, <2>1, RefusedMoves DEF GateLiveCap, tableVars, bounds
  <2>2. CASE ~Refused(j, "cap")
    <3>1. /\ pc[j] = "cap" /\ pc'[j] = "fill" /\ UNCHANGED <<position, log, leads, faults, lead, cand>>
          /\ ~(Cardinality(OpenKeys) + 1 > LiveCap)
      BY <1>5, <2>2 DEF GateLiveCap, LiveExposure, Go, carried, tableVars, bounds
    <3>2. Cardinality(OpenKeys) < LiveCap
      BY <3>1, FS_CardinalityType DEF CountInv, OpenCounts, ScanAssumption
    <3> QED BY <1>1, <3>1, <3>2, EngineMoves DEF Entering, PassedAt
  <2> QED BY <2>1, <2>2
<1>6. CASE GateLiveCapUnread(j)
  <2>1. /\ pc[j] = "cap" /\ pc'[j] = "fill" /\ UNCHANGED <<position, log, leads, lead, cand>>
        /\ faults' = faults + 1
    BY <1>6 DEF GateLiveCapUnread, Go, Fault, carried, dictVars, tableVars
  <2> QED BY <1>1, <2>1, EngineMoves DEF Entering, PassedAt
<1>7. CASE Fill(j)
  BY <1>7, FillMoves
<1>8. CASE Queued(j) \/ QueueFails(j)
  BY <1>8, RecordMoves
<1>9. CASE TopUp(j)
  <2>1. CASE Stop(j, "topup")
    <3>1. Uncounted(j)
      BY <1>1, <1>9, <2>1 DEF TopUp, Uncounted, Stop, Go, Entering, world, dictVars, tableVars, bounds
    <3> QED BY <3>1, QuietMoves
  <2>2. CASE ~Stop(j, "topup")
    <3>1. /\ pc[j] = "topup" /\ pc'[j] = "caps" /\ ~lead'[j]
          /\ UNCHANGED <<position, log, leads, faults>>
      BY <1>9, <2>2 DEF TopUp, Go, world, dictVars, tableVars, bounds
    <3>2. OpenKeys' = OpenKeys
      BY <3>1 DEF OpenKeys
    <3>3. IsFiniteSet(OpenKeys) /\ Cardinality(OpenKeys) \in Nat
      BY FS_CardinalityType DEF CountInv, OpenCounts
    <3>4. Cardinality(OpenKeys)' = Cardinality(OpenKeys) /\ IsFiniteSet(OpenKeys)'
      BY <3>2, <3>3
    <3>5. OpenMoves(j)
      BY <1>1, <3>1, <3>3, <3>4 DEF OpenMoves, One, PassedAt, LivePassedAt
    <3>6. ASSUME NEW s \in Sides PROVE DirectionMoves(j, s)
      BY <1>1, <3>1 DEF DirectionMoves, One, PendingAt, FilledAt, Entering
    <3> QED BY <3>5, <3>6
  <2> QED BY <2>1, <2>2
<1> QED BY <1>2, <1>3, <1>4, <1>5, <1>6, <1>7, <1>8, <1>9, QuietSteps, QuietMoves

\* The world around the jobs.
LEMMA EnvironmentCounts ==
  ASSUME ScanAssumption, TypeOK, CountInv, Environment
  PROVE  CountInv'
<1>1. IsFiniteSet(Jobs) /\ Cardinality(Jobs) \in Nat
  BY FS_CardinalityType DEF ScanAssumption
<1>2. \A S \in SUBSET Jobs : Cardinality(S) \in Nat
  BY <1>1, FS_Subset, FS_CardinalityType
<1>3. Passed \in SUBSET Jobs /\ LivePassed \in SUBSET Jobs
  BY DEF Passed, LivePassed
<1>4. IsFiniteSet(OpenKeys) /\ Cardinality(OpenKeys) \in Nat
  BY FS_CardinalityType DEF CountInv, OpenCounts
<1>5. ASSUME UNCHANGED <<pc, lead, cand, config, position, log, leads, faults>>
      PROVE  CountInv'
  BY <1>5 DEF CountInv, DirectionCounts, OpenCounts, OpenKeys, Passed, PassedAt, LivePassed,
              LivePassedAt, Pending, PendingAt, Filled, FilledAt, SideOf
<1>6. ASSUME NEW b \in Balances, Wallet(b) PROVE CountInv'
  BY <1>5, <1>6 DEF Wallet, carried, dictVars, tableVars, bounds
<1>7. ASSUME NEW m \in Markets, Age(m) PROVE CountInv'
  BY <1>5, <1>7 DEF Age, carried, dictVars, bounds
<1>8. CASE Toggle \/ ToggleStrategy
  BY <1>5, <1>8 DEF Toggle, ToggleStrategy, carried, dictVars, tableVars, bounds
<1>9. ASSUME NEW k \in Keys, Close(k) PROVE CountInv'
  <2>1. /\ UNCHANGED <<pc, lead, cand, config, log, leads, faults>>
        /\ position' = [position EXCEPT ![k] = "closed"]
    BY <1>9 DEF Close, carried, dictVars, bounds
  <2>2. OpenKeys' \in SUBSET OpenKeys
    BY <2>1 DEF OpenKeys, TypeOK
  <2>3. IsFiniteSet(OpenKeys') /\ Cardinality(OpenKeys') <= Cardinality(OpenKeys)
        /\ Cardinality(OpenKeys') \in Nat
    BY <1>4, <2>2, FS_Subset, FS_CardinalityType
  <2>4. DirectionCounts'
    BY <2>1 DEF CountInv, DirectionCounts, Pending, PendingAt, Filled, FilledAt, SideOf
  <2>5. Passed' = Passed /\ LivePassed' = LivePassed
    BY <2>1 DEF Passed, PassedAt, LivePassed, LivePassedAt
  <2>6. OpenCounts'
    <3>1. /\ Cardinality(Passed) \in Nat /\ Cardinality(LivePassed) \in Nat /\ MaxOpen \in Nat
          /\ LiveCap \in Nat /\ faults \in Nat
      BY <1>2, <1>3 DEF ScanAssumption, TypeOK
    <3>2. Cardinality(OpenKeys') + Cardinality(Passed') <= MaxOpen - 1 + Cardinality(Jobs)
      BY <1>1, <1>4, <2>3, <2>5, <3>1 DEF CountInv, OpenCounts
    <3>3. config.live => Cardinality(OpenKeys') + Cardinality(LivePassed')
                           <= LiveCap - 1 + Cardinality(Jobs) + faults
      BY <1>1, <1>4, <2>3, <2>5, <3>1 DEF CountInv, OpenCounts
    <3> QED BY <2>1, <2>3, <3>2, <3>3 DEF OpenCounts
  <2> QED BY <2>4, <2>6 DEF CountInv
<1>10. CASE Restart
  <2>1. /\ \A j \in Jobs : pc'[j] = "idle"
        /\ \A s \in Sides : log'[s] = 0 /\ leads'[s] = 0
        /\ UNCHANGED <<config, position, faults>>
    BY <1>10 DEF Restart, tableVars
  <2>2. /\ Passed' = {} /\ LivePassed' = {} /\ OpenKeys' = OpenKeys
        /\ \A s \in Sides : Pending(s)' = {} /\ Filled(s)' = {}
    BY <2>1 DEF Passed, PassedAt, LivePassed, LivePassedAt, Pending, PendingAt, Filled, FilledAt,
                OpenKeys, Entering
  <2>3. Cardinality({}) = 0
    BY FS_EmptySet
  <2>4. Cardinality(Jobs) >= 1
    <3>1. Jobs # {}
      BY DEF ScanAssumption
    <3> QED BY <1>1, <3>1, FS_EmptySet
  <2>5. MaxOpen \in Nat /\ LiveCap \in Nat /\ faults \in Nat /\ DirectionLimit \in Nat \ {0}
    BY DEF ScanAssumption, TypeOK
  <2>6. DirectionCounts'
    <3>1. \A s \in Sides : Cardinality(Pending(s)') = 0 /\ Cardinality(Filled(s)') = 0
      BY <2>2, <2>3
    <3>2. \A s \in Sides : log'[s] + Cardinality(Pending(s)') = 0 /\ leads'[s] = 0
                           /\ log'[s] + Cardinality(Filled(s)') + faults' = faults
      BY <2>1, <2>5, <3>1
    <3>3. 0 <= DirectionLimit - 1 + Cardinality(Jobs) /\ 0 <= faults
      BY <1>1, <2>5
    <3> QED BY <3>2, <3>3 DEF DirectionCounts
  <2>7. OpenCounts'
    <3>1. Cardinality(OpenKeys') = Cardinality(OpenKeys) /\ Cardinality(Passed') = 0
          /\ Cardinality(LivePassed') = 0 /\ IsFiniteSet(OpenKeys')
      BY <1>4, <2>2, <2>3
    <3>2. Cardinality(Passed) \in Nat /\ Cardinality(LivePassed) \in Nat
      BY <1>2, <1>3
    <3> QED BY <1>1, <1>4, <2>1, <2>5, <3>1, <3>2 DEF CountInv, OpenCounts
  <2> QED BY <2>6, <2>7 DEF CountInv
<1> QED BY <1>6, <1>7, <1>8, <1>9, <1>10 DEF Environment

LEMMA CountsStep ==
  ASSUME ScanAssumption, TypeOK, CountInv, [Next]_vars
  PROVE  CountInv'
<1>1. TypeOK'
  BY ScanTypes
<1>2. ASSUME NEW j \in Jobs, JobStep(j) PROVE CountInv'
  BY <1>1, <1>2, AloneSteps, JobMoves, CountsKeep
<1>3. CASE UNCHANGED vars
  BY <1>3 DEF vars, carried, world, dictVars, tableVars, bounds, CountInv, DirectionCounts, OpenCounts,
              OpenKeys, Passed, PassedAt, LivePassed, LivePassedAt, Pending, PendingAt, Filled,
              FilledAt, SideOf
<1> QED BY <1>2, <1>3, EnvironmentCounts DEF Next

LEMMA CountsInit ==
  ASSUME ScanAssumption, Init
  PROVE  CountInv
<1>1. IsFiniteSet(Jobs) /\ Cardinality(Jobs) \in Nat
  BY FS_CardinalityType DEF ScanAssumption
<1>2. /\ \A j \in Jobs : pc[j] = "idle"
      /\ \A s \in Sides : log[s] = 0 /\ leads[s] = 0
      /\ \A k \in Keys : position[k] = "none"
      /\ faults = 0
  BY DEF Init
<1>3. /\ Passed = {} /\ LivePassed = {} /\ OpenKeys = {}
      /\ \A s \in Sides : Pending(s) = {} /\ Filled(s) = {}
  BY <1>2 DEF Passed, PassedAt, LivePassed, LivePassedAt, Pending, PendingAt, Filled, FilledAt,
              OpenKeys, Entering
<1>4. IsFiniteSet({}) /\ Cardinality({}) = 0
  BY FS_EmptySet
<1>5. Cardinality(Jobs) >= 1
  <2>1. Jobs # {}
    BY DEF ScanAssumption
  <2> QED BY <1>1, <2>1, FS_EmptySet
<1>6. MaxOpen \in Nat /\ LiveCap \in Nat /\ DirectionLimit \in Nat \ {0}
  BY DEF ScanAssumption
<1>7. DirectionCounts
  <2>1. \A s \in Sides : Cardinality(Pending(s)) = 0 /\ Cardinality(Filled(s)) = 0
    BY <1>3, <1>4
  <2>2. \A s \in Sides : log[s] + Cardinality(Pending(s)) = 0 /\ leads[s] = 0
                         /\ log[s] + Cardinality(Filled(s)) + faults = 0
    BY <1>2, <2>1
  <2>3. 0 <= DirectionLimit - 1 + Cardinality(Jobs)
    BY <1>1, <1>6
  <2> QED BY <2>2, <2>3 DEF DirectionCounts
<1>8. OpenCounts
  <2>1. Cardinality(OpenKeys) = 0 /\ Cardinality(Passed) = 0 /\ Cardinality(LivePassed) = 0
        /\ IsFiniteSet(OpenKeys)
    BY <1>3, <1>4
  <2> QED BY <1>1, <1>2, <1>5, <1>6, <2>1 DEF OpenCounts
<1> QED BY <1>7, <1>8 DEF CountInv

LEMMA CountsCap ==
  ASSUME ScanAssumption, TypeOK, CountInv
  PROVE  CapsHold
<1>1. IsFiniteSet(Jobs) /\ Cardinality(Jobs) \in Nat
  BY FS_CardinalityType DEF ScanAssumption
<1>2. faults \in Nat /\ MaxOpen \in Nat /\ LiveCap \in Nat /\ DirectionLimit \in Nat
  BY DEF TypeOK, ScanAssumption
<1>3. ASSUME config.safeClose, NEW s \in Sides
      PROVE  leads[s] <= DirectionLimit + (Cardinality(Jobs) - 1) + faults
  <2>1. Filled(s) \in SUBSET Pending(s) /\ Pending(s) \in SUBSET Jobs
    BY DEF Filled, FilledAt, Pending, PendingAt, Entering
  <2>2. IsFiniteSet(Pending(s)) /\ Cardinality(Filled(s)) <= Cardinality(Pending(s))
    BY <1>1, <2>1, FS_Subset
  <2>3. Cardinality(Filled(s)) \in Nat /\ Cardinality(Pending(s)) \in Nat
    BY <2>1, <2>2, FS_Subset, FS_CardinalityType
  <2>4. log[s] \in Nat /\ leads[s] \in Nat
    BY DEF TypeOK
  <2>5. /\ log[s] + Cardinality(Pending(s)) <= DirectionLimit - 1 + Cardinality(Jobs)
        /\ leads[s] <= log[s] + Cardinality(Filled(s)) + faults
    BY <1>3 DEF CountInv, DirectionCounts
  <2> QED BY <1>1, <1>2, <2>2, <2>3, <2>4, <2>5
<1>4. Cardinality(OpenKeys) \in Nat
  BY FS_CardinalityType DEF CountInv, OpenCounts
<1>5. Cardinality(Passed) \in Nat /\ Cardinality(LivePassed) \in Nat
  <2>1. Passed \in SUBSET Jobs /\ LivePassed \in SUBSET Jobs
    BY DEF Passed, LivePassed
  <2> QED BY <1>1, <2>1, FS_Subset, FS_CardinalityType
<1>6. Cardinality(OpenKeys) <= MaxOpen + (Cardinality(Jobs) - 1)
  BY <1>1, <1>2, <1>4, <1>5 DEF CountInv, OpenCounts
<1>7. config.live => Cardinality(OpenKeys) <= LiveCap + (Cardinality(Jobs) - 1) + faults
  BY <1>1, <1>2, <1>4, <1>5 DEF CountInv, OpenCounts
<1> QED BY <1>3, <1>6, <1>7 DEF CapsHold, DirectionCap, EntryCaps

\* The jobs and what they share keep to their types.
THEOREM ScanTyped ==
  ASSUME ScanAssumption
  PROVE  Spec => []TypeOK
BY ScanInitTyped, ScanTypes, PTL DEF Spec

\* The direction limit, the cap on open positions and the cap of live capital
\* are passed by one entry of each other job at most, and by what an INSERT or a
\* read that failed lets through.
THEOREM CapsAreKept ==
  ASSUME ScanAssumption
  PROVE  Spec => []CapsHold
<1>1. Init => TypeOK /\ CountInv
  BY ScanInitTyped, CountsInit
<1>2. TypeOK /\ CountInv /\ [Next]_vars => TypeOK' /\ CountInv'
  BY ScanTypes, CountsStep
<1>3. TypeOK /\ CountInv => CapsHold
  BY CountsCap
<1> QED BY <1>1, <1>2, <1>3, PTL DEF Spec

-----------------------------------------------------------------------------
(* ScanJobs and Bankroll: the breaker.                                     *)

\* The steps of a candidate that the breaker has let through.
Cleared == {"persist", "override", "open", "direction", "caps", "dedup", "cap", "fill", "queue", "topup"}

\* As long as the process has not stopped, every baseline there is, in the dict,
\* in the row or on its way to the row, is the first one; so what the breaker let
\* through is not below the trip line of it.
BaselinesAgree ==
  restarts = 0 =>
    /\ baseline = first /\ saved.baseline \in {0, first}
    /\ \A j \in Jobs : upsert[j].baseline \in {0, first}

ClearedAbove ==
  restarts = 0 /\ config.breaker =>
    \A j \in Jobs : pc[j] \in Cleared => first # 0 /\ ~BelowTrip(balanceOf[j], first)

BreakerScanInv == BaselinesAgree /\ ClearedAbove

LEMMA BreakerInit ==
  ASSUME Init
  PROVE  BreakerScanInv
BY DEF Init, BankrollInit, NoRow, BreakerScanInv, BaselinesAgree, ClearedAbove, Cleared

\* A step of one job that leaves the baselines as they are and clears no other.
Unbroken(j) ==
  /\ UNCHANGED <<baseline, first, saved, config, restarts>>
  /\ upsert' = upsert \/ upsert' = [upsert EXCEPT ![j] = NoRow]
  /\ \A i \in Jobs : pc'[i] \in Cleared =>
       balanceOf'[i] = balanceOf[i] /\ (pc[i] \in Cleared \/ (i = j /\ ~config.breaker))

LEMMA UnbrokenKeeps ==
  ASSUME TypeOK, BreakerScanInv, NEW j \in Jobs, Unbroken(j)
  PROVE  BreakerScanInv'
<1>1. NoRow.baseline = 0
  BY DEF NoRow
<1>2. BaselinesAgree'
  BY <1>1 DEF BreakerScanInv, BaselinesAgree, Unbroken, TypeOK
<1>3. ClearedAbove'
  BY DEF BreakerScanInv, ClearedAbove, Unbroken, BelowTrip
<1> QED BY <1>2, <1>3 DEF BreakerScanInv

LEMMA UnbrokenSteps ==
  ASSUME TypeOK, NEW j \in Jobs, JobStep(j),
         ~Restore, ~Breaker(j), ~Persist(j)
  PROVE  Unbroken(j)
<1> USE TypeParts DEF CarriedOK, Unbroken, carried, world, Stop, Go, Cleared, bankrollVars, bounds, Fault
<1>1. CASE (j = Main /\ (StartMain \/ RestoreFails)) \/ StartFast(j)
  BY <1>1 DEF StartMain, StartFast, RestoreFails
<1>2. CASE Refresh(j) \/ RefreshFails(j) \/ NoCandidate(j) \/ Dropped(j)
  BY <1>2 DEF Refresh, RefreshFails, NoCandidate, Dropped
<1>3. CASE Load(j)
  BY <1>3 DEF Load
<1>4. ASSUME NEW k \in Keys, Propose(j, k) PROVE Unbroken(j)
  BY <1>4 DEF Propose
<1>5. CASE PersistFails(j)
  BY <1>5 DEF PersistFails, AfterPersist
<1>6. CASE Override(j) \/ CheckOpenFails(j) \/ Direction(j)
  BY <1>6 DEF Override, CheckOpenFails, Direction
<1>7. CASE CheckOpen(j)
  <2>1. CASE Stop(j, "open")
    BY <1>7, <2>1 DEF CheckOpen
  <2>2. CASE Go(j, "open", "direction") /\ UNCHANGED carried
    BY <1>7, <2>2 DEF CheckOpen
  <2> QED BY <1>7, <2>1, <2>2 DEF CheckOpen
<1>8. CASE GateCaps(j) \/ GateRefuses(j) \/ GateDedup(j) \/ GateLiveCap(j) \/ GateLiveCapUnread(j)
  BY <1>8 DEF GateCaps, GateRefuses, GateDedup, GateLiveCap, GateLiveCapUnread, Refused
<1>9. CASE Fill(j) \/ FillFails(j) \/ Queued(j) \/ QueueFails(j) \/ TopUp(j) \/ TopUpDropped(j)
  BY <1>9 DEF Fill, FillFails, Queued, QueueFails, TopUp, TopUpDropped, Refused
<1> QED BY <1>1, <1>2, <1>3, <1>4, <1>5, <1>6, <1>7, <1>8, <1>9 DEF JobStep

\* Above the resume line is not below the trip line.
LEMMA LinesApart ==
  ASSUME NEW b \in Nat, NEW f \in Nat, AboveResume(b, f)
  PROVE  ~BelowTrip(b, f)
BY DEF AboveResume, BelowTrip

\* The evaluation itself: the latch it leaves is clear only above the trip line.
LEMMA EvaluateClears ==
  ASSUME BankrollAssumption, BankrollTypeOK, NEW b \in Balances, baseline = first, Evaluate(b)
  PROVE  /\ baseline' = first' /\ first' # 0 /\ (first # 0 => first' = first)
         /\ latch' # "tripped" => ~BelowTrip(b, first')
<1>1. b \in Nat \ {0} /\ first \in Nat
  BY DEF BankrollAssumption, BankrollTypeOK
<1>2. baseline' = first' /\ first' # 0 /\ first' = Seeded(b) /\ (first # 0 => first' = first)
  BY <1>1 DEF Evaluate, Seeded
<1>3. first' \in Nat
  BY <1>1, <1>2 DEF Evaluate
<1>4. latch' = Latched(b, first')
  BY <1>2 DEF Evaluate
<1>5. ASSUME latch' # "tripped" PROVE ~BelowTrip(b, first')
  <2>1. AboveResume(b, first') => ~BelowTrip(b, first')
    BY <1>1, <1>3, LinesApart
  <2>2. AboveResume(b, first') \/ ~BelowTrip(b, first')
    BY <1>4, <1>5 DEF Latched
  <2> QED BY <2>1, <2>2
<1> QED BY <1>2, <1>5

LEMMA BreakerStepKeeps ==
  ASSUME BankrollAssumption, ScanAssumption, TypeOK, BreakerScanInv, NEW j \in Jobs, Breaker(j)
  PROVE  BreakerScanInv'
<1> USE TypeParts DEF CarriedOK, SharedOK
<1>1. UNCHANGED <<config, restarts, saved>> /\ Evaluate(balanceOf[j]) /\ balanceOf[j] \in Balances
  BY DEF Breaker, Evaluate, bounds
<1>2. ASSUME restarts = 0
      PROVE  /\ baseline' = first' /\ first' # 0 /\ (first # 0 => first' = first)
             /\ latch' # "tripped" => ~BelowTrip(balanceOf[j], first')
  BY <1>1, <1>2, EvaluateClears DEF BreakerScanInv, BaselinesAgree
<1>3. /\ \A i \in Jobs : upsert'[i].baseline \in {upsert[i].baseline, 0, baseline'}
      /\ \A i \in Jobs : pc'[i] \in Cleared =>
            /\ balanceOf'[i] = balanceOf[i]
            /\ pc[i] \in Cleared \/ (i = j /\ latch' # "tripped")
  <2>1. CASE Transition
    <3>1. /\ upsert' = [upsert EXCEPT ![j] = Row] /\ balanceOf' = balanceOf
          /\ pc' = [pc EXCEPT ![j] = IF latch' = "tripped" THEN "persistBlocked" ELSE "persist"]
      BY <2>1 DEF Breaker, Go
    <3>2. Row.baseline = baseline'
      BY DEF Row
    <3>3. \A i \in Jobs : upsert'[i].baseline \in {upsert[i].baseline, 0, baseline'}
      BY <3>1, <3>2
    <3> QED BY <3>1, <3>3 DEF Cleared
  <2>2. CASE ~Transition
    BY <2>2 DEF Breaker, Stop, Go, carried, Cleared, NoRow
  <2> QED BY <2>1, <2>2
<1>4. BaselinesAgree'
  BY <1>1, <1>2, <1>3 DEF BreakerScanInv, BaselinesAgree, BankrollTypeOK
<1>5. ClearedAbove'
  BY <1>1, <1>2, <1>3 DEF BreakerScanInv, ClearedAbove, BelowTrip
<1> QED BY <1>4, <1>5 DEF BreakerScanInv

LEMMA BreakerScanStep ==
  ASSUME BankrollAssumption, ScanAssumption, TypeOK, BreakerScanInv, [Next]_vars
  PROVE  BreakerScanInv'
<1> USE TypeParts DEF CarriedOK, SharedOK
<1>1. CASE Restore
  <2>1. /\ UNCHANGED <<config, restarts, saved, first, upsert, balanceOf>>
        /\ \A i \in Jobs : pc'[i] \in Cleared => pc[i] \in Cleared
        /\ baseline' = IF saved.baseline # 0 /\ baseline = 0 THEN saved.baseline ELSE baseline
    BY <1>1 DEF Restore, RestoreDicts, Go, carried, bounds, Cleared, ScanAssumption
  <2> QED BY <2>1 DEF BreakerScanInv, BaselinesAgree, ClearedAbove, BelowTrip
<1>2. ASSUME NEW j \in Jobs, Persist(j) PROVE BreakerScanInv'
  <2>1. /\ UNCHANGED <<config, restarts, baseline, first>> /\ saved' = upsert[j]
        /\ upsert' = [upsert EXCEPT ![j] = NoRow]
        /\ \A i \in Jobs : pc'[i] \in Cleared => pc[i] \in Cleared /\ balanceOf'[i] = balanceOf[i]
    BY <1>2 DEF Persist, AfterPersist, PersistRow, Stop, Go, bounds, Cleared
  <2>2. NoRow.baseline = 0
    BY DEF NoRow
  <2>3. BaselinesAgree'
    BY <2>1, <2>2 DEF BreakerScanInv, BaselinesAgree
  <2>4. ClearedAbove'
    BY <2>1 DEF BreakerScanInv, ClearedAbove, BelowTrip
  <2> QED BY <2>3, <2>4 DEF BreakerScanInv
<1>3. ASSUME NEW j \in Jobs, JobStep(j) PROVE BreakerScanInv'
  BY <1>1, <1>2, <1>3, BreakerStepKeeps, UnbrokenSteps, UnbrokenKeeps
<1>4. CASE Restart
  <2>1. restarts' # 0
    BY <1>4 DEF Restart
  <2> QED BY <2>1 DEF BreakerScanInv, BaselinesAgree, ClearedAbove
<1>5. CASE UNCHANGED <<pc, carried, config, bankrollVars, bounds>>
  BY <1>5 DEF carried, bankrollVars, bounds, BreakerScanInv, BaselinesAgree, ClearedAbove, BelowTrip
<1>6. ASSUME Environment, ~Restart PROVE BreakerScanInv'
  BY <1>5, <1>6 DEF Environment, Wallet, Close, Age, Toggle, ToggleStrategy
<1>7. CASE UNCHANGED vars
  BY <1>5, <1>7 DEF vars, world
<1> QED BY <1>3, <1>4, <1>6, <1>7 DEF Next

\* A tick whose wallet had fallen below the trip line of the first baseline fills
\* no candidate, whichever job evaluated the breaker last and whichever upsert
\* landed last.
THEOREM BreakerStops ==
  ASSUME BankrollAssumption, ScanAssumption
  PROVE  Spec => []BreakerHolds
<1>1. Init => TypeOK /\ BreakerScanInv
  BY ScanInitTyped, BreakerInit
<1>2. TypeOK /\ BreakerScanInv /\ [Next]_vars => TypeOK' /\ BreakerScanInv'
  BY ScanTypes, BreakerScanStep
<1>3. TypeOK /\ BreakerScanInv => BreakerHolds
  BY DEF TypeOK, BreakerScanInv, ClearedAbove, BreakerHolds, Cleared
<1> QED BY <1>1, <1>2, <1>3, PTL DEF Spec
=============================================================================
