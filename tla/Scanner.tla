------------------------------ MODULE Scanner ------------------------------
(***************************************************************************)
(* jobs/market_signal_scanner.py, the job that publishes signals: a pass   *)
(* over the markets of the exchange (the edge path) and then, when a token *)
(* is configured, one over the rows of the markets table (the Heisenberg   *)
(* path).  The scheduler never runs two passes at the same time, but the   *)
(* process may stop inside one, and the operator acts beside it.           *)
(*                                                                         *)
(* A candidate is a market and a side; which ones pass the filters of      *)
(* price, liquidity, horizon and edge is the exchange's choice, and so is  *)
(* their order.                                                            *)
(***************************************************************************)
EXTENDS Naturals, FiniteSets

CONSTANTS
  Scanned,
  LiveFeed,  \* LIVE_FEED_ID
  DemoFeed,  \* DEMO_FEED_ID
  Token      \* HEISENBERG_API_TOKEN is set

SignalSides    == {"YES", "NO"}
Outlets  == {LiveFeed, DemoFeed}
Signals  == Scanned \X SignalSides
None     == <<>>

ASSUME ScannerAssumption == Token \in BOOLEAN

VARIABLES
  edge,    \* where the edge path publishes, by SCANNER_DEMO_FEED_ENABLED
  pass,    \* the step of the pass: "idle", "edge", "read", "upsert", "publish",
           \* "heis", "readH", "publishH"
  todo,    \* candidates the current path has left
  now,     \* the candidate in hand, or None
  synced,  \* markets with a row in the table
  fresh,   \* fresh[<<f, c>>] : publications of c on f inside DEDUP_WINDOW_HOURS
  open,    \* feeds whose status is active
  killed   \* the kill switch

scanVars == <<edge, pass, todo, now, synced, fresh, open, killed>>

ScannerTypeOK ==
  /\ edge \in Outlets
  /\ pass \in {"idle", "edge", "read", "upsert", "publish", "heis", "readH", "publishH"}
  /\ todo \subseteq Signals /\ now \in Signals \cup {None}
  /\ synced \subseteq Scanned /\ open \subseteq Outlets /\ killed \in BOOLEAN
  /\ fresh \in [Outlets \X Signals -> 0 .. 2]

ScannerInit ==
  /\ edge \in Outlets
  /\ pass = "idle" /\ todo = {} /\ now = None /\ synced = {}
  /\ fresh = [k \in Outlets \X Signals |-> 0]
  /\ open \in SUBSET Outlets /\ killed = FALSE

\* The filters of the edge path choose at most one side of a market.
EdgeChoices == {S \in SUBSET Signals : \A m \in Scanned : Cardinality({m} \X SignalSides \cap S) <= 1}

Holds(where) == UNCHANGED <<edge, synced, fresh, open, killed>> /\ pass' = where

-----------------------------------------------------------------------------
(* The edge path.                                                          *)

\* run_job: the kill switch and the feed are read once, at the start; the
\* fetch may fail or time out, which leaves nothing to do.
StartPass ==
  /\ pass = "idle" /\ ~killed
  /\ IF edge \in open THEN Holds("edge") /\ todo' \in EdgeChoices
                          ELSE Holds("heis") /\ todo' = {}
  /\ UNCHANGED now

Take ==
  /\ pass = "edge" /\ todo # {} /\ Holds("read")
  /\ \E c \in todo : now' = c /\ todo' = todo \ {c}

\* Mutant of AlreadyPublished: only the live feed is looked at.
AlreadyPublished_Live(feed) == fresh[<<LiveFeed, now>>] > 0
AlreadyPublished(feed)      == fresh[<<feed, now>>] > 0

Read ==
  /\ pass = "read" /\ Holds(IF AlreadyPublished(edge) THEN "edge" ELSE "upsert")
  /\ UNCHANGED <<todo, now>>

\* _upsert_market: without its row the scan could not find the market, so a
\* write that fails skips the candidate.
Upsert ==
  /\ pass = "upsert" /\ UNCHANGED <<edge, todo, now, fresh, open, killed>>
  /\ \/ synced' = synced \cup {now[1]} /\ pass' = "publish"
     \/ UNCHANGED synced /\ pass' = "edge"

\* _publish, or an exception that ends this candidate.
Publishes(feed) == fresh' = [fresh EXCEPT ![<<feed, now>>] = @ + 1]

EdgePublish ==
  /\ pass = "publish" /\ pass' = "edge" /\ UNCHANGED <<edge, todo, now, synced, open, killed>>
  /\ Publishes(edge) \/ UNCHANGED fresh

EdgeEnds    == pass = "edge" /\ todo = {} /\ Holds("heis") /\ now' = None /\ UNCHANGED todo

-----------------------------------------------------------------------------
(* The Heisenberg path.                                                    *)

\* The pass goes on with one of S, or ends.
GoesOn(S) ==
  /\ todo' = S
  /\ IF S = {} THEN Holds("idle") /\ now' = None ELSE Holds("readH") /\ now' \in S

\* Its candidates: the edge and the momentum signal of every market of the
\* table that passes the liquidity screen.
StartHeisenberg ==
  /\ pass = "heis" /\ now = None
  /\ IF Token /\ LiveFeed \in open
     THEN \E S \in SUBSET (synced \X SignalSides) : GoesOn(S)
     ELSE GoesOn({})

\* A candidate that is published already is left alone.
ReadHeisenberg ==
  /\ pass = "readH" /\ UNCHANGED <<todo, now>>
  /\ Holds(IF AlreadyPublished(LiveFeed) THEN "heis" ELSE "publishH")

\* The social agent is asked between the two, and its failure changes nothing;
\* an exception ends what is left of the market.
HeisenbergPublish ==
  /\ pass = "publishH" /\ pass' = "heis" /\ UNCHANGED <<edge, now, synced, open, killed>>
  /\ \/ Publishes(LiveFeed) /\ UNCHANGED todo
     \/ UNCHANGED fresh /\ todo' = {c \in todo : c[1] # now[1]}

HeisenbergTakes ==
  /\ pass = "heis" /\ now # None /\ GoesOn(todo \ {now})

-----------------------------------------------------------------------------
(* Around it.                                                              *)

\* The rest of the system: the market sync adds rows, a publication leaves the
\* window, the operator switches the kill switch or a feed, the process stops.
SyncAdds(m)  == m \notin synced /\ synced' = synced \cup {m}
                /\ UNCHANGED <<edge, pass, todo, now, fresh, open, killed>>
Ages(k)      == fresh[k] > 0 /\ fresh' = [fresh EXCEPT ![k] = @ - 1]
                /\ UNCHANGED <<edge, pass, todo, now, synced, open, killed>>
KillFlips    == killed' = ~killed /\ UNCHANGED <<edge, pass, todo, now, synced, fresh, open>>
FeedFlips(f) == open' = (open \ {f}) \cup ({f} \ open)
                /\ UNCHANGED <<edge, pass, todo, now, synced, fresh, killed>>
Stops        == pass # "idle" /\ Holds("idle") /\ todo' = {} /\ now' = None

ScannerNext ==
  \/ StartPass \/ Take \/ Read \/ Upsert \/ EdgePublish \/ EdgeEnds
  \/ StartHeisenberg \/ ReadHeisenberg \/ HeisenbergPublish \/ HeisenbergTakes
  \/ \E m \in Scanned : SyncAdds(m)
  \/ \E k \in Outlets \X Signals : Ages(k)
  \/ \E f \in Outlets : FeedFlips(f)
  \/ KillFlips \/ Stops

ScannerSpec == ScannerInit /\ [][ScannerNext]_scanVars

-----------------------------------------------------------------------------
(* Properties.                                                             *)

\* market_signal_scanner.py: the two paths, and passes that stop half-way, never
\* put the same side of a market on a feed twice within the window.
PublishedOnce == \A k \in Outlets \X Signals : fresh[k] <= 1

\* market_signal_scanner.py, "skip publish -- signal_scan_job cannot resolve
\* this market": what is published can be looked up in the markets table.
PublishedIsSynced ==
  \A f \in Outlets, c \in Signals : fresh[<<f, c>>] > 0 => c[1] \in synced

\* What is on a feed is there once and can be traded
\* (market_signal_scanner.py:90-182).
PublishedWell == PublishedOnce /\ PublishedIsSynced
=============================================================================
