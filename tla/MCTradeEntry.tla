---------------------------- MODULE MCTradeEntry ----------------------------
(***************************************************************************)
(* Small instances for TLC of the two ends of a position: how two scans    *)
(* enter it (TradeEntry), and how the closers and the redemption leave a   *)
(* live one (Settlement).  They share no state; a behaviour runs one of    *)
(* them, the scope, and the other stays as it starts.                      *)
(***************************************************************************)
EXTENDS TradeEntry, Settlement, TLC

CONSTANT Scopes  \* the components this instance runs

VARIABLE scope

endsVars == <<entryVars, vars, scope>>

BothEnds  == {"entry", "settlement"}
EntryOnly == {"entry"}

\* The operator's commands of each run.
KillOnly     == {"kill"}
KillAndReset == {"kill", "reset"}

JobSymmetry == Permutations(Jobs)

EndsInit == scope \in Scopes /\ EntryInit /\ Init

EndsNext ==
  /\ UNCHANGED scope
  /\ \/ scope = "entry" /\ EntryNext /\ UNCHANGED vars
     \/ scope = "settlement" /\ Next /\ UNCHANGED entryVars

EndsSpec == EndsInit /\ [][EndsNext]_endsVars
=============================================================================
