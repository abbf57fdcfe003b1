------------------------------ MODULE StakeBook ------------------------------
(***************************************************************************)
(* What the position ledger promises, with every actor left out.  A stake  *)
(* is first placed, then held, then settled: once, and for good.  The      *)
(* settling step is the only one that may pay the user, it pays at most    *)
(* one credit, and the credit and the change of state are one step.        *)
(***************************************************************************)
EXTENDS Naturals

CONSTANT Stakes

VARIABLES
  phase,  \* phase[s] : "none", "held" or "settled"
  paid    \* paid[s]  : credits posted to the user's wallet for stake s

stakeVars == <<phase, paid>>

Phases == {"none", "held", "settled"}

Init ==
  /\ phase \in [Stakes -> {"none", "held"}]
  /\ paid = [s \in Stakes |-> 0]

Place(s) ==
  /\ phase[s] = "none"
  /\ phase' = [phase EXCEPT ![s] = "held"]
  /\ UNCHANGED paid

Settle(s) ==
  /\ phase[s] = "held"
  /\ phase' = [phase EXCEPT ![s] = "settled"]
  /\ \E n \in {0, 1} : paid' = [paid EXCEPT ![s] = @ + n]

Next == \E s \in Stakes : Place(s) \/ Settle(s)

Spec == Init /\ [][Next]_stakeVars
=============================================================================
