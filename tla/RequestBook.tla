----------------------------- MODULE RequestBook -----------------------------
(***************************************************************************)
(* What a withdrawal promises its user, with every task, the operator and  *)
(* the chain left out.  Asking takes one unit from the balance; then the   *)
(* request is either given back or paid, never both and never twice, and   *)
(* what is paid was approved.  Only what was paid is recorded as such.     *)
(***************************************************************************)
EXTENDS Integers

CONSTANTS Requests, Funds

VARIABLES
  phase,    \* phase[r] : "none", "pending", "approved", "returned", "paid" or "recorded"
  balance,  \* what the user may still spend
  received  \* received[r] : units that reached the destination

bookVars == <<phase, balance, received>>

Init ==
  /\ phase = [r \in Requests |-> "none"]
  /\ balance = Funds
  /\ received = [r \in Requests |-> 0]

Move(r, from, to) == phase[r] = from /\ phase' = [phase EXCEPT ![r] = to]

Ask(r) ==
  /\ \E to \in {"pending", "approved"} : Move(r, "none", to)
  /\ balance' = balance - 1
  /\ UNCHANGED received

Approve(r) == Move(r, "pending", "approved") /\ UNCHANGED <<balance, received>>

Return(r) ==
  /\ \E from \in {"pending", "approved"} : Move(r, from, "returned")
  /\ balance' = balance + 1
  /\ UNCHANGED received

Pay(r) ==
  /\ Move(r, "approved", "paid")
  /\ received' = [received EXCEPT ![r] = @ + 1]
  /\ UNCHANGED balance

Record(r) == Move(r, "paid", "recorded") /\ UNCHANGED <<balance, received>>

Next == \E r \in Requests : Ask(r) \/ Approve(r) \/ Return(r) \/ Pay(r) \/ Record(r)

Spec == Init /\ [][Next]_bookVars
=============================================================================
