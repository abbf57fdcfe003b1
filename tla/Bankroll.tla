------------------------------- MODULE Bankroll -------------------------------
(***************************************************************************)
(* The bankroll circuit breaker of one user (signal_scan_job.py): the      *)
(* baseline and the latch that live in dicts of the process, their row in  *)
(* bankroll_circuit_state, and what a restart does to both.                *)
(*                                                                         *)
(* Balances are a few positive numbers; the breaker abstains on any other  *)
(* balance, and the caps of the gate refuse those.  The threshold is 1/2   *)
(* and the hysteresis 1/2, so that the trip line, the resume line and the  *)
(* space between them each hold a balance.                                 *)
(***************************************************************************)
EXTENDS Integers

CONSTANT Balances \* wallets.balance_usdc, positive

ASSUME BankrollAssumption == Balances \subseteq Nat \ {0}

VARIABLES
  baseline, \* _bankroll_ema_baseline, 0 when absent
  latch,    \* _bankroll_circuit_tripped: "absent", "clear", "tripped"
  saved,    \* the row of bankroll_circuit_state; baseline 0 before its INSERT
  first     \* the baseline of the first observation, 0 before (history)

bankrollVars == <<baseline, latch, saved, first>>

BankrollTypeOK ==
  /\ baseline \in Balances \union {0} /\ first \in Balances \union {0}
  /\ latch \in {"absent", "clear", "tripped"}
  /\ saved \in [baseline : Balances \union {0}, tripped : BOOLEAN]

BankrollInit ==
  /\ baseline = 0 /\ latch = "absent" /\ first = 0
  /\ saved = [baseline |-> 0, tripped |-> FALSE]

\* The dicts die with the process, the row stays.
BankrollRestart ==
  /\ baseline' = 0 /\ latch' = "absent"
  /\ UNCHANGED <<saved, first>>

BelowTrip(balance, reference)   == 2 * balance < reference
AboveResume(balance, reference) == 4 * balance > 3 * reference

\* _restore_bankroll_circuit_state: only what this process has not warmed yet.
RestoreDicts ==
  /\ IF saved.baseline = 0 THEN UNCHANGED <<baseline, latch>>
     ELSE /\ baseline' = IF baseline = 0 THEN saved.baseline ELSE baseline
          /\ latch' = IF latch # "absent" THEN latch
                      ELSE IF saved.tripped THEN "tripped" ELSE "clear"
  /\ UNCHANGED <<saved, first>>

\* _persist_bankroll_circuit_state: the values are taken before its await, so
\* the upserts of two jobs may land in either order.
Row == [baseline |-> baseline', tripped |-> latch' = "tripped"]

PersistRow(row) ==
  /\ saved' = row
  /\ UNCHANGED <<baseline, latch, first>>

\* Mutant of Seeded: every tick measures from the balance it has read.
Seeded_Always(balance) == balance

\* _ensure_bankroll_baseline_seeded.
Seeded(balance) == IF baseline = 0 THEN balance ELSE baseline

\* _evaluate_bankroll_circuit_breaker: trip below the trip line, resume above
\* the resume line, hold in between.
Latched(balance, reference) ==
  IF latch = "tripped" THEN IF AboveResume(balance, reference) THEN "clear" ELSE "tripped"
  ELSE IF BelowTrip(balance, reference) THEN "tripped" ELSE latch

\* Step 0a of a candidate, up to the first await.
Evaluate(balance) ==
  /\ baseline' = Seeded(balance)
  /\ latch' = Latched(balance, Seeded(balance))
  /\ first' = IF first = 0 THEN balance ELSE first
  /\ UNCHANGED saved

\* A seed or a flip of the latch is persisted.
Transition == baseline' # baseline \/ (latch' = "tripped") # (latch = "tripped")
=============================================================================
