------------------------------- MODULE MCMoney -------------------------------
(***************************************************************************)
(* Small instances for TLC of Deposits, Withdrawals and Accounts, which    *)
(* share no state: a behaviour runs one of them, the scope, and the others *)
(* stay as they start.                                                     *)
(***************************************************************************)
EXTENDS Deposits, Withdrawals, Accounts

CONSTANTS t1, t2, r1, r2, r3, anna, ben, mail, other, bot1, bot2, web1, web2,
  Scopes,   \* the components this instance runs
  Troubles  \* bound: faults, restarts and reorganisations of a behaviour

VARIABLE scope

\* Two people and the codes of one account; one person who comes by every
\* way, with faults; the emails of one person.
AccountPlans ==
  [serial : BOOLEAN, ops : {{"register", "generate", "redeem"}}, staff : {Tasks},
   ids : {{anna, ben, mail}}, troubled : {FALSE}, codes : {2}]
  \cup [serial : {TRUE}, ops : {{"upsert", "register", "generate", "redeem", "trade"}},
        staff : {{web1, bot1}}, ids : {{anna, mail}}, troubled : {TRUE},
        codes : {1}]
  \cup [serial : {TRUE}, ops : {{"upsert", "register", "login", "linkEmail"}},
        staff : {{web1, web2, bot1}}, ids : {{anna, mail}}, troubled : {FALSE}, codes : {0}]

MoneyInit ==
  /\ scope \in Scopes
  /\ DepositsInit /\ Init /\ AccountsInit
  /\ scope # "withdrawals" => polling
  /\ scope # "accounts" => plan = CHOOSE p \in Plans : TRUE

MoneyNext ==
  /\ UNCHANGED scope
  /\ \/ scope = "deposits" /\ DepositsNext /\ UNCHANGED <<vars, accountVars>>
        /\ reorgs' + rpcFaults' + watchRestarts' <= Troubles
     \/ scope = "withdrawals" /\ Next /\ UNCHANGED <<depositVars, accountVars>>
        /\ faults' + restarts' <= Troubles
        /\ (~polling => \A r \in Web : pc'[r] = "idle")
     \/ scope = "accounts" /\ AccountsNext /\ UNCHANGED <<depositVars, vars>>

\* The fairness of the two specifications, each in its own scope.
MoneyFairness ==
  /\ WF_depositVars(scope = "deposits" /\ WatchStep)
  /\ WF_depositVars(scope = "deposits" /\ NewBlock)
  /\ \A r \in Requests : /\ WF_vars(scope = "withdrawals" /\ TaskStep(r))
                         /\ WF_vars(scope = "withdrawals" /\ Mine(r))

MoneySpec == MoneyInit /\ [][MoneyNext]_<<depositVars, vars, accountVars, scope>> /\ MoneyFairness
=============================================================================
