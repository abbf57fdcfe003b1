-------------------------- MODULE TradeEntry_proofs --------------------------
(***************************************************************************)
(* Theorems about TradeEntry, for every set of jobs, markets, sides and    *)
(* operator's commands, and for every number of faults and restarts.       *)
(***************************************************************************)
EXTENDS TradeEntry, TLAPS

\* Job j holds the claim on key k: it has inserted the order and not yet left it.
Claiming == {"submit", "refused", "unknown", "persist"}
Holds(j, k) == cand[j] = k /\ pc[j] \in Claiming

\* One job at a time holds the claim on a key.
OneHolder ==
  \A k \in Keys : \A i, j \in Jobs : Holds(i, k) /\ Holds(j, k) => i = j

\* What the row of a key says of what was bought for it.
RowTells(k) ==
  /\ order[k] = "none" => buys[k] = 0 /\ position[k] = "none"
  /\ order[k] = "filled" => buys[k] = 0
  /\ order[k] = "submitted" => position[k] # "none"
  /\ order[k] = "failed" /\ k \notin hidden => buys[k] = 0
  /\ position[k] = "paper" => buys[k] = 0
  /\ buys[k] \in {0, 1}

\* While its holder works on it: the row is the one it inserted, perhaps cancelled by
\* the operator meanwhile, and there is no position.
HolderTells(j, k) ==
  Holds(j, k) =>
    /\ order[k] \in {"pending", "cancelled"} /\ position[k] = "none"
    /\ pc[j] = "submit" => buys[k] = 0
    /\ pc[j] = "refused" /\ k \notin hidden => buys[k] = 0

\* The inductive invariant.
EntryInv ==
  /\ EntryTypeOK
  /\ OneHolder
  /\ \A k \in Keys : RowTells(k)
  /\ \A k \in Keys : \A j \in Jobs : HolderTells(j, k)

LEMMA EntryInitHolds ==
  ASSUME SwitchAssumption, EntryAssumption, EntryInit
  PROVE  EntryInv
<1>1. Keys # {}
  <2>1. PICK m \in Markets, s \in Sides : TRUE
    BY DEF EntryAssumption
  <2>2. <<m, s>> \in Keys
    BY DEF Keys
  <2> QED BY <2>2
<1>2. EntryTypeOK
  <2>1. SwitchTypeOK
    BY DEF EntryInit, SwitchInit, ColdCache, SwitchTypeOK
  <2>2. cand \in [Jobs -> Keys]
    BY <1>1 DEF EntryInit
  <2> QED BY <2>1, <2>2 DEF EntryAssumption, EntryInit, EntryTypeOK
<1> QED BY <1>2 DEF EntryInv, EntryInit, OneHolder, Holds, Claiming, RowTells, HolderTells

-----------------------------------------------------------------------------
(* The switch.                                                             *)

\* A step of the switch that TradeEntry takes, alone or with a job.
SwitchStep ==
  \/ \E r \in Readers : Acquire(r) \/ Fetch(r) \/ Store(r) \/ FetchFails(r)
  \/ CacheExpires \/ Invalidate \/ CancelTried \/ SetFlag \/ SetFlagFails
  \/ \E c \in Commands : SetActive(c) \/ SetActiveFails(c)
  \/ DisableAuto \/ EnableAuto \/ EnableLive \/ FlipToPaper
  \/ SwitchRestart \/ UNCHANGED switchVars

LEMMA SwitchKeeps ==
  ASSUME SwitchAssumption, SwitchTypeOK, SwitchStep
  PROVE  SwitchTypeOK'
<1> USE DEF SwitchTypeOK, userSwitches, cacheVars, switchVars
<1>1. ASSUME NEW r \in Readers, Acquire(r) \/ Fetch(r) \/ Store(r) \/ FetchFails(r)
      PROVE  SwitchTypeOK'
  BY <1>1 DEF Acquire, Fetch, Store, FetchFails
<1>2. CASE CacheExpires \/ Invalidate \/ CancelTried \/ SetFlagFails
  BY <1>2 DEF CacheExpires, Invalidate, CancelTried, SetFlagFails
<1>3. CASE SetFlag
  BY <1>3 DEF SetFlag
<1>4. ASSUME NEW c \in Commands, SetActive(c)
      PROVE  SwitchTypeOK'
  <2>1. flag' \in BOOLEAN
    <3>1. CASE c \in {"pause", "lock", "kill"}
      BY <1>4, <3>1 DEF SetActive
    <3>2. CASE c \notin {"pause", "lock", "kill"}
      BY <1>4, <3>2 DEF SetActive
    <3> QED BY <3>1, <3>2
  <2>2. autoOn' \in BOOLEAN /\ liveOn' \in BOOLEAN
    <3>1. CASE c = "lock"
      BY <1>4, <3>1 DEF SetActive
    <3>2. CASE c # "lock"
      BY <1>4, <3>2 DEF SetActive
    <3> QED BY <3>1, <3>2
  <2>3. op' \in {"idle", "invalidate", "kill", "reset", "cancel", "raise", "clear"}
    BY <1>4 DEF SetActive
  <2> QED BY <1>4, <2>1, <2>2, <2>3 DEF SetActive
<1>5. ASSUME NEW c \in Commands, SetActiveFails(c)
      PROVE  SwitchTypeOK'
  BY <1>5 DEF SetActiveFails
<1>6. CASE DisableAuto \/ EnableAuto \/ EnableLive \/ FlipToPaper
  BY <1>6 DEF DisableAuto, EnableAuto, EnableLive, FlipToPaper
<1>7. CASE SwitchRestart \/ UNCHANGED switchVars
  BY <1>7 DEF SwitchRestart
<1> QED BY <1>1, <1>2, <1>3, <1>4, <1>5, <1>6, <1>7 DEF SwitchStep

-----------------------------------------------------------------------------
(* The types of the rows and of the jobs.                                  *)

\* Every step of a job moves it to a place of its own, and the switch as above.
LEMMA JobSwitch ==
  ASSUME NEW j \in Jobs,
         Tick(j) \/ EndTick(j) \/ (\E k \in Keys : Pick(j, k)) \/ GateRefuses(j)
         \/ JobGoesOn(j) \/ JobFails(j)
  PROVE  SwitchStep
<1> USE DEF SwitchStep, Jobs, switchVars, cacheVars, userSwitches
<1>1. CASE AskSwitch(j)
  BY <1>1 DEF AskSwitch
<1>2. CASE AskSwitchFails(j)
  BY <1>2 DEF AskSwitchFails
<1>3. CASE FlipUsers(j)
  BY <1>3 DEF FlipUsers
<1>4. CASE JobGoesOn(j) /\ ~AskSwitch(j) /\ ~FlipUsers(j)
  BY <1>4 DEF JobGoesOn, CheckOpen, CheckDedup, RecordIdem, Precheck, ClaimOrder,
     SubmitAccepted, MarkFailed, MarkUnknown, Persist, PaperFill
<1>5. CASE JobFails(j) /\ ~AskSwitchFails(j)
  BY <1>5 DEF JobFails, CheckOpenFails, PreSubmitFails, SubmitRefused, SubmitAmbiguous,
     PersistFails, StatementFails
<1>6. CASE Tick(j) \/ EndTick(j) \/ (\E k \in Keys : Pick(j, k)) \/ GateRefuses(j)
  BY <1>6 DEF Tick, EndTick, Pick, GateRefuses
<1> QED BY <1>1, <1>2, <1>3, <1>4, <1>5, <1>6

\* The steps outside the jobs.
WorldStep ==
  \/ OperatorCommands \/ OperatorGoesOn \/ OperatorFails \/ UserSwitches
  \/ CacheAges \/ (\E k \in Keys : OrderAges(k) \/ IdemAges(k))
  \/ Restart

LEMMA WorldSwitch ==
  ASSUME WorldStep
  PROVE  SwitchStep
BY DEF WorldStep, SwitchStep, OperatorCommands, OperatorGoesOn, CancelPending, OperatorFails,
   UserSwitches, CacheAges, OrderAges, IdemAges, Restart, switchVars, cacheVars, userSwitches

LEMMA WorldTypes ==
  ASSUME SwitchAssumption, EntryAssumption, EntryTypeOK, WorldStep
  PROVE  EntryTypeOK'
<1> USE DEF EntryTypeOK, jobVars, tableVars, broker, bounds
<1>1. SwitchTypeOK'
  BY SwitchKeeps, WorldSwitch
<1>2. CASE OperatorCommands \/ UserSwitches \/ CacheAges
  BY <1>1, <1>2 DEF OperatorCommands, UserSwitches, CacheAges
<1>3. CASE OperatorGoesOn
  BY <1>1, <1>3 DEF OperatorGoesOn, CancelPending
<1>4. CASE OperatorFails
  BY <1>1, <1>4 DEF OperatorFails, EntryFault, EntryAssumption
<1>5. ASSUME NEW k \in Keys, OrderAges(k) \/ IdemAges(k)
      PROVE  EntryTypeOK'
  BY <1>1, <1>5 DEF OrderAges, IdemAges
<1>6. CASE Restart
  BY <1>1, <1>6 DEF Restart, EntryAssumption
<1> QED BY <1>2, <1>3, <1>4, <1>5, <1>6 DEF WorldStep

LEMMA JobTypes ==
  ASSUME SwitchAssumption, EntryAssumption, EntryTypeOK, NEW j \in Jobs,
         Tick(j) \/ EndTick(j) \/ (\E k \in Keys : Pick(j, k)) \/ GateRefuses(j)
         \/ JobGoesOn(j) \/ JobFails(j)
  PROVE  EntryTypeOK'
<1> USE DEF EntryTypeOK, jobVars, tableVars, broker, bounds, AskerVars, Go, EntryFault,
            EntryAssumption
<1>0. SwitchTypeOK'
  BY SwitchKeeps, JobSwitch
<1>1. liveOn \in BOOLEAN /\ cand[j] \in Keys
  BY DEF SwitchTypeOK
<1>2. CASE Tick(j) \/ EndTick(j) \/ GateRefuses(j)
  BY <1>0, <1>1, <1>2 DEF Tick, EndTick, GateRefuses
<1>3. ASSUME NEW k \in Keys, Pick(j, k)
      PROVE  EntryTypeOK'
  BY <1>0, <1>3 DEF Pick
<1>4. CASE CheckOpen(j) \/ CheckOpenFails(j) \/ CheckDedup(j) \/ Precheck(j)
           \/ PreSubmitFails(j) \/ PersistFails(j) \/ FlipUsers(j) \/ StatementFails(j)
  BY <1>0, <1>4 DEF CheckOpen, CheckOpenFails, CheckDedup, Precheck, PreSubmitFails,
     PersistFails, FlipUsers, StatementFails
<1>5. CASE AskSwitch(j) \/ AskSwitchFails(j)
  BY <1>0, <1>5 DEF AskSwitch, AskSwitchFails, Answered
<1>6. CASE RecordIdem(j)
  BY <1>0, <1>1, <1>6 DEF RecordIdem
<1>7. CASE ClaimOrder(j)
  <2>1. /\ pc' \in {[pc EXCEPT ![j] = "submit"], [pc EXCEPT ![j] = "pick"]}
        /\ order' \in {[order EXCEPT ![cand[j]] = "pending"], order}
        /\ recent' \in {[recent EXCEPT ![cand[j]] = TRUE], recent}
        /\ UNCHANGED <<switchVars, cand, wantLive, idem, position, broker, bounds>>
    BY <1>7 DEF ClaimOrder, Inserted, SetOrder
  <2>2. recent' \in [Keys -> BOOLEAN]
    BY <1>1, <2>1
  <2>3. order' \in [Keys -> {"none", "pending", "submitted", "failed", "unknown",
                            "cancelled", "filled"}]
    BY <1>1, <2>1
  <2> QED BY <1>0, <1>1, <2>1, <2>2, <2>3
<1>8. CASE SubmitAccepted(j) \/ SubmitRefused(j) \/ SubmitAmbiguous(j)
  BY <1>0, <1>1, <1>8 DEF SubmitAccepted, SubmitRefused, SubmitAmbiguous, Bought
<1>9. CASE MarkFailed(j) \/ MarkUnknown(j) \/ Persist(j)
  BY <1>0, <1>1, <1>9 DEF MarkFailed, MarkUnknown, Persist, SetOrder
<1>10. CASE PaperFill(j)
  BY <1>0, <1>1, <1>10 DEF PaperFill, Inserted, SetOrder
<1> QED BY <1>2, <1>3, <1>4, <1>5, <1>6, <1>7, <1>8, <1>9, <1>10 DEF JobGoesOn, JobFails

-----------------------------------------------------------------------------
(* The claims and the rows.                                                *)

Safe == OneHolder /\ \A k \in Keys : RowTells(k) /\ \A j \in Jobs : HolderTells(j, k)

\* A holder after the step held the claim before it, at the same place.
NoNewHolder ==
  \A j \in Jobs, k \in Keys : Holds(j, k)' => Holds(j, k) /\ pc'[j] = pc[j]

\* What is bought, and in which rows, is only changed by the engines.
LEMMA AskingKeeps ==
  ASSUME EntryInv, NoNewHolder, UNCHANGED <<order, position, buys, hidden>>
  PROVE  Safe'
BY DEF EntryInv, Safe, NoNewHolder, OneHolder, RowTells, HolderTells

LEMMA WorldSafe ==
  ASSUME EntryInv, WorldStep
  PROVE  Safe'
<1> USE DEF jobVars, tableVars, broker, bounds
<1>1. CASE CancelPending
  <2>1. /\ order' = [k \in Keys |-> IF order[k] = "pending" THEN "cancelled" ELSE order[k]]
        /\ UNCHANGED <<pc, cand, position, buys, hidden>>
    BY <1>1 DEF CancelPending
  <2>2. \A j \in Jobs, k \in Keys : Holds(j, k)' <=> Holds(j, k)
    BY <2>1 DEF Holds
  <2>3. \A k \in Keys : RowTells(k)'
    BY <2>1 DEF EntryInv, RowTells
  <2>4. \A k \in Keys : \A j \in Jobs : HolderTells(j, k)'
    BY <2>1, <2>2 DEF EntryInv, HolderTells
  <2>5. OneHolder'
    BY <2>2 DEF EntryInv, OneHolder
  <2> QED BY <2>3, <2>4, <2>5 DEF Safe
<1>2. CASE Restart
  <2>1. NoNewHolder
    BY <1>2 DEF Restart, NoNewHolder, Holds, Claiming
  <2> QED BY <1>2, <2>1, AskingKeeps DEF Restart
<1>3. CASE ~CancelPending /\ ~Restart
  <2>1. UNCHANGED <<pc, cand, order, position, buys, hidden>>
    BY <1>3 DEF WorldStep, OperatorCommands, OperatorGoesOn, OperatorFails, UserSwitches,
       CacheAges, OrderAges, IdemAges
  <2>2. NoNewHolder
    BY <2>1 DEF NoNewHolder, Holds
  <2> QED BY <2>1, <2>2, AskingKeeps
<1> QED BY <1>1, <1>2, <1>3

\* The steps of a job that neither buy nor write a row.
JobAsks(j) ==
  \/ Tick(j) \/ EndTick(j) \/ (\E k \in Keys : Pick(j, k)) \/ GateRefuses(j)
  \/ CheckOpen(j) \/ AskSwitch(j) \/ CheckDedup(j) \/ RecordIdem(j) \/ Precheck(j)
  \/ FlipUsers(j) \/ CheckOpenFails(j) \/ AskSwitchFails(j) \/ PreSubmitFails(j)
  \/ PersistFails(j) \/ StatementFails(j)

LEMMA JobAsksSafe ==
  ASSUME EntryInv, NEW j \in Jobs, JobAsks(j)
  PROVE  Safe'
<1>1. UNCHANGED <<order, position, buys, hidden>>
  BY DEF JobAsks, Tick, EndTick, Pick, GateRefuses, CheckOpen, AskSwitch, CheckDedup,
     RecordIdem, Precheck, FlipUsers, CheckOpenFails, AskSwitchFails, PreSubmitFails,
     PersistFails, StatementFails, AskerVars, tableVars, broker
<1>2. /\ \A i \in Jobs \ {j} : pc'[i] = pc[i] /\ cand'[i] = cand[i]
      /\ (pc'[j] = pc[j] /\ cand'[j] = cand[j]) \/ pc'[j] \notin Claiming
  <2> USE DEF EntryInv, EntryTypeOK, AskerVars, Go, Claiming
  <2>1. CASE Tick(j) \/ EndTick(j) \/ (\E k \in Keys : Pick(j, k)) \/ GateRefuses(j)
    BY <2>1 DEF Tick, EndTick, Pick, GateRefuses
  <2>2. CASE AskSwitch(j) \/ AskSwitchFails(j)
    BY <2>2 DEF AskSwitch, AskSwitchFails, Answered
  <2>3. CASE CheckOpen(j) \/ CheckDedup(j) \/ RecordIdem(j) \/ Precheck(j) \/ FlipUsers(j)
    BY <2>3 DEF CheckOpen, CheckDedup, RecordIdem, Precheck, FlipUsers
  <2>4. CASE CheckOpenFails(j) \/ PreSubmitFails(j) \/ PersistFails(j) \/ StatementFails(j)
    BY <2>4 DEF CheckOpenFails, PreSubmitFails, PersistFails, StatementFails
  <2> QED BY <2>1, <2>2, <2>3, <2>4 DEF JobAsks
<1>3. NoNewHolder
  BY <1>2 DEF NoNewHolder, Holds
<1> QED BY <1>1, <1>3, AskingKeeps

-----------------------------------------------------------------------------
(* The engines: a step of job j that is about its candidate.               *)

\* Only the entries of that key, and only j, change.
Touches(j) ==
  /\ \A k \in Keys \ {cand[j]} :
       /\ order'[k] = order[k] /\ position'[k] = position[k] /\ buys'[k] = buys[k]
       /\ k \in hidden' <=> k \in hidden
  /\ \A i \in Jobs \ {j} : pc'[i] = pc[i]
  /\ UNCHANGED cand

LEMMA TouchesOne ==
  ASSUME EntryInv, NEW j \in Jobs, Touches(j), RowTells(cand[j])',
         pc'[j] \in Claiming => HolderTells(j, cand[j])'
                                /\ \A i \in Jobs \ {j} : ~Holds(i, cand[j]),
         pc'[j] \notin Claiming => \A i \in Jobs \ {j} : HolderTells(i, cand[j])'
  PROVE  Safe'
<1> DEFINE k == cand[j]
<1>1. \A i \in Jobs \ {j} : \A l \in Keys : Holds(i, l)' <=> Holds(i, l)
  BY DEF Touches, Holds
<1>2. \A l \in Keys : Holds(j, l)' => l = k /\ pc'[j] \in Claiming
  BY DEF Touches, Holds
<1>3. OneHolder'
  BY <1>1, <1>2 DEF EntryInv, OneHolder
<1>4. \A l \in Keys : RowTells(l)'
  BY DEF EntryInv, RowTells, Touches
<1>5. \A l \in Keys \ {k} : \A i \in Jobs : HolderTells(i, l)'
  BY <1>1, <1>2 DEF EntryInv, HolderTells, Touches
<1>6. \A i \in Jobs : HolderTells(i, k)'
  <2>1. CASE pc'[j] \in Claiming
    <3>1. \A i \in Jobs \ {j} : ~Holds(i, k)'
      BY <2>1 DEF Touches, Holds
    <3> QED BY <2>1, <3>1 DEF HolderTells
  <2>2. CASE pc'[j] \notin Claiming
    <3>1. ~Holds(j, k)'
      BY <2>2 DEF Touches, Holds
    <3> QED BY <2>2, <3>1 DEF HolderTells
  <2> QED BY <2>1, <2>2
<1> QED BY <1>3, <1>4, <1>5, <1>6 DEF Safe, Touches

\* The claim is only taken on a key that has no order yet, so nobody else holds it.
LEMMA ClaimSafe ==
  ASSUME EntryInv, NEW j \in Jobs, ClaimOrder(j)
  PROVE  Safe'
<1> DEFINE k == cand[j]
<1> USE DEF EntryInv, EntryTypeOK, Go
<1>1. k \in Keys
  OBVIOUS
<1>2. CASE order[k] = "none"
  <2>1. /\ pc' = [pc EXCEPT ![j] = "submit"] /\ order' = [order EXCEPT ![k] = "pending"]
        /\ UNCHANGED <<cand, position, buys, hidden>>
    BY <1>2 DEF ClaimOrder, Inserted, SetOrder, broker
  <2>2. \A i \in Jobs : ~Holds(i, k)
    BY <1>1, <1>2 DEF HolderTells
  <2>3. Touches(j) /\ pc'[j] = "submit"
    BY <1>1, <2>1 DEF Touches
  <2>4. RowTells(k)'
    BY <1>1, <1>2, <2>1 DEF RowTells
  <2>5. HolderTells(j, k)'
    BY <1>1, <1>2, <2>1 DEF RowTells, HolderTells
  <2>6. pc'[j] \in Claiming
    BY <2>3 DEF Claiming
  <2> HIDE DEF EntryInv, EntryTypeOK, Go
  <2> QED BY <2>2, <2>3, <2>4, <2>5, <2>6, TouchesOne
<1>3. CASE order[k] # "none"
  <2>1. /\ pc' = [pc EXCEPT ![j] = "pick"] /\ UNCHANGED <<cand, order, position, buys, hidden>>
    BY <1>3 DEF ClaimOrder, Inserted, broker
  <2>2. NoNewHolder
    BY <2>1 DEF NoNewHolder, Holds, Claiming
  <2> QED BY <2>1, <2>2, AskingKeeps
<1> QED BY <1>2, <1>3

\* The holder of a claim acts on its own row.
LEMMA HolderAlone ==
  ASSUME EntryInv, NEW j \in Jobs, pc[j] \in Claiming
  PROVE  /\ cand[j] \in Keys /\ RowTells(cand[j]) /\ HolderTells(j, cand[j])
         /\ Holds(j, cand[j]) /\ \A i \in Jobs \ {j} : ~Holds(i, cand[j])
BY DEF EntryInv, EntryTypeOK, OneHolder, Holds

LEMMA SubmitSafe ==
  ASSUME EntryInv, NEW j \in Jobs,
         SubmitAccepted(j) \/ SubmitRefused(j) \/ SubmitAmbiguous(j)
  PROVE  Safe'
<1> DEFINE k == cand[j]
<1>1. pc[j] = "submit"
  BY DEF SubmitAccepted, SubmitRefused, SubmitAmbiguous, Go
<1>2. /\ k \in Keys /\ RowTells(k) /\ HolderTells(j, k) /\ Holds(j, k)
      /\ \A i \in Jobs \ {j} : ~Holds(i, k)
  BY <1>1, HolderAlone DEF Claiming
<1>3. buys[k] = 0 /\ order[k] \in {"pending", "cancelled"} /\ position[k] = "none"
  BY <1>1, <1>2 DEF HolderTells
<1>4. /\ \E to \in {"persist", "refused", "unknown"} : pc' = [pc EXCEPT ![j] = to]
      /\ buys' = buys \/ buys' = [buys EXCEPT ![k] = @ + 1]
      /\ hidden' = hidden \/ hidden' = hidden \cup {k}
      /\ UNCHANGED <<cand, order, position>>
  BY DEF SubmitAccepted, SubmitRefused, SubmitAmbiguous, Go, Bought, broker, tableVars
<1>5. pc'[j] \in {"persist", "refused", "unknown"}
      /\ (pc'[j] = "refused" => buys'[k] = 0 \/ k \in hidden')
  BY <1>2, <1>3 DEF SubmitAccepted, SubmitRefused, SubmitAmbiguous, Go, broker, EntryInv,
     EntryTypeOK
<1>6. Touches(j)
  BY <1>4 DEF Touches, EntryInv, EntryTypeOK
<1>7. buys'[k] \in {0, 1}
  BY <1>2, <1>3, <1>4 DEF EntryInv, EntryTypeOK
<1>8. RowTells(k)'
  BY <1>3, <1>4, <1>7 DEF RowTells
<1>9. HolderTells(j, k)'
  BY <1>3, <1>4, <1>5 DEF HolderTells
<1> QED BY <1>2, <1>5, <1>6, <1>8, <1>9, TouchesOne DEF Claiming

\* What is left behind when the claim is given up.
LEMMA LeaveSafe ==
  ASSUME EntryInv, NEW j \in Jobs, MarkFailed(j) \/ MarkUnknown(j) \/ Persist(j)
  PROVE  Safe'
<1> DEFINE k == cand[j]
<1>1. pc[j] \in {"refused", "unknown", "persist"}
  BY DEF MarkFailed, MarkUnknown, Persist, Go
<1>2. /\ k \in Keys /\ RowTells(k) /\ HolderTells(j, k) /\ Holds(j, k)
      /\ \A i \in Jobs \ {j} : ~Holds(i, k)
  BY <1>1, HolderAlone DEF Claiming
<1>3. UNCHANGED <<cand, buys, hidden>> /\ pc'[j] \notin Claiming
      /\ \A i \in Jobs \ {j} : pc'[i] = pc[i]
  BY DEF MarkFailed, MarkUnknown, Persist, Go, broker, Claiming, EntryInv, EntryTypeOK
<1>4. Touches(j)
  BY <1>3 DEF Touches, MarkFailed, MarkUnknown, Persist, SetOrder, EntryInv, EntryTypeOK
<1>5. RowTells(k)'
  <2>1. CASE MarkFailed(j)
    <3>1. /\ order'[k] = "failed" /\ UNCHANGED <<position, buys, hidden>>
      BY <1>2, <2>1 DEF MarkFailed, SetOrder, EntryInv, EntryTypeOK, broker
    <3> QED BY <1>2, <1>3, <2>1, <3>1 DEF MarkFailed, Go, RowTells, HolderTells
  <2>2. CASE MarkUnknown(j)
    <3>1. /\ order'[k] = "unknown" /\ UNCHANGED <<position, buys, hidden>>
      BY <1>2, <2>2 DEF MarkUnknown, SetOrder, EntryInv, EntryTypeOK, broker
    <3> QED BY <1>2, <1>3, <3>1 DEF RowTells, HolderTells
  <2>3. CASE Persist(j)
    <3>1. /\ order'[k] = "submitted" /\ position'[k] = "live" /\ UNCHANGED <<buys, hidden>>
      BY <1>2, <2>3 DEF Persist, SetOrder, EntryInv, EntryTypeOK, broker
    <3> QED BY <1>2, <1>3, <3>1 DEF RowTells, HolderTells
  <2> QED BY <2>1, <2>2, <2>3
<1>6. \A i \in Jobs \ {j} : ~Holds(i, k)'
  BY <1>2, <1>3 DEF Holds
<1>7. \A i \in Jobs \ {j} : HolderTells(i, k)'
  BY <1>6 DEF HolderTells
<1> QED BY <1>3, <1>4, <1>5, <1>7, TouchesOne

\* The paper engine, which the live one falls back to, finds the claim of a live
\* attempt in its way.
LEMMA PaperSafe ==
  ASSUME EntryInv, NEW j \in Jobs, PaperFill(j)
  PROVE  Safe'
<1> DEFINE k == cand[j]
<1>1. /\ k \in Keys /\ RowTells(k) /\ \A i \in Jobs : HolderTells(i, k)
  BY DEF EntryInv, EntryTypeOK
<1>2. /\ pc'[j] \notin Claiming /\ UNCHANGED <<cand, buys, hidden>>
      /\ \A i \in Jobs \ {j} : pc'[i] = pc[i]
  BY DEF PaperFill, Go, broker, Claiming, EntryInv, EntryTypeOK
<1>3. Touches(j)
  BY <1>2 DEF Touches, PaperFill, Inserted, SetOrder, EntryInv, EntryTypeOK
<1>4. CASE order[k] = "none"
  <2>1. order'[k] = "filled" /\ position'[k] = "paper"
    BY <1>1, <1>4 DEF PaperFill, Inserted, SetOrder, EntryInv, EntryTypeOK
  <2>2. RowTells(k)'
    BY <1>1, <1>2, <1>4, <2>1 DEF RowTells
  <2>3. \A i \in Jobs \ {j} : ~Holds(i, k)
    BY <1>1, <1>4 DEF HolderTells
  <2>4. \A i \in Jobs \ {j} : HolderTells(i, k)'
    BY <1>2, <2>3 DEF HolderTells, Holds
  <2> QED BY <1>2, <1>3, <2>2, <2>4, TouchesOne
<1>5. CASE order[k] # "none"
  <2>1. UNCHANGED <<order, position>>
    BY <1>5 DEF PaperFill
  <2>2. NoNewHolder
    BY <1>2 DEF NoNewHolder, Holds
  <2> QED BY <1>2, <2>1, <2>2, AskingKeeps
<1> QED BY <1>4, <1>5

-----------------------------------------------------------------------------

LEMMA EntryStepKeeps ==
  ASSUME SwitchAssumption, EntryAssumption, EntryInv, [EntryNext]_entryVars
  PROVE  EntryInv'
<1>1. ASSUME NEW j \in Jobs,
             Tick(j) \/ EndTick(j) \/ (\E k \in Keys : Pick(j, k)) \/ GateRefuses(j)
             \/ JobGoesOn(j) \/ JobFails(j)
      PROVE  EntryInv'
  <2>1. EntryTypeOK'
    BY <1>1, JobTypes DEF EntryInv
  <2>2. Safe'
    BY <1>1, JobAsksSafe, ClaimSafe, SubmitSafe, LeaveSafe, PaperSafe
       DEF JobAsks, JobGoesOn, JobFails
  <2> QED BY <2>1, <2>2 DEF EntryInv, Safe
<1>2. CASE WorldStep
  BY <1>2, WorldTypes, WorldSafe DEF EntryInv, Safe
<1>3. CASE UNCHANGED entryVars
  <2>1. EntryTypeOK'
    BY <1>3 DEF entryVars, switchVars, userSwitches, cacheVars, jobVars, tableVars, broker,
       bounds, EntryInv, EntryTypeOK, SwitchTypeOK
  <2>2. Safe'
    BY <1>3, AskingKeeps DEF entryVars, jobVars, tableVars, broker, NoNewHolder, Holds
  <2> QED BY <2>1, <2>2 DEF EntryInv, Safe
<1> QED BY <1>1, <1>2, <1>3 DEF EntryNext, WorldStep

\* domain/execution and domain/ops/kill_switch.py: the types of the rows, of the jobs
\* and of the switch.
THEOREM EntryTyped ==
  ASSUME SwitchAssumption, EntryAssumption
  PROVE  EntrySpec => []EntryTypeOK
<1>1. EntryInit => EntryInv
  BY EntryInitHolds
<1>2. EntryInv /\ [EntryNext]_entryVars => EntryInv'
  BY EntryStepKeeps
<1>3. EntryInv => EntryTypeOK
  BY DEF EntryInv
<1> QED BY <1>1, <1>2, <1>3, PTL DEF EntrySpec

\* live.py, router.py, paper.py: for every number of jobs and keys, and whatever fails,
\* expires or restarts, a key is bought at most once and never on paper as well.
THEOREM KeySpentOnce ==
  ASSUME SwitchAssumption, EntryAssumption
  PROVE  EntrySpec => []OneExposurePerKey
<1>1. EntryInit => EntryInv
  BY EntryInitHolds
<1>2. EntryInv /\ [EntryNext]_entryVars => EntryInv'
  BY EntryStepKeeps
<1>3. EntryInv => OneExposurePerKey
  BY DEF EntryInv, RowTells, OneExposurePerKey
<1> QED BY <1>1, <1>2, <1>3, PTL DEF EntrySpec

\* live.py, router.py, kill_switch_exec.py: a buy without a position is left in a row
\* that an operator has to look at; only a refused second sending hides one.
THEOREM BuysAreAccounted ==
  ASSUME SwitchAssumption, EntryAssumption
  PROVE  EntrySpec => []NoSilentBuy
<1>1. EntryInit => EntryInv
  BY EntryInitHolds
<1>2. EntryInv /\ [EntryNext]_entryVars => EntryInv'
  BY EntryStepKeeps
<1>3. EntryInv => NoSilentBuy
  BY DEF EntryInv, EntryTypeOK, RowTells, NoSilentBuy, Accounted
<1> QED BY <1>1, <1>2, <1>3, PTL DEF EntrySpec
=============================================================================
