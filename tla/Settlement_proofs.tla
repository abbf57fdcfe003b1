-------------------------- MODULE Settlement_proofs --------------------------
(***************************************************************************)
(* Proofs about Settlement, for every set of positions, closers and        *)
(* bounds: its types; that it implements StakeBook; that a claim is        *)
(* exclusive, a position paid once and sold once; and what the redeem      *)
(* queue says of a settled market.                                         *)
(***************************************************************************)
EXTENDS Settlement, TLAPS

RowTypeOK ==
  /\ status \in [Positions -> Status]
  /\ redeemed \in [Positions -> BOOLEAN]
  /\ pnl \in [Positions -> {"mark", "final"}]
  /\ ledger \in [Positions -> Seq(Credit)]

\* The closer that holds a claim holds it alone, on a 'closing' row.
ClaimsHeld ==
  \A c \in Closers : Claimed(c) =>
    /\ status[on[c]] = "closing"
    /\ \A d \in Closers : Claimed(d) /\ on[d] = on[c] => d = c

\* A closer that is not between two rows works on one.
Placed ==
  \A c \in Closers : at[c] \notin {"idle", "scan", "sweep"} => on[c] \in Positions

\* An entry that was approved has not been inserted.
ApprovedAbsent == \A p \in approved : status[p] = "absent"

\* A row that a task read as closed is still closed.
RowsCurrent == \A row \in rows : row[2] => status[row[1]] = "closed"
JobsCurrent ==
  \A k \in Workers : /\ readClosed[k] => status[job[k]] = "closed"
                     /\ worker[k] = "flag" => readClosed[k]
                     /\ worker[k] \in {"idle", "load", "next"} => ~readClosed[k]
ReadsCurrent == RowsCurrent /\ JobsCurrent

IInv ==
  /\ TypeOK
  /\ PaidOnce
  /\ Placed
  /\ ClaimsHeld
  /\ ApprovedAbsent
  /\ ReadsCurrent
  /\ RedeemedIsClosed

-----------------------------------------------------------------------------
(* What one statement may do to the rows.                                  *)

PaysOnce(p) ==
  \/ Len(ledger'[p]) = 1
  \/ p \notin Winners /\ redeemed'[p] /\ ledger'[p] = <<>>

RowKept(p) ==
  /\ status'[p] = status[p]
  /\ ledger'[p] = ledger[p]
  /\ redeemed'[p] = redeemed[p] \/ (redeemed'[p] /\ status[p] = "closed")

RowMoves(p) ==
  /\ status[p] # "closed" /\ status'[p] # "closed"
  /\ status'[p] = "absent" => status[p] = "absent"
  /\ status'[p] = "closing" => status[p] = "closing" \/ p \in Live
  /\ ledger'[p] = ledger[p] /\ redeemed'[p] = redeemed[p]

RowCloses(p) ==
  /\ status[p] \notin {"closed", "absent"} /\ status'[p] = "closed"
  /\ PaysOnce(p)

\* No statement opens or closes two rows.
Changes(p) ==
  status'[p] # status[p] /\ (status[p] = "absent" \/ status'[p] = "closed")

RowStep ==
  /\ \A p \in Positions : RowKept(p) \/ RowMoves(p) \/ RowCloses(p)
  /\ \A p, q \in Positions : Changes(p) /\ Changes(q) => p = q

ClosingKept == \A p \in Positions : status[p] = "closing" => status'[p] = "closing"
AbsentKept == \A p \in Positions : status[p] = "absent" => status'[p] = "absent"

\* Rows that do not change make a step of the table.
LEMMA StutterStep ==
  ASSUME RowTypeOK, UNCHANGED rowVars
  PROVE  RowTypeOK' /\ RowStep /\ ClosingKept /\ AbsentKept
BY DEF RowTypeOK, rowVars, RowStep, RowKept, Changes, ClosingKept, AbsentKept

\* The credits a close may write.
LEMMA CreditSeqs ==
  /\ <<>> \in Seq(Credit)
  /\ <<"sale">> \in Seq(Credit) /\ Len(<<"sale">>) = 1
  /\ <<"refund">> \in Seq(Credit) /\ Len(<<"refund">>) = 1
  /\ <<"payoff">> \in Seq(Credit) /\ Len(<<"payoff">>) = 1
<1>1. {"sale", "refund", "payoff"} = Credit
  BY DEF Credit
<1>2. \A x \in Credit : <<x>> \in Seq(Credit) /\ Len(<<x>>) = 1
  OBVIOUS
<1> QED BY <1>1, <1>2

\* Closing an open or closing row pays it once.
LEMMA CloseRowStep ==
  ASSUME RowTypeOK, PaidOnce, NEW p \in Positions, NEW c \in Seq(Credit),
         status[p] \notin {"closed", "absent"},
         CloseRow(p, c),
         UNCHANGED redeemed \/ redeemed' = [redeemed EXCEPT ![p] = TRUE],
         Len(c) = 1 \/ (c = <<>> /\ p \notin Winners /\ redeemed'[p])
  PROVE  RowTypeOK' /\ RowStep /\ AbsentKept
<1>1. ledger[p] = <<>>
  BY DEF PaidOnce
<1>2. ledger[p] \o c = c
  BY <1>1
<1>3. ledger' = [ledger EXCEPT ![p] = c]
  BY <1>2 DEF CloseRow
<1>4. RowTypeOK'
  BY <1>3 DEF RowTypeOK, CloseRow, Status
<1>5. RowCloses(p)
  BY <1>3 DEF RowTypeOK, CloseRow, RowCloses, PaysOnce
<1>6. \A q \in Positions : q # p => RowKept(q)
  BY <1>3 DEF RowTypeOK, CloseRow, RowKept
<1> QED BY <1>4, <1>5, <1>6 DEF RowStep, AbsentKept, RowKept, Changes

\* The guarded close of the paper engine.
LEMMA PaperCloseStep ==
  ASSUME RowTypeOK, PaidOnce, NEW p \in Positions, PaperCloseRow(p)
  PROVE  RowTypeOK' /\ RowStep /\ ClosingKept /\ AbsentKept
<1>1. CASE status[p] = "open"
  <2>1. CloseRow(p, <<"sale">>) /\ UNCHANGED redeemed
    BY <1>1 DEF PaperCloseRow
  <2>2. RowTypeOK' /\ RowStep /\ AbsentKept
    BY <1>1, <2>1, CloseRowStep, CreditSeqs
  <2> QED BY <1>1, <2>1, <2>2 DEF ClosingKept, CloseRow, RowTypeOK
<1>2. CASE status[p] # "open"
  BY <1>2, StutterStep DEF PaperCloseRow
<1> QED BY <1>1, <1>2

\* The refund of a market that is gone.
LEMMA ExpireStep ==
  ASSUME RowTypeOK, PaidOnce, NEW p \in Positions, ExpireRow(p)
  PROVE  RowTypeOK' /\ RowStep /\ ClosingKept /\ AbsentKept
<1>1. CASE status[p] = "open"
  <2>1. CloseRow(p, <<"refund">>) /\ UNCHANGED redeemed
    BY <1>1 DEF ExpireRow
  <2>2. RowTypeOK' /\ RowStep /\ AbsentKept
    BY <1>1, <2>1, CloseRowStep, CreditSeqs
  <2> QED BY <1>1, <2>1, <2>2 DEF ClosingKept, CloseRow, RowTypeOK
<1>2. CASE status[p] # "open"
  BY <1>2, StutterStep DEF ExpireRow
<1> QED BY <1>1, <1>2

\* The close of a claimed live row.
LEMMA FinishStep ==
  ASSUME RowTypeOK, PaidOnce, NEW p \in Positions, status[p] = "closing", FinishRow(p)
  PROVE  RowTypeOK' /\ RowStep /\ AbsentKept /\ status' = [status EXCEPT ![p] = "closed"]
<1>1. CloseRow(p, <<"sale">>) /\ UNCHANGED redeemed
  BY DEF FinishRow
<1> QED BY <1>1, CloseRowStep, CreditSeqs DEF CloseRow

\* The settlement closes a row that is neither closed nor being closed.
LEMMA SettleStep ==
  ASSUME RowTypeOK, PaidOnce, NEW p \in Positions, NEW c \in Seq(Credit),
         SettleRow(p, c),
         Len(c) = 1 \/ (c = <<>> /\ p \notin Winners)
  PROVE  RowTypeOK' /\ RowStep /\ ClosingKept /\ AbsentKept
<1>1. CASE Unsettled(p) /\ ~redeemed[p]
  <2>1. CloseRow(p, c) /\ redeemed' = [redeemed EXCEPT ![p] = TRUE]
    BY <1>1 DEF SettleRow
  <2>2. redeemed'[p]
    BY <2>1 DEF RowTypeOK
  <2>3. status[p] \notin {"closed", "absent", "closing"}
    BY <1>1 DEF Unsettled
  <2>4. RowTypeOK' /\ RowStep /\ AbsentKept
    BY <2>1, <2>2, <2>3, CloseRowStep
  <2> QED BY <2>1, <2>3, <2>4 DEF ClosingKept, CloseRow, RowTypeOK
<1>2. CASE ~(Unsettled(p) /\ ~redeemed[p])
  BY <1>2, StutterStep DEF SettleRow
<1> QED BY <1>1, <1>2

\* Marking a row does not move it.
LEMMA MarkStep ==
  ASSUME RowTypeOK, NEW p, MarkRow(p)
  PROVE  RowTypeOK' /\ RowStep /\ ClosingKept /\ AbsentKept
BY DEF RowTypeOK, MarkRow, RowStep, Changes, RowKept, ClosingKept, AbsentKept

\* Parking moves open rows, and pays none.
LEMMA ParkStep ==
  ASSUME RowTypeOK, ParkRows
  PROVE  RowTypeOK' /\ RowStep /\ ClosingKept /\ AbsentKept
BY DEF RowTypeOK, ParkRows, RowStep, Changes, RowKept, RowMoves, ClosingKept, AbsentKept, Status

\* The redeemed flag is set on a closed row.
LEMMA FlagStep ==
  ASSUME RowTypeOK, NEW p \in Positions, status[p] = "closed", FlagRow(p)
  PROVE  RowTypeOK' /\ RowStep /\ ClosingKept /\ AbsentKept
BY DEF RowTypeOK, FlagRow, RowStep, Changes, RowKept, ClosingKept, AbsentKept

\* The live claim moves an open row to closing.
LEMMA ClaimStep ==
  ASSUME RowTypeOK, NEW p \in Positions, p \in Live, ClaimRow(p)
  PROVE  RowTypeOK' /\ RowStep /\ ClosingKept /\ AbsentKept
BY DEF RowTypeOK, ClaimRow, RowStep, Changes, RowKept, RowMoves, ClosingKept, AbsentKept, Status

\* A failed live close moves its row back to open.
LEMMA ReopenStep ==
  ASSUME RowTypeOK, NEW p \in Positions, status[p] = "closing", ReopenRow(p)
  PROVE  RowTypeOK' /\ RowStep /\ AbsentKept /\ status' = [status EXCEPT ![p] = "open"]
BY DEF RowTypeOK, ReopenRow, RowStep, Changes, RowKept, RowMoves, AbsentKept, Status

\* A new position.
LEMMA InsertStep ==
  ASSUME RowTypeOK, NEW p \in Positions, status[p] = "absent", InsertPosition(p)
  PROVE  RowTypeOK' /\ RowStep /\ ClosingKept /\ status' = [status EXCEPT ![p] = "open"]
BY DEF RowTypeOK, InsertPosition, RowStep, Changes, RowKept, RowMoves, ClosingKept, Status

\* Whatever a statement of this kind does, it pays each position once, never
\* reopens a closed row and never flags a row that is not closed.
LEMMA RowInvariants ==
  ASSUME RowTypeOK, RowTypeOK', RowStep, PaidOnce, RedeemedIsClosed
  PROVE  PaidOnce' /\ RedeemedIsClosed'
         /\ \A p \in Positions : status[p] = "closed" => status'[p] = "closed"
<1>1. \A p \in Positions : status[p] = "closed" => status'[p] = "closed"
  BY DEF RowStep, RowKept, RowMoves, RowCloses
<1>2. RedeemedIsClosed'
  BY DEF RowStep, RowKept, RowMoves, RowCloses, RedeemedIsClosed
<1>3. PaidOnce'
  BY DEF RowStep, RowKept, RowMoves, RowCloses, PaidOnce, PaysOnce
<1> QED BY <1>1, <1>2, <1>3

\* The rows of any statement are a step of the abstract book: no row opens or
\* closes, or one is placed, or one is settled with at most one credit.
LEMMA BookSteps ==
  ASSUME RowTypeOK, RowTypeOK', RowStep, PaidOnce
  PROVE  [Stake!Next]_(Stake!stakeVars)
<1> DEFINE P(x) == CASE x = "absent" -> "none" [] x = "closed" -> "settled" [] OTHER -> "held"
<1>1. /\ stakePhase = [p \in Positions |-> P(status[p])]
      /\ stakePhase' = [p \in Positions |-> P(status'[p])]
  BY DEF stakePhase
<1>2. /\ stakePaid = [p \in Positions |-> Len(ledger[p])]
      /\ stakePaid' = [p \in Positions |-> Len(ledger'[p])]
  BY DEF stakePaid
<1>p. \A x : /\ x = "absent" => P(x) = "none"
             /\ x = "closed" => P(x) = "settled"
             /\ x \notin {"absent", "closed"} => P(x) = "held"
  OBVIOUS
<1> HIDE DEF P
<1>3. ASSUME NEW p \in Positions, ~Changes(p)
      PROVE  P(status'[p]) = P(status[p]) /\ ledger'[p] = ledger[p]
  BY <1>3, <1>p DEF RowStep, RowKept, RowMoves, RowCloses, Changes
<1>4. CASE \A p \in Positions : ~Changes(p)
  <2>1. UNCHANGED <<stakePhase, stakePaid>>
    BY <1>1, <1>2, <1>3, <1>4
  <2> QED BY <2>1 DEF Stake!stakeVars
<1>5. ASSUME NEW p \in Positions, Changes(p)
      PROVE  Stake!Next
  <2>1. \A q \in Positions \ {p} : P(status'[q]) = P(status[q]) /\ ledger'[q] = ledger[q]
    BY <1>3, <1>5 DEF RowStep
  <2>2. stakePhase' = [stakePhase EXCEPT ![p] = P(status'[p])]
    BY <1>1, <2>1
  <2>3. CASE RowMoves(p)
    <3>1. status[p] = "absent" /\ status'[p] \notin {"absent", "closed"}
      BY <1>5, <2>3 DEF RowMoves, Changes
    <3>2. stakePhase[p] = "none" /\ P(status'[p]) = "held"
      BY <1>1, <1>p, <3>1
    <3>3. UNCHANGED stakePaid
      BY <1>2, <2>1, <2>3 DEF RowMoves
    <3> QED BY <2>2, <3>2, <3>3 DEF Stake!Next, Stake!Place
  <2>4. CASE RowCloses(p)
    <3>1. stakePhase[p] = "held" /\ P(status'[p]) = "settled"
      BY <1>1, <1>p, <2>4 DEF RowCloses
    <3>2. Len(ledger[p]) = 0 /\ Len(ledger'[p]) \in {0, 1}
      BY <2>4 DEF RowCloses, PaysOnce, PaidOnce
    <3> DEFINE n == Len(ledger'[p])
    <3>3. stakePaid' = [stakePaid EXCEPT ![p] = n]
      BY <1>2, <2>1
    <3>4. stakePaid[p] = 0
      BY <1>2, <3>2
    <3> HIDE DEF n
    <3>5. n \in {0, 1}
      BY <3>2 DEF n
    <3>6. stakePaid[p] + n = n
      BY <3>4, <3>5
    <3>7. \E k \in {0, 1} : stakePaid' = [stakePaid EXCEPT ![p] = @ + k]
      BY <3>3, <3>5, <3>6
    <3> QED BY <2>2, <3>1, <3>7 DEF Stake!Next, Stake!Settle
  <2> QED BY <1>5, <2>3, <2>4 DEF RowStep, RowKept, Changes
<1> QED BY <1>4, <1>5

-----------------------------------------------------------------------------
(* What one step of a closer does to the claims.                           *)

\* A closer moves and takes no claim, while no claimed row changes.
LEMMA MoveUnclaimed ==
  ASSUME CloserTypeOK, Placed, ClaimsHeld, ClosingKept,
         NEW c \in Closers, NEW place \in Places, NEW p \in Positions \union {NoPosition},
         Goto(c, place, p), place \notin {"sell", "finish", "reopen"},
         place \in {"idle", "scan", "sweep"} \/ p \in Positions
  PROVE  Placed' /\ ClaimsHeld' /\ at' \in [Closers -> Places]
         /\ on' \in [Closers -> Positions \union {NoPosition}]
BY DEF CloserTypeOK, Placed, ClaimsHeld, ClosingKept, Goto, Claimed

\* No closer moves and no claimed row changes.
LEMMA StayPut ==
  ASSUME CloserTypeOK, Placed, ClaimsHeld, ClosingKept, UNCHANGED <<at, on>>
  PROVE  Placed' /\ ClaimsHeld' /\ at' \in [Closers -> Places]
         /\ on' \in [Closers -> Positions \union {NoPosition}]
BY DEF CloserTypeOK, Placed, ClaimsHeld, ClosingKept, Claimed

\* A closer that holds a claim moves on and keeps it.
LEMMA KeepClaim ==
  ASSUME CloserTypeOK, Placed, ClaimsHeld, ClosingKept,
         NEW c \in Closers, Claimed(c),
         NEW place \in {"sell", "finish", "reopen"}, Goto(c, place, on[c])
  PROVE  Placed' /\ ClaimsHeld' /\ at' \in [Closers -> Places]
         /\ on' \in [Closers -> Positions \union {NoPosition}]
BY DEF CloserTypeOK, Placed, ClaimsHeld, ClosingKept, Goto, Claimed, Places

\* A closer that holds a claim gives it up and writes the row it claimed.
LEMMA DropClaim ==
  ASSUME RowTypeOK, CloserTypeOK, Placed, ClaimsHeld,
         NEW c \in Closers, Claimed(c), NEW v,
         NEW place \in {"idle", "scan"}, Goto(c, place, NoPosition),
         status' = [status EXCEPT ![on[c]] = v]
  PROVE  Placed' /\ ClaimsHeld' /\ at' \in [Closers -> Places]
         /\ on' \in [Closers -> Positions \union {NoPosition}]
BY DEF RowTypeOK, CloserTypeOK, Placed, ClaimsHeld, Goto, Claimed, Places

\* A closer claims an open row.
LEMMA TakeClaim ==
  ASSUME RowTypeOK, CloserTypeOK, Placed, ClaimsHeld,
         NEW c \in Closers, on[c] \in Positions, ClaimRow(on[c]), Goto(c, "sell", on[c])
  PROVE  Placed' /\ ClaimsHeld' /\ at' \in [Closers -> Places]
         /\ on' \in [Closers -> Positions \union {NoPosition}]
BY DEF RowTypeOK, CloserTypeOK, Placed, ClaimsHeld, Goto, Claimed, Places, ClaimRow

-----------------------------------------------------------------------------
(* The closers.                                                            *)

MarketTypeOK ==
  /\ resolved \in BOOLEAN
  /\ decided \in BOOLEAN
  /\ due \in BOOLEAN
  /\ official \in {"trading", "closed", "delisted"}
  /\ faults \in 0 .. MaxFaults

CloserGood == RowTypeOK /\ MarketTypeOK /\ CloserTypeOK /\ PaidOnce /\ Placed /\ ClaimsHeld

CloserKeeps ==
  /\ RowTypeOK' /\ MarketTypeOK' /\ CloserTypeOK' /\ Placed' /\ ClaimsHeld'
  /\ RowStep /\ AbsentKept

\* A fault is counted within its bound.
LEMMA FaultType ==
  ASSUME BookAssumption, faults \in 0 .. MaxFaults, Fault
  PROVE  faults' \in 0 .. MaxFaults
BY DEF BookAssumption, Fault

\* A closer that is done with a row goes on with its scan, or rests.
LEMMA NextRowPlace ==
  ASSUME NEW c, NextRow(c)
  PROVE  \E place \in {"idle", "scan"} : Goto(c, place, NoPosition)
BY DEF NextRow

\* A closer that leaves its row claims nothing.
LEMMA NextRowStep ==
  ASSUME CloserTypeOK, Placed, ClaimsHeld, ClosingKept, NEW c \in Closers, NextRow(c)
  PROVE  Placed' /\ ClaimsHeld' /\ at' \in [Closers -> Places]
         /\ on' \in [Closers -> Positions \union {NoPosition}]
<1>1. PICK place \in {"idle", "scan"} : Goto(c, place, NoPosition)
  BY NextRowPlace
<1>2. place \in Places /\ NoPosition \in Positions \union {NoPosition}
  BY DEF Places
<1> QED BY <1>1, <1>2, MoveUnclaimed

\* The actions that leave every row alone.
LEMMA ReadingSteps ==
  ASSUME BookAssumption, WatcherAssumption, CloserGood, NEW w \in Watchers
  PROVE  /\ Load(w) => CloserKeeps
         /\ \A row \in batch[w] : PriceMissing(w, row) => CloserKeeps
         /\ CheckExpired(w) => CloserKeeps
         /\ \A row \in batch[w] : Priced(w, row) => CloserKeeps
         /\ \A row \in batch[w] : Forced(w, row) => CloserKeeps
         /\ EndScan(w) => CloserKeeps
         /\ EndSweep(w) => CloserKeeps
<1> USE DEF CloserKeeps, CloserGood, MarketTypeOK, bookVars, rowVars
<1>0. w \in Closers /\ \A row \in batch[w] : row[1] \in Positions
  BY DEF Closers, CloserTypeOK
<1>s. UNCHANGED rowVars => RowTypeOK' /\ RowStep /\ ClosingKept /\ AbsentKept
  BY StutterStep
<1>p. /\ {"idle", "scan", "sweep", "check", "expire", "hold", "close"} \subseteq Places
      /\ NoPosition \in Positions \union {NoPosition}
  BY DEF Places
<1>1. ASSUME Load(w) PROVE CloserKeeps
  <2>1. UNCHANGED rowVars /\ Goto(w, "scan", NoPosition)
    BY <1>1 DEF Load
  <2>2. batch' \in [Watchers -> SUBSET (Positions \X BOOLEAN)]
    BY <1>1 DEF Load, CloserTypeOK
  <2> QED BY <1>0, <1>1, <1>s, <1>p, <2>1, <2>2, MoveUnclaimed DEF Load, CloserTypeOK
<1>2. ASSUME NEW row \in batch[w], PriceMissing(w, row) PROVE CloserKeeps
  <2>1. UNCHANGED rowVars
    BY <1>2 DEF PriceMissing
  <2>2. batch' \in [Watchers -> SUBSET (Positions \X BOOLEAN)]
    BY <1>2 DEF PriceMissing, CloserTypeOK, Take
  <2>3. failCount' \in [Positions -> 0 .. ExpiredTicks]
    BY <1>0, <1>2 DEF PriceMissing, CloserTypeOK, WatcherAssumption
  <2>4. Goto(w, "check", row[1]) \/ UNCHANGED <<at, on>>
    BY <1>2 DEF PriceMissing
  <2> QED BY <1>0, <1>2, <1>s, <1>p, <2>1, <2>2, <2>3, <2>4, MoveUnclaimed, StayPut
          DEF PriceMissing, CloserTypeOK
<1>3. ASSUME CheckExpired(w) PROVE CloserKeeps
  <2>1. UNCHANGED rowVars
    BY <1>3 DEF CheckExpired
  <2>2. on[w] \in Positions
    BY <1>0, <1>3 DEF CheckExpired, Placed
  <2>3. failCount' \in [Positions -> 0 .. ExpiredTicks]
    BY <1>3 DEF CheckExpired, CloserTypeOK, WatcherAssumption
  <2>4. Goto(w, "expire", on[w]) \/ NextRow(w)
    BY <1>3 DEF CheckExpired
  <2> QED BY <1>0, <1>3, <1>s, <1>p, <2>1, <2>2, <2>3, <2>4, MoveUnclaimed, NextRowStep
          DEF CheckExpired, CloserTypeOK
<1>4. ASSUME NEW row \in batch[w], Priced(w, row) PROVE CloserKeeps
  <2>1. UNCHANGED rowVars
    BY <1>4 DEF Priced
  <2>2. batch' \in [Watchers -> SUBSET (Positions \X BOOLEAN)]
    BY <1>4 DEF Priced, CloserTypeOK, Take
  <2>3. failCount' \in [Positions -> 0 .. ExpiredTicks]
    BY <1>4 DEF Priced, CloserTypeOK, WatcherAssumption
  <2>4. PICK decision \in {"hold", "close"} : Goto(w, decision, row[1])
    BY <1>4 DEF Priced
  <2>5. RowTypeOK' /\ RowStep /\ ClosingKept /\ AbsentKept
    BY <1>s, <2>1
  <2>6. Placed' /\ ClaimsHeld' /\ at' \in [Closers -> Places]
        /\ on' \in [Closers -> Positions \union {NoPosition}]
    BY <1>0, <1>p, <2>4, <2>5, MoveUnclaimed
  <2> QED BY <1>4, <2>2, <2>3, <2>5, <2>6 DEF Priced, CloserTypeOK
<1>5. ASSUME NEW row \in batch[w], Forced(w, row) PROVE CloserKeeps
  <2>1. UNCHANGED rowVars /\ Goto(w, "close", row[1])
    BY <1>5 DEF Forced
  <2>2. batch' \in [Watchers -> SUBSET (Positions \X BOOLEAN)]
    BY <1>5 DEF Forced, CloserTypeOK, Take
  <2> QED BY <1>0, <1>5, <1>s, <1>p, <2>1, <2>2, MoveUnclaimed DEF Forced, CloserTypeOK
<1>6. ASSUME EndScan(w) PROVE CloserKeeps
  <2>1. UNCHANGED rowVars
    BY <1>6 DEF EndScan
  <2>2. batch' \in [Watchers -> SUBSET (Positions \X BOOLEAN)]
    BY <1>6 DEF EndScan, CloserTypeOK
  <2>3. Goto(w, "sweep", NoPosition) \/ Goto(w, "idle", NoPosition)
    BY <1>6 DEF EndScan
  <2> QED BY <1>0, <1>6, <1>s, <1>p, <2>1, <2>2, <2>3, MoveUnclaimed DEF EndScan, CloserTypeOK
<1>7. ASSUME EndSweep(w) PROVE CloserKeeps
  <2>1. UNCHANGED rowVars /\ Goto(w, "idle", NoPosition)
    BY <1>7 DEF EndSweep
  <2> QED BY <1>0, <1>7, <1>s, <1>p, <2>1, MoveUnclaimed DEF EndSweep, CloserTypeOK
<1> QED BY <1>1, <1>2, <1>3, <1>4, <1>5, <1>6, <1>7

\* The watchers' statements on a row.
LEMMA WatcherWrites ==
  ASSUME BookAssumption, WatcherAssumption, CloserGood, NEW w \in Watchers
  PROVE  /\ Expire(w) => CloserKeeps
         /\ Hold(w) => CloserKeeps
         /\ \A row \in batch[w] : SweepExpire(w, row) => CloserKeeps
<1> USE DEF CloserKeeps, CloserGood, MarketTypeOK, marketVars
<1>0. w \in Closers /\ \A row \in batch[w] : row[1] \in Positions
  BY DEF Closers, CloserTypeOK
<1>1. ASSUME Expire(w) PROVE CloserKeeps
  <2>1. on[w] \in Positions
    BY <1>0, <1>1 DEF Expire, Placed
  <2>2. RowTypeOK' /\ RowStep /\ ClosingKept /\ AbsentKept
    BY <1>1, <2>1, ExpireStep DEF Expire
  <2>3. failCount' \in [Positions -> 0 .. ExpiredTicks]
    BY <1>1, <2>1 DEF Expire, CloserTypeOK, WatcherAssumption
  <2> QED BY <1>0, <1>1, <2>2, <2>3, NextRowStep DEF Expire, CloserTypeOK
<1>2. ASSUME Hold(w) PROVE CloserKeeps
  <2>1. RowTypeOK' /\ RowStep /\ ClosingKept /\ AbsentKept
    BY <1>2, MarkStep DEF Hold
  <2> QED BY <1>0, <1>2, <2>1, NextRowStep DEF Hold, CloserTypeOK
<1>3. ASSUME NEW row \in batch[w], SweepExpire(w, row) PROVE CloserKeeps
  <2>1. RowTypeOK' /\ RowStep /\ ClosingKept /\ AbsentKept
    BY <1>0, <1>3, ExpireStep DEF SweepExpire
  <2>2. batch' \in [Watchers -> SUBSET (Positions \X BOOLEAN)]
    BY <1>3 DEF SweepExpire, CloserTypeOK, Take
  <2> QED BY <1>3, <2>1, <2>2, StayPut DEF SweepExpire, CloserTypeOK
<1> QED BY <1>1, <1>2, <1>3

\* The steps of router.close, whoever called it.
LEMMA CloseSteps ==
  ASSUME BookAssumption, WatcherAssumption, CloserGood, NEW c \in Closers, CloseStep(c)
  PROVE  CloserKeeps
<1> USE DEF CloserKeeps, CloserGood, MarketTypeOK, marketVars
<1>s. UNCHANGED rowVars => RowTypeOK' /\ RowStep /\ ClosingKept /\ AbsentKept
  BY StutterStep
<1>1. ASSUME ClosePaper(c) PROVE CloserKeeps
  <2>1. on[c] \in Positions
    BY <1>1 DEF ClosePaper, Placed
  <2>2. RowTypeOK' /\ RowStep /\ ClosingKept /\ AbsentKept
    BY <1>1, <2>1, PaperCloseStep DEF ClosePaper
  <2> QED BY <1>1, <2>2, NextRowStep DEF ClosePaper, CloserTypeOK
<1>2. ASSUME ClaimLive(c) PROVE CloserKeeps
  <2>1. on[c] \in Positions
    BY <1>2 DEF ClaimLive, Placed
  <2>2. CASE status[on[c]] = "open"
    <3>1. ClaimRow(on[c]) /\ Goto(c, "sell", on[c]) /\ on[c] \in Live
      BY <1>2, <2>2 DEF ClaimLive
    <3> QED BY <1>2, <2>1, <3>1, ClaimStep, TakeClaim DEF ClaimLive, CloserTypeOK
  <2>3. CASE status[on[c]] # "open"
    <3>1. UNCHANGED rowVars /\ NextRow(c)
      BY <1>2, <2>3 DEF ClaimLive
    <3> QED BY <1>2, <1>s, <3>1, NextRowStep DEF ClaimLive, CloserTypeOK
  <2> QED BY <2>2, <2>3
<1>3. ASSUME SellAccepted(c) PROVE CloserKeeps
  <2>1. UNCHANGED rowVars /\ Claimed(c) /\ Goto(c, "finish", on[c])
    BY <1>3 DEF SellAccepted, Claimed, bookVars, rowVars
  <2>p. on[c] \in Positions
    BY <2>1 DEF Claimed, Placed
  <2>2. sold' \in [Positions -> Nat]
    BY <1>3, <2>p DEF SellAccepted, CloserTypeOK
  <2> QED BY <1>3, <1>s, <2>1, <2>2, KeepClaim DEF SellAccepted, CloserTypeOK, bookVars
<1>4. ASSUME SellRaised(c) PROVE CloserKeeps
  <2>1. UNCHANGED rowVars /\ Claimed(c) /\ Goto(c, "reopen", on[c])
    BY <1>4 DEF SellRaised, Claimed, bookVars, rowVars
  <2>p. on[c] \in Positions
    BY <2>1 DEF Claimed, Placed
  <2>2. sold' \in [Positions -> Nat]
    BY <1>4, <2>p DEF SellRaised, CloserTypeOK
  <2>3. faults' \in 0 .. MaxFaults
    BY <1>4, FaultType DEF SellRaised
  <2> QED BY <1>4, <1>s, <2>1, <2>2, <2>3, KeepClaim DEF SellRaised, CloserTypeOK, bookVars
<1>5. ASSUME FinishLive(c) PROVE CloserKeeps
  <2>1. Claimed(c)
    BY <1>5 DEF FinishLive, Claimed
  <2>2. on[c] \in Positions /\ status[on[c]] = "closing"
    BY <1>5, <2>1 DEF ClaimsHeld, FinishLive, Placed
  <2>3. /\ RowTypeOK' /\ RowStep /\ AbsentKept
        /\ status' = [status EXCEPT ![on[c]] = "closed"]
    BY <1>5, <2>2, FinishStep DEF FinishLive
  <2>4. PICK place \in {"idle", "scan"} : Goto(c, place, NoPosition)
    BY <1>5, NextRowPlace DEF FinishLive
  <2>5. Placed' /\ ClaimsHeld' /\ at' \in [Closers -> Places]
        /\ on' \in [Closers -> Positions \union {NoPosition}]
    BY <2>1, <2>3, <2>4, DropClaim
  <2> QED BY <1>5, <2>3, <2>5 DEF FinishLive, CloserTypeOK
<1>6. ASSUME ReopenLive(c) PROVE CloserKeeps
  <2>1. Claimed(c)
    BY <1>6 DEF ReopenLive, Claimed
  <2>2. on[c] \in Positions /\ status[on[c]] = "closing"
    BY <1>6, <2>1 DEF ClaimsHeld, ReopenLive, Placed
  <2>3. /\ RowTypeOK' /\ RowStep /\ AbsentKept
        /\ status' = [status EXCEPT ![on[c]] = "open"]
    BY <1>6, <2>2, ReopenStep DEF ReopenLive
  <2>4. PICK place \in {"idle", "scan"} : Goto(c, place, NoPosition)
    BY <1>6, NextRowPlace DEF ReopenLive
  <2>5. Placed' /\ ClaimsHeld' /\ at' \in [Closers -> Places]
        /\ on' \in [Closers -> Positions \union {NoPosition}]
    BY <2>1, <2>3, <2>4, DropClaim
  <2> QED BY <1>6, <2>3, <2>5 DEF ReopenLive, CloserTypeOK
<1>7. ASSUME StatementLost(c) PROVE CloserKeeps
  <2>1. UNCHANGED rowVars
    BY <1>7 DEF StatementLost, bookVars, rowVars
  <2>2. faults' \in 0 .. MaxFaults
    BY <1>7, FaultType DEF StatementLost
  <2> QED BY <1>7, <1>s, <2>1, <2>2, NextRowStep DEF StatementLost, CloserTypeOK, bookVars
<1> QED BY <1>1, <1>2, <1>3, <1>4, <1>5, <1>6, <1>7 DEF CloseStep

\* Every step of a watcher, a close button or a force close.
LEMMA CloserSteps ==
  ASSUME BookAssumption, WatcherAssumption, CloserGood, CloserStep
  PROVE  CloserKeeps
<1>1. ASSUME NEW w \in Watchers, WatcherStep(w) PROVE CloserKeeps
  <2>1. w \in Closers
    BY DEF Closers
  <2> QED BY <1>1, <2>1, ReadingSteps, WatcherWrites, CloseSteps DEF WatcherStep
<1>2. ASSUME NEW m \in Manuals, ManualStep(m) PROVE CloserKeeps
  <2>1. m \in Closers
    BY DEF Closers
  <2>2. ASSUME NEW p \in Positions, ManualClose(m, p) PROVE CloserKeeps
    <3>1. UNCHANGED rowVars /\ Goto(m, "close", p) /\ "close" \in Places
      BY <2>2 DEF ManualClose, bookVars, rowVars, Places
    <3> QED BY <2>1, <2>2, <3>1, StutterStep, MoveUnclaimed
            DEF ManualClose, CloserKeeps, CloserGood, MarketTypeOK, bookVars, CloserTypeOK
  <2> QED BY <1>2, <2>1, <2>2, CloseSteps DEF ManualStep
<1>3. ASSUME NEW p \in Positions, ForceClose(p) PROVE CloserKeeps
  <2>1. UNCHANGED rowVars
    BY <1>3 DEF ForceClose, bookVars, rowVars
  <2>2. force' \in [Positions -> BOOLEAN]
    BY <1>3 DEF ForceClose, CloserGood, CloserTypeOK
  <2> QED BY <1>3, <2>1, <2>2, StutterStep, StayPut
          DEF ForceClose, CloserKeeps, CloserGood, MarketTypeOK, bookVars, CloserTypeOK
<1> QED BY <1>1, <1>2, <1>3 DEF CloserStep

-----------------------------------------------------------------------------
(* The settlement pipeline.                                                *)

ClosedKept == \A p \in Positions : status[p] = "closed" => status'[p] = "closed"

WorkerTypeOK ==
  /\ worker \in [Workers -> Stages]
  /\ job \in [Workers -> Positions]
  /\ readClosed \in [Workers -> BOOLEAN]
  /\ retried \in [Workers -> BOOLEAN]

TableTypeOK ==
  /\ queue \in [Positions -> {"none", "pending", "processing", "stale", "done"}]
  /\ detect \in {"idle", "fetch", "park", "classify"}
  /\ rows \in SUBSET (Positions \X BOOLEAN)
  /\ clean \in BOOLEAN
  /\ spawn \in SUBSET Positions
  /\ drain \in SUBSET Positions
  /\ recorded \in BOOLEAN
  /\ submits \in Nat

PipelineGood ==
  /\ RowTypeOK /\ MarketTypeOK /\ TableTypeOK /\ WorkerTypeOK
  /\ PaidOnce /\ RowsCurrent /\ JobsCurrent

PipelineKeeps ==
  /\ RowTypeOK' /\ MarketTypeOK' /\ TableTypeOK' /\ WorkerTypeOK'
  /\ RowsCurrent' /\ JobsCurrent'
  /\ RowStep /\ ClosingKept /\ AbsentKept

\* A closed row stays closed.
LEMMA StepKeepsClosed ==
  ASSUME RowStep
  PROVE  ClosedKept
BY DEF RowStep, RowKept, RowMoves, RowCloses, ClosedKept

\* A pipeline step that writes no row.
LEMMA SameRows ==
  ASSUME RowTypeOK, UNCHANGED rowVars
  PROVE  RowTypeOK' /\ RowStep /\ ClosingKept /\ AbsentKept /\ ClosedKept
BY StutterStep, StepKeepsClosed

\* What the detector carries stays true while rows only close.
LEMMA RowsStay ==
  ASSUME TableTypeOK, RowsCurrent, ClosedKept, rows' \subseteq rows
  PROVE  RowsCurrent'
BY DEF TableTypeOK, RowsCurrent, ClosedKept

\* What the workers carry stays true while rows only close.
LEMMA WorkersStay ==
  ASSUME WorkerTypeOK, JobsCurrent, ClosedKept, UNCHANGED workerVars
  PROVE  WorkerTypeOK' /\ JobsCurrent'
BY DEF WorkerTypeOK, JobsCurrent, ClosedKept, workerVars

\* A worker moves to its next stage.
LEMMA StageStep ==
  ASSUME WorkerTypeOK, JobsCurrent, ClosedKept, NEW k \in Workers, NEW s \in Stages,
         Stage(k, s), s = "flag" => readClosed[k],
         s \in {"idle", "load", "next"} => worker[k] \in {"idle", "load", "next"}
  PROVE  WorkerTypeOK' /\ JobsCurrent'
BY DEF WorkerTypeOK, JobsCurrent, ClosedKept, Stage

\* The initial job of a worker is a position.
LEMMA AnyRowType ==
  ASSUME PipelineAssumption
  PROVE  AnyRow \in Positions
BY DEF PipelineAssumption, AnyRow

\* A worker that is done with its row.
LEMMA FinishJob ==
  ASSUME PipelineAssumption, WorkerTypeOK, JobsCurrent, ClosedKept,
         NEW k \in Workers, Finish(k)
  PROVE  WorkerTypeOK' /\ JobsCurrent'
<1>1. k # Hourly => k \in Positions
  BY DEF Workers
<1>2. {"next", "idle"} \subseteq Stages
  BY DEF Stages
<1> QED BY <1>1, <1>2, AnyRowType DEF WorkerTypeOK, JobsCurrent, ClosedKept, Finish

\* The detector: fetch, park, classify, queue, flip.
LEMMA DetectSteps ==
  ASSUME BookAssumption, PipelineAssumption, PipelineGood, DetectStep
  PROVE  PipelineKeeps
<1> USE DEF PipelineKeeps, PipelineGood, MarketTypeOK, bookVars
<1>1. ASSUME DetectStart \/ DetectOpen PROVE PipelineKeeps
  <2>1. UNCHANGED rowVars /\ UNCHANGED workerVars
    BY <1>1 DEF DetectStart, DetectOpen, rowVars
  <2> QED BY <1>1, <2>1, SameRows, WorkersStay, RowsStay DEF DetectStart, DetectOpen, TableTypeOK
<1>2. ASSUME Park PROVE PipelineKeeps
  <2>1. RowTypeOK' /\ RowStep /\ ClosingKept /\ AbsentKept /\ ClosedKept
    BY <1>2, ParkStep, StepKeepsClosed DEF Park
  <2> QED BY <1>2, <2>1, WorkersStay, RowsStay DEF Park, TableTypeOK, marketVars
<1>3. ASSUME DetectClosed PROVE PipelineKeeps
  <2>1. UNCHANGED rowVars /\ UNCHANGED workerVars
    BY <1>3 DEF DetectClosed, rowVars
  <2>p. rows' = {<<p, status[p] = "closed">> : p \in
                   {q \in Positions : status[q] # "absent" /\ ~redeemed[q]}}
    BY <1>3 DEF DetectClosed
  <2>r. ASSUME NEW row \in rows'
        PROVE  row \in Positions \X BOOLEAN /\ (row[2] => status[row[1]] = "closed")
    <3>1. PICK p \in Positions : row = <<p, status[p] = "closed">>
      BY <2>p
    <3> QED BY <3>1
  <2>2. rows' \in SUBSET (Positions \X BOOLEAN) /\ RowsCurrent'
    BY <2>1, <2>r DEF RowsCurrent, rowVars
  <2>3. TableTypeOK'
    BY <1>3, <2>2 DEF DetectClosed, TableTypeOK
  <2> QED BY <1>3, <2>1, <2>2, <2>3, SameRows, WorkersStay DEF DetectClosed
<1>4. ASSUME NEW row \in rows, SettleLoser(row) PROVE PipelineKeeps
  <2>1. row[1] \in Positions
    BY DEF TableTypeOK
  <2>2. RowTypeOK' /\ RowStep /\ ClosingKept /\ AbsentKept
    <3>1. CASE row[2]
      BY <1>4, <2>1, <3>1, FlagStep DEF SettleLoser, RowsCurrent
    <3>2. CASE ~row[2]
      BY <1>4, <2>1, <3>2, SettleStep, CreditSeqs DEF SettleLoser
    <3> QED BY <3>1, <3>2
  <2>3. ClosedKept
    BY <2>2, StepKeepsClosed
  <2>4. rows' \subseteq rows
    BY <1>4 DEF SettleLoser
  <2> QED BY <1>4, <2>2, <2>3, <2>4, WorkersStay, RowsStay DEF SettleLoser, TableTypeOK, marketVars
<1>5. ASSUME NEW row \in rows, Enqueue(row) PROVE PipelineKeeps
  <2>1. UNCHANGED rowVars /\ UNCHANGED workerVars /\ rows' \subseteq rows
    BY <1>5 DEF Enqueue, rowVars
  <2>2. row[1] \in Positions
    BY DEF TableTypeOK
  <2>3. TableTypeOK'
    BY <1>5, <2>2 DEF Enqueue, TableTypeOK
  <2> QED BY <1>5, <2>1, <2>3, SameRows, WorkersStay, RowsStay DEF Enqueue
<1>6. ASSUME NEW row \in rows, ClassifyRaises(row) PROVE PipelineKeeps
  <2>1. UNCHANGED rowVars /\ UNCHANGED workerVars /\ rows' \subseteq rows
    BY <1>6 DEF ClassifyRaises, rowVars
  <2>2. faults' \in 0 .. MaxFaults
    BY <1>6, FaultType DEF ClassifyRaises
  <2> QED BY <1>6, <2>1, <2>2, SameRows, WorkersStay, RowsStay DEF ClassifyRaises, TableTypeOK
<1>7. ASSUME Flip PROVE PipelineKeeps
  <2>1. RowTypeOK' /\ RowStep /\ ClosingKept /\ AbsentKept /\ ClosedKept
    BY <1>7, SameRows DEF Flip
  <2>2. MarketTypeOK'
    BY <1>7 DEF Flip, FlipMarket, marketVars
  <2>3. WorkerTypeOK' /\ JobsCurrent'
    BY <1>7, <2>1 DEF Flip, WorkerTypeOK, JobsCurrent, ClosedKept, Stages
  <2> QED BY <1>7, <2>1, <2>2, <2>3, RowsStay DEF Flip, TableTypeOK
<1> QED BY <1>1, <1>2, <1>3, <1>4, <1>5, <1>6, <1>7 DEF DetectStep

\* The reaper and the sweep of the hourly worker.
LEMMA QueueSteps ==
  ASSUME BookAssumption, PipelineAssumption, PipelineGood,
         \/ Reap \/ LoadPending \/ NextPending
         \/ \E p \in Positions : Age(p)
  PROVE  PipelineKeeps
<1> USE DEF PipelineKeeps, PipelineGood, MarketTypeOK, bookVars
<1>0. Hourly \in Workers /\ {"load", "next", "idle", "claim"} \subseteq Stages
  BY DEF Workers, Stages
<1>1. ASSUME Reap PROVE PipelineKeeps
  <2>1. UNCHANGED rowVars
    BY <1>1 DEF Reap, rowVars
  <2>2. TableTypeOK'
    BY <1>1 DEF Reap, TableTypeOK
  <2> QED BY <1>0, <1>1, <2>1, <2>2, SameRows, StageStep, RowsStay DEF Reap
<1>2. ASSUME LoadPending PROVE PipelineKeeps
  <2>1. UNCHANGED rowVars
    BY <1>2 DEF LoadPending, rowVars
  <2>2. TableTypeOK'
    BY <1>2 DEF LoadPending, TableTypeOK
  <2> QED BY <1>0, <1>2, <2>1, <2>2, SameRows, StageStep, RowsStay DEF LoadPending
<1>3. ASSUME NextPending PROVE PipelineKeeps
  <2>1. UNCHANGED rowVars /\ rows' \subseteq rows
    BY <1>3 DEF NextPending, rowVars
  <2>2. TableTypeOK'
    BY <1>3 DEF NextPending, TableTypeOK
  <2>3. ClosedKept
    BY <2>1, SameRows
  <2>4. CASE drain = {}
    BY <1>0, <1>3, <2>1, <2>2, <2>4, SameRows, StageStep, RowsStay DEF NextPending
  <2>5. CASE drain # {}
    <3>0. worker[Hourly] = "next"
      BY <1>3 DEF NextPending
    <3>1. ~readClosed[Hourly]
      BY <1>0, <3>0 DEF JobsCurrent
    <3>2. PICK p \in drain : /\ worker' = [worker EXCEPT ![Hourly] = "claim"]
                            /\ job' = [job EXCEPT ![Hourly] = p]
                            /\ UNCHANGED <<readClosed, retried>>
      BY <1>3, <2>5 DEF NextPending
    <3>3. WorkerTypeOK' /\ JobsCurrent'
      BY <1>0, <2>3, <3>1, <3>2 DEF WorkerTypeOK, JobsCurrent, TableTypeOK, ClosedKept
    <3> QED BY <1>3, <2>1, <2>2, <3>3, SameRows, RowsStay DEF NextPending
  <2> QED BY <2>4, <2>5
<1>4. ASSUME NEW p \in Positions, Age(p) PROVE PipelineKeeps
  <2>1. UNCHANGED rowVars /\ UNCHANGED workerVars
    BY <1>4 DEF Age, rowVars
  <2>2. TableTypeOK'
    BY <1>4 DEF Age, TableTypeOK
  <2> QED BY <1>4, <2>1, <2>2, SameRows, WorkersStay, RowsStay DEF Age
<1> QED BY <1>1, <1>2, <1>3, <1>4

\* A worker on its row, from the claim to the end.
LEMMA WorkerSteps ==
  ASSUME BookAssumption, PipelineAssumption, PipelineGood, NEW k \in Workers, WorkerStep(k)
  PROVE  PipelineKeeps
<1> USE DEF PipelineKeeps, PipelineGood, MarketTypeOK, bookVars
<1>0. {"settle", "gas", "release", "submit", "record", "credit", "flag", "done"} \subseteq Stages
  BY DEF Stages
<1>p. job[k] \in Positions
  BY DEF WorkerTypeOK
<1>1. ASSUME Claim(k) PROVE PipelineKeeps
  <2>1. UNCHANGED rowVars
    BY <1>1 DEF Claim, rowVars
  <2>2. ClosedKept
    BY <2>1, SameRows
  <2>3. TableTypeOK'
    BY <1>1, <1>p DEF Claim, TableTypeOK
  <2>4. CASE queue[job[k]] = "pending"
    <3>0. PICK s \in {"gas", "settle"} :
            /\ worker' = [worker EXCEPT ![k] = s]
            /\ readClosed' = [readClosed EXCEPT ![k] = (status[job[k]] = "closed")]
            /\ UNCHANGED <<job, retried, status>>
      BY <1>1, <2>1, <2>4 DEF Claim, rowVars
    <3>w. WorkerTypeOK'
      BY <1>0, <3>0 DEF WorkerTypeOK
    <3>j. JobsCurrent'
      BY <3>0 DEF WorkerTypeOK, JobsCurrent
    <3>1. WorkerTypeOK' /\ JobsCurrent'
      BY <3>w, <3>j
    <3> QED BY <1>1, <2>1, <2>3, <3>1, SameRows, RowsStay DEF Claim
  <2>5. CASE queue[job[k]] # "pending"
    <3>1. Finish(k)
      BY <1>1, <2>5 DEF Claim
    <3> QED BY <1>1, <2>1, <2>2, <2>3, <3>1, SameRows, RowsStay, FinishJob DEF Claim
  <2> QED BY <2>4, <2>5
<1>2. ASSUME GasGuard(k) PROVE PipelineKeeps
  <2>1. UNCHANGED rowVars
    BY <1>2 DEF GasGuard, rowVars
  <2>2. PICK s \in {"settle", "release"} : Stage(k, s)
    BY <1>2 DEF GasGuard
  <2>3. WorkerTypeOK' /\ JobsCurrent'
    BY <1>0, <2>1, <2>2, SameRows, StageStep
  <2> QED BY <1>2, <2>1, <2>3, SameRows, RowsStay DEF GasGuard, TableTypeOK
<1>3. ASSUME Settle(k) PROVE PipelineKeeps
  <2>1. UNCHANGED rowVars
    BY <1>3 DEF Settle, rowVars
  <2>2. PICK s \in {"flag", "submit", "credit"} : Stage(k, s) /\ (s = "flag" => readClosed[k])
    BY <1>3 DEF Settle
  <2>3. WorkerTypeOK' /\ JobsCurrent'
    BY <1>0, <2>1, <2>2, SameRows, StageStep
  <2> QED BY <1>3, <2>1, <2>3, SameRows, RowsStay DEF Settle, TableTypeOK
<1>4. ASSUME SubmitRedemption(k) PROVE PipelineKeeps
  <2>1. UNCHANGED rowVars /\ Stage(k, "record")
    BY <1>4 DEF SubmitRedemption, rowVars
  <2>2. TableTypeOK'
    BY <1>4 DEF SubmitRedemption, TableTypeOK
  <2> QED BY <1>0, <1>4, <2>1, <2>2, SameRows, RowsStay, StageStep DEF SubmitRedemption
<1>5. ASSUME RecordRedemption(k) PROVE PipelineKeeps
  <2>1. UNCHANGED rowVars /\ Stage(k, "credit")
    BY <1>5 DEF RecordRedemption, rowVars
  <2>2. TableTypeOK'
    BY <1>5 DEF RecordRedemption, TableTypeOK
  <2> QED BY <1>0, <1>5, <2>1, <2>2, SameRows, RowsStay, StageStep DEF RecordRedemption
<1>6. ASSUME RedemptionRaises(k) PROVE PipelineKeeps
  <2>1. UNCHANGED rowVars /\ Stage(k, "credit")
    BY <1>6 DEF RedemptionRaises, rowVars
  <2>2. PICK n \in {0, 1} : submits' = submits + n
    BY <1>6 DEF RedemptionRaises
  <2>3. TableTypeOK' /\ faults' \in 0 .. MaxFaults
    BY <1>6, <2>2, FaultType DEF RedemptionRaises, TableTypeOK
  <2> QED BY <1>0, <1>6, <2>1, <2>3, SameRows, RowsStay, StageStep DEF RedemptionRaises
<1>7. ASSUME CreditWinner(k) PROVE PipelineKeeps
  <2>1. RowTypeOK' /\ RowStep /\ ClosingKept /\ AbsentKept
    BY <1>7, <1>p, SettleStep, CreditSeqs DEF CreditWinner
  <2>2. ClosedKept
    BY <2>1, StepKeepsClosed
  <2>3. WorkerTypeOK' /\ JobsCurrent'
    BY <1>0, <1>7, <2>2, StageStep DEF CreditWinner
  <2> QED BY <1>7, <2>1, <2>2, <2>3, RowsStay DEF CreditWinner, TableTypeOK, marketVars
<1>8. ASSUME FlagClosed(k) PROVE PipelineKeeps
  <2>0. worker[k] = "flag" /\ FlagRow(job[k])
    BY <1>8 DEF FlagClosed
  <2>c. status[job[k]] = "closed"
    BY <2>0 DEF JobsCurrent
  <2>1. RowTypeOK' /\ RowStep /\ ClosingKept /\ AbsentKept
    BY <1>p, <2>0, <2>c, FlagStep
  <2>2. ClosedKept
    BY <2>1, StepKeepsClosed
  <2>3. WorkerTypeOK' /\ JobsCurrent'
    BY <1>0, <1>8, <2>2, StageStep DEF FlagClosed
  <2> QED BY <1>8, <2>1, <2>2, <2>3, RowsStay DEF FlagClosed, TableTypeOK, marketVars
<1>9. ASSUME MarkDone(k) PROVE PipelineKeeps
  <2>1. UNCHANGED rowVars
    BY <1>9 DEF MarkDone, rowVars
  <2>2. TableTypeOK'
    BY <1>9, <1>p DEF MarkDone, TableTypeOK
  <2> QED BY <1>9, <2>1, <2>2, SameRows, RowsStay, FinishJob DEF MarkDone
<1>10. ASSUME SettleRaises(k) PROVE PipelineKeeps
  <2>1. UNCHANGED rowVars
    BY <1>10 DEF SettleRaises, rowVars
  <2>2. faults' \in 0 .. MaxFaults
    BY <1>10, FaultType DEF SettleRaises
  <2>3. ClosedKept
    BY <2>1, SameRows
  <2>4. CASE k # Hourly /\ ~retried[k]
    <3>0. /\ worker' = [worker EXCEPT ![k] = "settle"]
          /\ retried' = [retried EXCEPT ![k] = TRUE]
          /\ UNCHANGED <<job, readClosed>>
      BY <1>10, <2>4 DEF SettleRaises
    <3>w. WorkerTypeOK'
      BY <1>0, <3>0 DEF WorkerTypeOK
    <3>j. JobsCurrent'
      BY <2>3, <3>0 DEF WorkerTypeOK, JobsCurrent, ClosedKept
    <3>1. WorkerTypeOK' /\ JobsCurrent'
      BY <3>w, <3>j
    <3> QED BY <1>10, <2>1, <2>2, <3>1, SameRows, RowsStay DEF SettleRaises, TableTypeOK
  <2>5. CASE ~(k # Hourly /\ ~retried[k])
    <3>1. Stage(k, "release")
      BY <1>10, <2>5 DEF SettleRaises
    <3>2. WorkerTypeOK' /\ JobsCurrent'
      BY <1>0, <2>3, <3>1, StageStep
    <3> QED BY <1>10, <2>1, <2>2, <3>2, SameRows, RowsStay DEF SettleRaises, TableTypeOK
  <2> QED BY <2>4, <2>5
<1>11. ASSUME Release(k) PROVE PipelineKeeps
  <2>1. UNCHANGED rowVars
    BY <1>11 DEF Release, rowVars
  <2>2. TableTypeOK'
    BY <1>11, <1>p DEF Release, TableTypeOK
  <2> QED BY <1>11, <2>1, <2>2, SameRows, RowsStay, FinishJob DEF Release
<1>12. ASSUME ReleaseRaises(k) PROVE PipelineKeeps
  <2>1. UNCHANGED rowVars
    BY <1>12 DEF ReleaseRaises, rowVars
  <2>2. faults' \in 0 .. MaxFaults
    BY <1>12, FaultType DEF ReleaseRaises
  <2> QED BY <1>12, <2>1, <2>2, SameRows, RowsStay, FinishJob DEF ReleaseRaises, TableTypeOK
<1> QED BY <1>1, <1>2, <1>3, <1>4, <1>5, <1>6, <1>7, <1>8, <1>9, <1>10, <1>11, <1>12
        DEF WorkerStep

\* Every step of the pipeline.
LEMMA PipelineSteps ==
  ASSUME BookAssumption, PipelineAssumption, PipelineGood, PipelineStep
  PROVE  PipelineKeeps
<1>1. Hourly \in Workers /\ Positions \subseteq Workers
  BY DEF Workers
<1> QED BY <1>1, DetectSteps, QueueSteps, WorkerSteps DEF PipelineStep, HourlyStep

-----------------------------------------------------------------------------
(* The whole system.                                                       *)

\* The type invariant by tables and tasks.
LEMMA TypeParts ==
  TypeOK <=> /\ RowTypeOK /\ MarketTypeOK /\ CloserTypeOK /\ TableTypeOK /\ WorkerTypeOK
             /\ approved \in SUBSET Positions /\ crashes \in 0 .. MaxCrashes
BY DEF TypeOK, BookTypeOK, PipelineTypeOK, RowTypeOK, MarketTypeOK, TableTypeOK, WorkerTypeOK

\* The invariant holds at the start.
LEMMA InitInvariant ==
  ASSUME BookAssumption, WatcherAssumption, PipelineAssumption, SettlementAssumption, Init
  PROVE  IInv
<1> USE DEF Init, BookInit, CloserInit, PipelineInit
<1>0. MarketTypeOK
  <2>1. 0 \in 0 .. MaxFaults
    BY DEF BookAssumption
  <2> QED BY <2>1 DEF MarketTypeOK
<1>1. RowTypeOK
  BY CreditSeqs DEF RowTypeOK, Status
<1>2. CloserTypeOK
  BY DEF CloserTypeOK, Places, WatcherAssumption
<1>3. TableTypeOK
  BY DEF TableTypeOK
<1>4. WorkerTypeOK
  BY AnyRowType DEF WorkerTypeOK, Workers, Stages
<1>5. approved \in SUBSET Positions /\ crashes \in 0 .. MaxCrashes
  BY DEF SettlementAssumption
<1>6. PaidOnce /\ Placed /\ ClaimsHeld /\ ApprovedAbsent /\ RedeemedIsClosed
  BY DEF PaidOnce, Placed, ClaimsHeld, Claimed, ApprovedAbsent, RedeemedIsClosed
<1>7. ReadsCurrent
  BY DEF ReadsCurrent, RowsCurrent, JobsCurrent
<1> QED BY <1>0, <1>1, <1>2, <1>3, <1>4, <1>5, <1>6, <1>7, TypeParts DEF IInv

\* What is left to show once the rows moved as the statements allow.
LEMMA NextInvariant ==
  ASSUME IInv, RowTypeOK', MarketTypeOK', CloserTypeOK', TableTypeOK', WorkerTypeOK',
         approved' \in SUBSET Positions, crashes' \in 0 .. MaxCrashes,
         RowStep, Placed', ClaimsHeld', ApprovedAbsent', ReadsCurrent'
  PROVE  IInv' /\ RowStep
<1>1. TypeOK'
  BY DEF TypeOK, BookTypeOK, PipelineTypeOK, RowTypeOK, MarketTypeOK, TableTypeOK, WorkerTypeOK
<1>2. RowTypeOK
  BY TypeParts DEF IInv
<1>3. PaidOnce' /\ RedeemedIsClosed'
  BY <1>2, RowInvariants DEF IInv
<1> QED BY <1>1, <1>3 DEF IInv

\* An approved entry waits while no row appears for it.
LEMMA ApprovalsStay ==
  ASSUME ApprovedAbsent, approved \in SUBSET Positions, approved' \subseteq approved, AbsentKept
  PROVE  ApprovedAbsent'
BY DEF ApprovedAbsent, AbsentKept

\* The pipeline stands still while another task moves the rows.
LEMMA ReadsStay ==
  ASSUME ReadsCurrent, TableTypeOK, WorkerTypeOK, RowStep, UNCHANGED pipelineVars
  PROVE  ReadsCurrent' /\ TableTypeOK' /\ WorkerTypeOK'
<1>1. ClosedKept
  BY StepKeepsClosed
<1>2. rows' \subseteq rows /\ UNCHANGED workerVars
  BY DEF pipelineVars, workerVars
<1>3. TableTypeOK'
  BY DEF TableTypeOK, pipelineVars
<1> QED BY <1>1, <1>2, <1>3, RowsStay, WorkersStay DEF ReadsCurrent

\* The closers stand still while another task moves the rows.
LEMMA ClaimsStay ==
  ASSUME CloserTypeOK, Placed, ClaimsHeld, ClosingKept, UNCHANGED closerVars
  PROVE  CloserTypeOK' /\ Placed' /\ ClaimsHeld'
BY StayPut DEF CloserTypeOK, closerVars

\* Every step keeps the invariant, and moves the rows as the statements allow.
LEMMA StepInvariant ==
  ASSUME BookAssumption, WatcherAssumption, PipelineAssumption, SettlementAssumption,
         IInv, [Next]_vars
  PROVE  IInv' /\ RowStep
<1> USE DEF IInv
<1>t. /\ RowTypeOK /\ MarketTypeOK /\ CloserTypeOK /\ TableTypeOK /\ WorkerTypeOK
      /\ approved \in SUBSET Positions /\ crashes \in 0 .. MaxCrashes
  BY TypeParts
<1>1. ASSUME NEW p \in Positions, Approve(p) PROVE IInv' /\ RowStep
  <2>1. UNCHANGED rowVars /\ UNCHANGED closerVars /\ UNCHANGED pipelineVars
    BY <1>1 DEF Approve, bookVars, rowVars
  <2>2. RowTypeOK' /\ RowStep /\ ClosingKept /\ AbsentKept
    BY <1>t, <2>1, SameRows
  <2>3. MarketTypeOK' /\ crashes' \in 0 .. MaxCrashes
    BY <1>t, <1>1 DEF Approve, MarketTypeOK, bookVars
  <2>4. approved' \in SUBSET Positions /\ ApprovedAbsent'
    BY <1>t, <1>1, <2>1 DEF Approve, ApprovedAbsent, rowVars
  <2> QED BY <1>t, <2>1, <2>2, <2>3, <2>4, ClaimsStay, ReadsStay, NextInvariant
<1>2. ASSUME NEW p \in Positions, Insert(p) PROVE IInv' /\ RowStep
  <2>1. UNCHANGED closerVars /\ UNCHANGED pipelineVars /\ status[p] = "absent"
    BY <1>2 DEF Insert, ApprovedAbsent
  <2>2. /\ RowTypeOK' /\ RowStep /\ ClosingKept
        /\ status' = [status EXCEPT ![p] = "open"]
    BY <1>t, <1>2, <2>1, InsertStep DEF Insert
  <2>3. MarketTypeOK' /\ crashes' \in 0 .. MaxCrashes
    BY <1>t, <1>2 DEF Insert, MarketTypeOK, marketVars
  <2>4. approved' \in SUBSET Positions /\ ApprovedAbsent'
    BY <1>t, <1>2, <2>2 DEF Insert, ApprovedAbsent, RowTypeOK
  <2> QED BY <1>t, <2>1, <2>2, <2>3, <2>4, ClaimsStay, ReadsStay, NextInvariant
<1>3. ASSUME Closing PROVE IInv' /\ RowStep
  <2>1. CloserStep /\ UNCHANGED pipelineVars /\ UNCHANGED <<approved, crashes>>
    BY <1>3 DEF Closing
  <2>2. CloserKeeps
    BY <1>t, <2>1, CloserSteps DEF CloserGood
  <2> QED BY <1>t, <2>1, <2>2, ApprovalsStay, ReadsStay, NextInvariant DEF CloserKeeps
<1>4. ASSUME Settling PROVE IInv' /\ RowStep
  <2>1. PipelineStep /\ UNCHANGED closerVars /\ UNCHANGED <<approved, crashes>>
    BY <1>4 DEF Settling
  <2>2. PipelineKeeps
    BY <1>t, <2>1, PipelineSteps DEF PipelineGood, ReadsCurrent
  <2> QED BY <1>t, <2>1, <2>2, ApprovalsStay, ClaimsStay, NextInvariant
          DEF PipelineKeeps, ReadsCurrent
<1>5. ASSUME Trading PROVE IInv' /\ RowStep
  <2>1. /\ UNCHANGED rowVars /\ UNCHANGED closerVars /\ UNCHANGED pipelineVars
        /\ UNCHANGED <<approved, crashes>> /\ MarketTypeOK'
    BY <1>t, <1>5 DEF Trading, MarketStep, PassDue, OfficialClose, Delist, SyncMarkets,
                      MarketTypeOK
  <2>2. RowTypeOK' /\ RowStep /\ ClosingKept /\ AbsentKept
    BY <1>t, <2>1, SameRows
  <2> QED BY <1>t, <2>1, <2>2, ApprovalsStay, ClaimsStay, ReadsStay, NextInvariant
<1>6. ASSUME Crash PROVE IInv' /\ RowStep
  <2>1. UNCHANGED rowVars /\ CloserCrash /\ PipelineCrash
    BY <1>6 DEF Crash, bookVars, rowVars
  <2>2. RowTypeOK' /\ RowStep
    BY <1>t, <2>1, SameRows
  <2>3. MarketTypeOK' /\ crashes' \in 0 .. MaxCrashes /\ approved' \in SUBSET Positions
        /\ ApprovedAbsent'
    BY <1>t, <1>6 DEF Crash, MarketTypeOK, bookVars, SettlementAssumption, ApprovedAbsent
  <2>4. CloserTypeOK'
    BY <1>t, <2>1 DEF CloserCrash, CloserTypeOK, Places, WatcherAssumption
  <2>5. Placed' /\ ClaimsHeld'
    BY <2>1 DEF CloserCrash, Placed, ClaimsHeld, Claimed
  <2>6. TableTypeOK' /\ RowsCurrent'
    BY <1>t, <2>1 DEF PipelineCrash, TableTypeOK, RowsCurrent
  <2>7. WorkerTypeOK' /\ JobsCurrent'
    BY <2>1, AnyRowType DEF PipelineCrash, WorkerTypeOK, JobsCurrent, Workers, Stages
  <2> QED BY <2>2, <2>3, <2>4, <2>5, <2>6, <2>7, NextInvariant DEF ReadsCurrent
<1>7. ASSUME UNCHANGED vars PROVE IInv' /\ RowStep
  <2>1. /\ UNCHANGED rowVars /\ UNCHANGED closerVars /\ UNCHANGED pipelineVars
        /\ UNCHANGED <<approved, crashes>> /\ MarketTypeOK'
    BY <1>t, <1>7 DEF vars, MarketTypeOK, bookVars, rowVars
  <2>2. RowTypeOK' /\ RowStep /\ ClosingKept /\ AbsentKept
    BY <1>t, <2>1, SameRows
  <2> QED BY <1>t, <2>1, <2>2, ApprovalsStay, ClaimsStay, ReadsStay, NextInvariant
<1> QED BY <1>1, <1>2, <1>3, <1>4, <1>5, <1>6, <1>7 DEF Next

-----------------------------------------------------------------------------
(* One SELL per live position.                                             *)

\* Until a call fails, a row the broker sold is claimed or closed, a closer about
\* to submit its SELL has sold nothing, and no closer rolls its claim back.
SoldInv ==
  faults = 0 =>
    /\ \A p \in Positions :
         sold[p] <= 1 /\ (sold[p] = 1 => status[p] \in {"closing", "closed"})
    /\ \A c \in Closers : at[c] # "reopen" /\ (at[c] = "sell" => sold[on[c]] = 0)

\* A step that sells nothing and takes no claim, while sold rows stay sold.
NothingSold ==
  /\ faults' \in Nat /\ (faults' = 0 => faults = 0)
  /\ UNCHANGED sold
  /\ \A p \in Positions :
       status[p] \in {"closing", "closed"} => status'[p] \in {"closing", "closed"}
  /\ \A c \in Closers :
       /\ at'[c] = "reopen" => at[c] = "reopen"
       /\ at'[c] = "sell" => at[c] = "sell" /\ on'[c] = on[c]

LEMMA NothingSoldKeeps ==
  ASSUME SoldInv, NothingSold
  PROVE  SoldInv'
BY DEF SoldInv, NothingSold

\* A closer that leaves its place for one where it holds no claim.
LEMMA UnclaimedMove ==
  ASSUME CloserTypeOK, NEW c \in Closers, NEW place, NEW p,
         Goto(c, place, p), place \notin {"sell", "reopen"}
  PROVE  \A d \in Closers : /\ at'[d] = "reopen" => at[d] = "reopen"
                            /\ at'[d] = "sell" => at[d] = "sell" /\ on'[d] = on[d]
BY DEF CloserTypeOK, Goto

\* The steps of a closer but the claim, the SELL and the rollback.
LEMMA UnsoldSteps ==
  ASSUME RowTypeOK, CloserTypeOK, faults \in Nat, faults' \in Nat,
         NEW c \in Closers, WatcherStep(c) \/ ManualStep(c),
         ~SellAccepted(c), ~SellRaised(c), ~ReopenLive(c), ~(ClaimLive(c) /\ status[on[c]] = "open")
  PROVE  NothingSold
<1> DEFINE SoldRows == \A p \in Positions :
             status[p] \in {"closing", "closed"} => status'[p] \in {"closing", "closed"}
<1>r. \A p : PaperCloseRow(p) \/ ExpireRow(p) \/ MarkRow(p) \/ FinishRow(p) => SoldRows
  BY DEF RowTypeOK, PaperCloseRow, ExpireRow, MarkRow, FinishRow, CloseRow, rowVars
<1>k. ASSUME NextRow(c), SoldRows, UNCHANGED sold, faults' = faults \/ faults' = faults + 1
      PROVE  NothingSold
  BY <1>k, UnclaimedMove, NextRowPlace DEF NothingSold
<1> USE DEF NothingSold, bookVars, rowVars
<1>1. CASE Load(c) \/ EndScan(c) \/ EndSweep(c)
  BY <1>1, UnclaimedMove DEF Load, EndScan, EndSweep
<1>2. ASSUME NEW row \in batch[c],
             PriceMissing(c, row) \/ Priced(c, row) \/ Forced(c, row) \/ SweepExpire(c, row)
      PROVE  NothingSold
  <2>1. CASE PriceMissing(c, row)
    BY <2>1, UnclaimedMove DEF PriceMissing
  <2>2. CASE Priced(c, row)
    BY <2>2, UnclaimedMove DEF Priced
  <2>3. CASE Forced(c, row)
    BY <2>3, UnclaimedMove DEF Forced
  <2>4. CASE SweepExpire(c, row)
    BY <2>4, <1>r DEF SweepExpire
  <2> QED BY <1>2, <2>1, <2>2, <2>3, <2>4
<1>3. CASE CheckExpired(c)
  <2>1. UNCHANGED <<status, sold, faults>> /\ (Goto(c, "expire", on[c]) \/ NextRow(c))
    BY <1>3 DEF CheckExpired
  <2> QED BY <2>1, <1>k, UnclaimedMove
<1>4. CASE Expire(c)
  BY <1>4, <1>r, <1>k DEF Expire
<1>5. CASE Hold(c)
  BY <1>5, <1>r, <1>k DEF Hold
<1>6. ASSUME NEW p \in Positions, ManualClose(c, p) PROVE NothingSold
  BY <1>6, UnclaimedMove DEF ManualClose
<1>7. CASE ClosePaper(c)
  BY <1>7, <1>r, <1>k DEF ClosePaper
<1>8. CASE ClaimLive(c) /\ status[on[c]] # "open"
  BY <1>8, <1>k DEF ClaimLive
<1>9. CASE FinishLive(c)
  BY <1>9, <1>r, <1>k DEF FinishLive
<1>10. CASE StatementLost(c)
  BY <1>10, <1>k DEF StatementLost, Fault
<1> QED BY <1>1, <1>2, <1>3, <1>4, <1>5, <1>6, <1>7, <1>8, <1>9, <1>10
        DEF WatcherStep, ManualStep, CloseStep

\* The claim, the SELL and the rollback.
LEMMA SellingSteps ==
  ASSUME RowTypeOK, CloserTypeOK, Placed, ClaimsHeld, SoldInv, faults \in Nat, faults' \in Nat,
         NEW c \in Closers,
         \/ SellAccepted(c) \/ SellRaised(c) \/ ReopenLive(c)
         \/ ClaimLive(c) /\ status[on[c]] = "open"
  PROVE  SoldInv'
<1>1. CASE SellAccepted(c)
  <2>1. /\ at[c] = "sell" /\ on[c] \in Positions /\ status[on[c]] = "closing"
        /\ \A d \in Closers : Claimed(d) /\ on[d] = on[c] => d = c
    BY <1>1 DEF SellAccepted, Placed, ClaimsHeld, Claimed
  <2>2. /\ sold' = [sold EXCEPT ![on[c]] = @ + 1] /\ UNCHANGED <<status, faults>>
        /\ at' = [at EXCEPT ![c] = "finish"] /\ on' = [on EXCEPT ![c] = on[c]]
    BY <1>1 DEF SellAccepted, Goto, bookVars
  <2> QED BY <2>1, <2>2 DEF SoldInv, CloserTypeOK, Claimed
<1>2. CASE SellRaised(c)
  <2>1. faults' # 0
    BY <1>2 DEF SellRaised, Fault
  <2> QED BY <2>1 DEF SoldInv
<1>3. CASE ReopenLive(c)
  <2>1. at[c] = "reopen" /\ UNCHANGED faults
    BY <1>3 DEF ReopenLive
  <2> QED BY <2>1 DEF SoldInv
<1>4. CASE ClaimLive(c) /\ status[on[c]] = "open"
  <2>1. /\ on[c] \in Positions /\ status[on[c]] = "open"
        /\ status' = [status EXCEPT ![on[c]] = "closing"]
        /\ at' = [at EXCEPT ![c] = "sell"] /\ on' = [on EXCEPT ![c] = on[c]]
        /\ UNCHANGED <<sold, faults>>
    BY <1>4 DEF ClaimLive, ClaimRow, Goto, Placed
  <2>2. faults = 0 => sold[on[c]] = 0
    BY <2>1 DEF SoldInv, CloserTypeOK
  <2> QED BY <2>1, <2>2 DEF SoldInv, CloserTypeOK, RowTypeOK
<1> QED BY <1>1, <1>2, <1>3, <1>4

\* Every step keeps it.
LEMMA SoldStep ==
  ASSUME IInv, IInv', RowStep, SoldInv, [Next]_vars
  PROVE  SoldInv'
<1>t. /\ RowTypeOK /\ CloserTypeOK /\ Placed /\ ClaimsHeld
      /\ faults \in Nat /\ faults' \in Nat
  BY TypeParts DEF IInv, TypeOK, BookTypeOK
<1>1. CASE Closing
  <2>1. ASSUME NEW c \in Closers, WatcherStep(c) \/ ManualStep(c) PROVE SoldInv'
    BY <1>t, <2>1, UnsoldSteps, NothingSoldKeeps, SellingSteps
  <2>2. ASSUME NEW p \in Positions, ForceClose(p) PROVE SoldInv'
    BY <1>t, <2>2, NothingSoldKeeps DEF ForceClose, bookVars, NothingSold
  <2> QED BY <1>1, <2>1, <2>2 DEF Closing, CloserStep, Closers
<1>2. CASE UNCHANGED <<at, on, sold>> /\ (faults' = faults \/ faults' = faults + 1) /\ ClosingKept
  BY <1>t, <1>2, StepKeepsClosed, NothingSoldKeeps DEF NothingSold, ClosingKept, ClosedKept
<1>3. CASE Settling
  <2>1. PipelineStep /\ UNCHANGED closerVars
    BY <1>3 DEF Settling
  <2>2. PipelineGood
    BY TypeParts DEF IInv, PipelineGood, ReadsCurrent
  <2>3. ClosingKept
    BY <2>1, <2>2, PipelineSteps, BookAssumption, PipelineAssumption DEF PipelineKeeps
  <2>4. faults' = 0 => faults = 0
    BY <1>t, <2>1 DEF PipelineStep, DetectStep, DetectStart, DetectOpen, Park, DetectClosed,
          SettleLoser, Enqueue, ClassifyRaises, Flip, HourlyStep, Reap, LoadPending, NextPending,
          WorkerStep, Claim, GasGuard, Settle, SubmitRedemption, RecordRedemption, RedemptionRaises,
          CreditWinner, FlagClosed, MarkDone, SettleRaises, Release, ReleaseRaises, Age, Fault
  <2> QED BY <1>t, <2>1, <2>3, <2>4, StepKeepsClosed, NothingSoldKeeps
          DEF NothingSold, ClosingKept, ClosedKept, closerVars
<1>4. CASE Crash
  BY <1>t, <1>4, NothingSoldKeeps DEF Crash, CloserCrash, NothingSold, bookVars
<1>5. CASE Trading \/ UNCHANGED vars \/ (\E p \in Positions : Approve(p))
  <2>1. UNCHANGED <<status, at, on, sold, faults>>
    BY <1>5 DEF Trading, MarketStep, PassDue, OfficialClose, Delist, SyncMarkets, vars, Approve,
                bookVars, rowVars, closerVars
  <2> QED BY <1>2, <2>1 DEF ClosingKept
<1>6. ASSUME NEW p \in Positions, Insert(p) PROVE SoldInv'
  <2>1. status[p] = "absent" /\ status' = [status EXCEPT ![p] = "open"]
        /\ UNCHANGED <<at, on, sold, faults>>
    BY <1>6 DEF Insert, InsertPosition, closerVars, IInv, ApprovedAbsent
  <2> QED BY <1>2, <1>t, <2>1 DEF ClosingKept, RowTypeOK
<1> QED BY <1>1, <1>3, <1>4, <1>5, <1>6 DEF Next

-----------------------------------------------------------------------------
(* The queue, for paper positions whose winners are open from the start.   *)

\* No live row is ever in closing, and no winner appears while the market is
\* classified: a live close in flight lets a settlement finish its queue row on
\* nothing, and a winner inserted behind the snapshot is never queued.
PaperBook == Live = {} /\ Winners \intersect Late = {}

\* A worker that is between the claim of its row and the end of it.
Busy(k) == worker[k] \notin {"idle", "load", "next", "claim"}

\* Rows are never 'closing', and winners are in the table.
PaperRows ==
  /\ \A p \in Positions : status[p] # "closing"
  /\ \A p \in Winners : status[p] # "absent"

\* Only winners are queued, and only what is queued is worked on.
WinnersQueued ==
  /\ \A p \in Positions : queue[p] # "none" => p \in Winners
  /\ \A k \in Workers : Busy(k) => job[k] \in Winners

\* A clean classification has every waiting winner queued, or still to queue.
Classified ==
  detect = "classify" /\ clean =>
    \A p \in Winners : Unsettled(p) => queue[p] # "none" \/ \E row \in rows : row[1] = p

\* What is done, or about to be marked done, is closed.
DoneClosed ==
  /\ \A k \in Workers : worker[k] = "done" => status[job[k]] = "closed"
  /\ DoneIsSettled

QueueInv == PaperRows /\ WinnersQueued /\ Classified /\ FlipAfterEnqueue /\ DoneClosed

\* What the rows of a paper book do in one step.
LEMMA PaperStep ==
  ASSUME BookAssumption, RowTypeOK, PaperBook, PaperRows, RowStep
  PROVE  /\ PaperRows' /\ ClosedKept
         /\ \A p \in Winners : Unsettled(p)' => Unsettled(p)
<1>1. ClosedKept
  BY StepKeepsClosed
<1>2. ASSUME NEW p \in Positions
      PROVE  /\ status'[p] # "closing" /\ (status'[p] = "absent" => status[p] = "absent")
             /\ status[p] # "absent" => (Unsettled(p)' => Unsettled(p))
  <2>1. status[p] # "closing" /\ p \notin Live
    BY DEF PaperBook, PaperRows
  <2>2. CASE RowKept(p)
    BY <2>1, <2>2 DEF RowKept, Unsettled
  <2>3. CASE RowMoves(p)
    <3>1. /\ status[p] # "closed" /\ status'[p] # "closed" /\ status'[p] # "closing"
          /\ (status'[p] = "absent" => status[p] = "absent")
      BY <2>1, <2>3 DEF RowMoves
    <3> QED BY <2>1, <3>1 DEF Unsettled, RowTypeOK, Status
  <2>4. CASE RowCloses(p)
    BY <2>4 DEF RowCloses, Unsettled
  <2> QED BY <2>2, <2>3, <2>4 DEF RowStep
<1>3. Winners \subseteq Positions
  BY DEF BookAssumption
<1> QED BY <1>1, <1>2, <1>3 DEF PaperRows

\* A step that leaves the pipeline where it is.
LEMMA QueueStays ==
  ASSUME BookAssumption, PaperBook, RowTypeOK, TableTypeOK, WorkerTypeOK, QueueInv, RowStep,
         UNCHANGED <<queue, worker, job>>, resolved' => resolved,
         detect' = "classify" /\ clean' => detect = "classify" /\ clean /\ rows' = rows
  PROVE  QueueInv'
<1>1. PaperRows' /\ ClosedKept /\ \A p \in Winners : Unsettled(p)' => Unsettled(p)
  BY PaperStep DEF QueueInv
<1>2. WinnersQueued'
  BY DEF QueueInv, WinnersQueued, Busy
<1>3. Classified'
  BY <1>1 DEF QueueInv, Classified
<1>4. FlipAfterEnqueue'
  BY <1>1 DEF QueueInv, FlipAfterEnqueue
<1>5. DoneClosed'
  BY <1>1 DEF QueueInv, DoneClosed, DoneIsSettled, ClosedKept, WorkerTypeOK
<1> QED BY <1>1, <1>2, <1>3, <1>4, <1>5 DEF QueueInv

\* A worker that goes on, with the table as it is.
LEMMA QueueWorks ==
  ASSUME BookAssumption, PaperBook, RowTypeOK, TableTypeOK, WorkerTypeOK, QueueInv, RowStep,
         UNCHANGED <<queue, job, resolved, detect, clean, rows>>,
         NEW k \in Workers, NEW s, worker' = [worker EXCEPT ![k] = s],
         s \notin {"idle", "load", "next", "claim"} => Busy(k),
         s = "done" => status'[job[k]] = "closed"
  PROVE  QueueInv'
<1>1. PaperRows' /\ ClosedKept /\ \A p \in Winners : Unsettled(p)' => Unsettled(p)
  BY PaperStep DEF QueueInv
<1>2. WinnersQueued'
  BY DEF QueueInv, WinnersQueued, Busy, WorkerTypeOK
<1>3. Classified'
  BY <1>1 DEF QueueInv, Classified
<1>4. FlipAfterEnqueue'
  BY <1>1 DEF QueueInv, FlipAfterEnqueue
<1>5. DoneClosed'
  BY <1>1 DEF QueueInv, DoneClosed, DoneIsSettled, ClosedKept, WorkerTypeOK
<1> QED BY <1>1, <1>2, <1>3, <1>4, <1>5 DEF QueueInv

\* A worker that ends its row, and leaves the row in the state it names.
LEMMA QueueEnds ==
  ASSUME BookAssumption, PaperBook, RowTypeOK, TableTypeOK, WorkerTypeOK, QueueInv, RowStep,
         UNCHANGED <<resolved, detect, clean, rows>>, NEW k \in Workers, Finish(k),
         \A p \in Positions : queue'[p] = queue[p]
                              \/ (p = job[k] /\ queue[p] # "none" /\ queue'[p] = "pending")
                              \/ (p = job[k] /\ worker[k] = "done" /\ queue'[p] = "done")
  PROVE  QueueInv'
<1>1. PaperRows' /\ ClosedKept /\ \A p \in Winners : Unsettled(p)' => Unsettled(p)
  BY PaperStep DEF QueueInv
<1>q. \A p \in Positions : queue'[p] # "none" => p \in Winners
  BY DEF QueueInv, WinnersQueued, Busy
<1>k. \A p \in Positions : queue[p] # "none" => queue'[p] # "none"
  OBVIOUS
<1>w. \A i \in Workers \ {k} : worker'[i] = worker[i] /\ job'[i] = job[i]
  BY DEF Finish, WorkerTypeOK
<1>e. worker'[k] \in {"next", "idle"}
  BY DEF Finish, WorkerTypeOK
<1>2. WinnersQueued'
  BY <1>q, <1>w, <1>e DEF QueueInv, WinnersQueued, Busy
<1>3. Classified'
  BY <1>1, <1>k DEF QueueInv, Classified, BookAssumption
<1>4. FlipAfterEnqueue'
  BY <1>1, <1>k DEF QueueInv, FlipAfterEnqueue, BookAssumption
<1>5. DoneClosed'
  BY <1>1, <1>w, <1>e DEF QueueInv, DoneClosed, DoneIsSettled, ClosedKept, WorkerTypeOK
<1> QED BY <1>1, <1>2, <1>3, <1>4, <1>5 DEF QueueInv

\* The resolution job.
LEMMA DetectQueues ==
  ASSUME BookAssumption, PaperBook, RowTypeOK, TableTypeOK, WorkerTypeOK, RedeemedIsClosed, QueueInv, RowStep,
         DetectStep
  PROVE  QueueInv'
<1> USE DEF bookVars, marketVars, workerVars
<1>1. CASE DetectStart \/ DetectOpen \/ Park
  BY <1>1, QueueStays DEF DetectStart, DetectOpen, Park
<1>p. PaperRows' /\ ClosedKept /\ \A p \in Winners : Unsettled(p)' => Unsettled(p)
  BY PaperStep DEF QueueInv
<1>2. CASE DetectClosed
  <2>0. UNCHANGED <<status, queue, worker, job, resolved>>
    BY <1>2 DEF DetectClosed
  <2>1. ASSUME NEW p \in Winners, Unsettled(p) PROVE \E row \in rows' : row[1] = p
    <3>1. p \in {q \in Positions : status[q] # "absent" /\ ~redeemed[q]}
      BY <2>1 DEF Unsettled, RedeemedIsClosed, BookAssumption
    <3>2. <<p, status[p] = "closed">> \in rows'
      BY <1>2, <3>1 DEF DetectClosed
    <3> QED BY <3>2
  <2>2. Classified'
    BY <1>p, <2>1 DEF Classified
  <2> QED BY <1>p, <2>0, <2>2 DEF QueueInv, WinnersQueued, Busy, FlipAfterEnqueue, DoneClosed,
                                  DoneIsSettled, Unsettled
<1>3. ASSUME NEW row \in rows, SettleLoser(row) PROVE QueueInv'
  <2>1. /\ UNCHANGED <<queue, worker, job, resolved, detect, clean>> /\ row[1] \notin Winners
        /\ rows' = rows \ {row}
    BY <1>3 DEF SettleLoser
  <2>2. Classified'
    BY <1>p, <2>1 DEF QueueInv, Classified
  <2>3. DoneClosed'
    BY <1>p, <2>1 DEF QueueInv, DoneClosed, DoneIsSettled, ClosedKept, WorkerTypeOK
  <2> QED BY <1>p, <2>1, <2>2, <2>3 DEF QueueInv, WinnersQueued, Busy, FlipAfterEnqueue
<1>4. ASSUME NEW row \in rows, Enqueue(row) PROVE QueueInv'
  <2>1. /\ UNCHANGED <<status, worker, job, resolved, detect, clean>> /\ rows' = rows \ {row}
        /\ row[1] \in Winners /\ row[1] \in Positions
        /\ queue' = IF queue[row[1]] = "none" THEN [queue EXCEPT ![row[1]] = "pending"] ELSE queue
    BY <1>4 DEF Enqueue, TableTypeOK
  <2>2. /\ queue'[row[1]] # "none"
        /\ \A p \in Positions : queue[p] # "none" => queue'[p] = queue[p]
        /\ \A p \in Positions : queue'[p] # queue[p] => p = row[1] /\ queue'[p] = "pending"
    BY <2>1 DEF TableTypeOK
  <2>3. Classified'
    BY <1>p, <2>1, <2>2 DEF QueueInv, Classified, BookAssumption
  <2>4. FlipAfterEnqueue'
    BY <1>p, <2>1, <2>2 DEF QueueInv, FlipAfterEnqueue, BookAssumption
  <2>5. WinnersQueued' /\ DoneClosed'
    BY <2>1, <2>2 DEF QueueInv, WinnersQueued, Busy, DoneClosed, DoneIsSettled
  <2> QED BY <1>p, <2>3, <2>4, <2>5 DEF QueueInv
<1>5. ASSUME NEW row \in rows, ClassifyRaises(row) PROVE QueueInv'
  BY <1>5, QueueStays DEF ClassifyRaises
<1>6. CASE Flip
  <2>1. /\ UNCHANGED <<status, queue, job>> /\ detect = "classify" /\ detect' = "idle" /\ rows = {}
        /\ worker' = [k \in Workers |-> IF k \in spawn THEN "claim" ELSE worker[k]]
    BY <1>6 DEF Flip, rowVars
  <2>2. resolved' => resolved \/ clean
    BY <1>6 DEF Flip, FlipMarket
  <2>3. FlipAfterEnqueue'
    BY <2>1, <2>2 DEF QueueInv, Classified, FlipAfterEnqueue, Unsettled
  <2>4. WinnersQueued' /\ DoneClosed' /\ Classified'
    BY <2>1 DEF QueueInv, WinnersQueued, Busy, DoneClosed, DoneIsSettled, Classified
  <2> QED BY <1>p, <2>3, <2>4 DEF QueueInv
<1> QED BY <1>1, <1>2, <1>3, <1>4, <1>5, <1>6 DEF DetectStep

\* Rows that are claimed, reaped or grow old, while no worker finishes one.
LEMMA QueueTurns ==
  ASSUME BookAssumption, PaperBook, RowTypeOK, QueueInv, RowStep,
         UNCHANGED <<status, resolved, detect, clean, rows>>,
         \A p \in Positions : queue'[p] # queue[p] =>
           queue[p] # "none" /\ queue'[p] \in {"pending", "processing", "stale"},
         \A k \in Workers : /\ Busy(k)' => job'[k] \in Winners
                            /\ worker'[k] = "done" => worker[k] = "done" /\ job'[k] = job[k]
  PROVE  QueueInv'
<1>p. PaperRows' /\ ClosedKept /\ \A p \in Winners : Unsettled(p)' => Unsettled(p)
  BY PaperStep DEF QueueInv
<1>1. \A p \in Positions : queue[p] # "none" <=> queue'[p] # "none"
  OBVIOUS
<1>2. Classified' /\ FlipAfterEnqueue'
  BY <1>p, <1>1 DEF QueueInv, Classified, FlipAfterEnqueue, BookAssumption
<1>3. WinnersQueued' /\ DoneClosed'
  BY <1>1 DEF QueueInv, WinnersQueued, DoneClosed, DoneIsSettled
<1> QED BY <1>p, <1>2, <1>3 DEF QueueInv

\* The claims of the workers, and the reaper.
LEMMA ClaimQueues ==
  ASSUME BookAssumption, PaperBook, RowTypeOK, TableTypeOK, WorkerTypeOK, QueueInv, RowStep,
         \/ Reap \/ LoadPending \/ NextPending
         \/ \E p \in Positions : Age(p)
         \/ \E k \in Workers : Claim(k) /\ queue[job[k]] = "pending"
  PROVE  QueueInv'
<1> USE DEF bookVars, workerVars, Busy
<1>h. Hourly \in Workers
  BY DEF Workers
<1>b. \A k \in Workers : Busy(k) => job[k] \in Winners
  BY DEF QueueInv, WinnersQueued
\* Only worker k moves, to a place where it has no row, or a claimed one.
<1>m. ASSUME NEW k \in Workers, worker'[k] \in {"idle", "load", "next", "claim"},
             \A i \in Workers \ {k} : worker'[i] = worker[i] /\ job'[i] = job[i]
      PROVE  \A i \in Workers : /\ Busy(i)' => job'[i] \in Winners
                                /\ worker'[i] = "done" => worker[i] = "done" /\ job'[i] = job[i]
  BY <1>b, <1>m
<1>1. CASE Reap
  <2>1. /\ worker'[Hourly] = "load"
        /\ \A k \in Workers \ {Hourly} : worker'[k] = worker[k] /\ job'[k] = job[k]
    BY <1>1, <1>h DEF Reap, Stage, WorkerTypeOK
  <2>2. UNCHANGED <<status, resolved, detect, clean, rows>>
    BY <1>1 DEF Reap
  <2>3. ASSUME NEW p \in Positions, queue'[p] # queue[p]
        PROVE  queue[p] # "none" /\ queue'[p] \in {"pending", "processing", "stale"}
    BY <1>1, <2>3 DEF Reap
  <2>4. \A i \in Workers : /\ Busy(i)' => job'[i] \in Winners
                           /\ worker'[i] = "done" => worker[i] = "done" /\ job'[i] = job[i]
    BY <1>h, <1>m, <2>1
  <2> QED BY QueueTurns, <2>2, <2>3, <2>4
<1>2. CASE LoadPending
  <2>1. /\ worker'[Hourly] = "next" /\ UNCHANGED <<status, resolved, detect, clean, rows, queue>>
        /\ \A k \in Workers \ {Hourly} : worker'[k] = worker[k] /\ job'[k] = job[k]
    BY <1>2, <1>h DEF LoadPending, Stage, WorkerTypeOK
  <2>4. \A i \in Workers : /\ Busy(i)' => job'[i] \in Winners
                           /\ worker'[i] = "done" => worker[i] = "done" /\ job'[i] = job[i]
    BY <1>h, <1>m, <2>1
  <2> QED BY QueueTurns, <2>1, <2>4
<1>3. CASE NextPending
  <2>1. /\ worker'[Hourly] \in {"idle", "claim"}
        /\ \A k \in Workers \ {Hourly} : worker'[k] = worker[k] /\ job'[k] = job[k]
    BY <1>3, <1>h DEF NextPending, Stage, WorkerTypeOK
  <2>2. UNCHANGED <<status, resolved, detect, clean, rows, queue>>
    BY <1>3 DEF NextPending
  <2>4. \A i \in Workers : /\ Busy(i)' => job'[i] \in Winners
                           /\ worker'[i] = "done" => worker[i] = "done" /\ job'[i] = job[i]
    BY <1>h, <1>m, <2>1
  <2> QED BY QueueTurns, <2>2, <2>4
<1>4. ASSUME NEW p \in Positions, Age(p) PROVE QueueInv'
  <2>1. UNCHANGED <<status, resolved, detect, clean, rows, worker, job>>
    BY <1>4 DEF Age
  <2>2. ASSUME NEW q \in Positions, queue'[q] # queue[q]
        PROVE  queue[q] # "none" /\ queue'[q] \in {"pending", "processing", "stale"}
    <3>1. queue[p] = "processing" /\ queue' = [queue EXCEPT ![p] = "stale"]
      BY <1>4 DEF Age
    <3>2. q = p
      BY <2>2, <3>1 DEF TableTypeOK
    <3> QED BY <3>1, <3>2 DEF TableTypeOK
  <2>3. \A i \in Workers : /\ Busy(i)' => job'[i] \in Winners
                           /\ worker'[i] = "done" => worker[i] = "done" /\ job'[i] = job[i]
    BY <1>b, <2>1
  <2> QED BY QueueTurns, <2>1, <2>2, <2>3
<1>5. ASSUME NEW k \in Workers, Claim(k), queue[job[k]] = "pending" PROVE QueueInv'
  <2>1. job[k] \in Winners
    BY <1>5 DEF QueueInv, WinnersQueued, WorkerTypeOK
  <2>2. /\ queue' = [queue EXCEPT ![job[k]] = "processing"] /\ UNCHANGED job
        /\ \E s \in {"gas", "settle"} : worker' = [worker EXCEPT ![k] = s]
    BY <1>5 DEF Claim
  <2>3. UNCHANGED <<status, resolved, detect, clean, rows>>
    BY <1>5 DEF Claim
  <2>4. \A i \in Workers : /\ Busy(i)' => job'[i] \in Winners
                           /\ worker'[i] = "done" => worker[i] = "done" /\ job'[i] = job[i]
    BY <1>b, <2>1, <2>2 DEF Busy, WorkerTypeOK
  <2>5. ASSUME NEW p \in Positions, queue'[p] # queue[p]
        PROVE  queue[p] # "none" /\ queue'[p] \in {"pending", "processing", "stale"}
    <3>1. p = job[k]
      BY <2>2, <2>5 DEF TableTypeOK
    <3> QED BY <1>5, <2>2, <3>1 DEF TableTypeOK
  <2> QED BY QueueTurns, <2>3, <2>4, <2>5
<1> QED BY <1>1, <1>2, <1>3, <1>4, <1>5

\* The workers, from their claim to the end of the row.
LEMMA WorkQueues ==
  ASSUME BookAssumption, PaperBook, RowTypeOK, TableTypeOK, WorkerTypeOK, JobsCurrent, RedeemedIsClosed,
         QueueInv, RowStep, NEW k \in Workers, WorkerStep(k)
  PROVE  QueueInv'
<1> USE DEF bookVars, marketVars, workerVars
<1>1. CASE Claim(k)
  <2>1. CASE queue[job[k]] # "pending"
    BY <1>1, <2>1, QueueEnds DEF Claim
  <2> QED BY <1>1, <2>1, ClaimQueues
<1>2. CASE GasGuard(k)
  BY <1>2, QueueWorks DEF GasGuard, Stage, Busy
<1>3. CASE Settle(k)
  <2>1. PICK s \in {"flag", "submit", "credit"} : Stage(k, s)
    BY <1>3 DEF Settle
  <2> QED BY <1>3, <2>1, QueueWorks DEF Settle, Stage, Busy
<1>4. CASE SubmitRedemption(k)
  BY <1>4, QueueWorks DEF SubmitRedemption, Stage, Busy
<1>5. CASE RecordRedemption(k)
  BY <1>5, QueueWorks DEF RecordRedemption, Stage, Busy
<1>6. CASE RedemptionRaises(k)
  BY <1>6, QueueWorks DEF RedemptionRaises, Stage, Busy
<1>7. CASE CreditWinner(k)
  <2>1. Busy(k) /\ job[k] \in Winners /\ job[k] \in Positions
    BY <1>7 DEF CreditWinner, Busy, QueueInv, WinnersQueued, WorkerTypeOK
  <2>2. status[job[k]] \in {"open", "pending_settlement", "closed"}
    BY <2>1 DEF QueueInv, PaperRows, RowTypeOK, Status
  <2>3. status'[job[k]] = "closed"
    BY <1>7, <2>1, <2>2 DEF CreditWinner, SettleRow, CloseRow, Unsettled, RedeemedIsClosed, rowVars,
                            RowTypeOK
  <2> QED BY <1>7, <2>1, <2>3, QueueWorks DEF CreditWinner, Stage
<1>8. CASE FlagClosed(k)
  <2>1. status[job[k]] = "closed" /\ Busy(k)
    BY <1>8 DEF FlagClosed, JobsCurrent, Busy
  <2> QED BY <1>8, <2>1, QueueWorks DEF FlagClosed, FlagRow, Stage
<1>9. CASE MarkDone(k)
  BY <1>9, QueueEnds DEF MarkDone, TableTypeOK
<1>10. CASE SettleRaises(k)
  <2>1. PICK s \in {"settle", "release"} : worker' = [worker EXCEPT ![k] = s]
    BY <1>10 DEF SettleRaises, Stage
  <2>2. UNCHANGED <<queue, job, resolved, detect, clean, rows>> /\ Busy(k)
    BY <1>10 DEF SettleRaises, Stage, Busy
  <2> QED BY <2>1, <2>2, QueueWorks
<1>11. CASE Release(k)
  BY <1>11, QueueEnds DEF Release, TableTypeOK
<1>12. CASE ReleaseRaises(k)
  BY <1>12, QueueEnds DEF ReleaseRaises
<1> QED BY <1>1, <1>2, <1>3, <1>4, <1>5, <1>6, <1>7, <1>8, <1>9, <1>10, <1>11, <1>12 DEF WorkerStep

\* Every step keeps it.
LEMMA QueueStep ==
  ASSUME BookAssumption, PaperBook, IInv, RowStep, QueueInv, [Next]_vars
  PROVE  QueueInv'
<1>t. RowTypeOK /\ TableTypeOK /\ WorkerTypeOK /\ JobsCurrent /\ RedeemedIsClosed
  BY TypeParts DEF IInv, ReadsCurrent
<1>1. CASE Settling
  <2>1. PipelineStep
    BY <1>1 DEF Settling
  <2> QED BY <1>t, <2>1, DetectQueues, ClaimQueues, WorkQueues DEF PipelineStep, HourlyStep, Workers
<1>2. CASE Closing
  <2>1. UNCHANGED <<resolved, pipelineVars>>
    BY <1>2 DEF Closing, CloserStep, WatcherStep, ManualStep, CloseStep, Load, PriceMissing, Priced, Forced,
          SweepExpire, CheckExpired, Expire, Hold, EndScan, EndSweep, ManualClose, ClosePaper, ClaimLive,
          SellAccepted, SellRaised, FinishLive, ReopenLive, StatementLost, ForceClose, bookVars, marketVars
  <2> QED BY <1>t, <2>1, QueueStays DEF pipelineVars
<1>3. CASE Trading
  <2>1. UNCHANGED pipelineVars /\ (resolved' => resolved)
    BY <1>3 DEF Trading, MarketStep, PassDue, OfficialClose, Delist, SyncMarkets
  <2> QED BY <1>t, <2>1, QueueStays DEF pipelineVars
<1>4. CASE UNCHANGED vars \/ (\E p \in Positions : Approve(p) \/ Insert(p))
  BY <1>t, <1>4, QueueStays DEF vars, Approve, Insert, bookVars, marketVars, pipelineVars
<1>5. CASE Crash
  <2>1. /\ UNCHANGED <<queue, status, resolved>> /\ detect' = "idle"
        /\ worker' = [k \in Workers |-> "idle"]
    BY <1>5 DEF Crash, PipelineCrash, bookVars
  <2>2. PaperRows' /\ \A p \in Winners : Unsettled(p)' => Unsettled(p)
    BY <1>t, PaperStep DEF QueueInv
  <2> QED BY <2>1, <2>2 DEF QueueInv, WinnersQueued, Busy, Classified, FlipAfterEnqueue, DoneClosed,
                            DoneIsSettled
<1> QED BY <1>1, <1>2, <1>3, <1>4, <1>5 DEF Next

-----------------------------------------------------------------------------
(* The theorems.                                                           *)

\* The inductive invariant holds in every reachable state.
THEOREM Inductive == Spec => []IInv
<1>1. Init => IInv
  BY InitInvariant, BookAssumption, WatcherAssumption, PipelineAssumption, SettlementAssumption
<1>2. IInv /\ [Next]_vars => IInv'
  BY StepInvariant, BookAssumption, WatcherAssumption, PipelineAssumption, SettlementAssumption
<1> QED BY <1>1, <1>2, PTL DEF Spec

\* The tables implement the abstract stake book: whatever the closers, the
\* settlement and the restarts do, a stake is placed, held and settled once, and
\* its one credit is posted by the very step that settles it.
THEOREM BookImplemented == Spec => ImplementsStakeBook
<1>1. Init => Stake!Init
  BY DEF Init, BookInit, Stake!Init, stakePhase, stakePaid
<1>2. IInv /\ [Next]_vars => [Stake!Next]_(Stake!stakeVars)
  <2> SUFFICES ASSUME IInv, [Next]_vars PROVE [Stake!Next]_(Stake!stakeVars)
    OBVIOUS
  <2>1. IInv' /\ RowStep
    BY StepInvariant, BookAssumption, WatcherAssumption, PipelineAssumption, SettlementAssumption
  <2>2. RowTypeOK /\ RowTypeOK' /\ PaidOnce
    BY <2>1 DEF IInv, TypeOK, BookTypeOK, RowTypeOK
  <2> QED BY <2>1, <2>2, BookSteps
<1> QED BY <1>1, <1>2, Inductive, PTL DEF Spec, Stake!Spec, ImplementsStakeBook

\* Type correctness of the whole settlement system.
THEOREM TypeCorrect == Spec => []TypeOK
<1>1. IInv => TypeOK
  BY DEF IInv
<1> QED BY <1>1, Inductive, PTL

\* No position is ever credited twice, nor closed without its one credit,
\* unless it is a loser the settlement wrote off.
THEOREM NoDoublePayout == Spec => []PaidOnce
<1>1. IInv => PaidOnce
  BY DEF IInv
<1> QED BY <1>1, Inductive, PTL

\* Two closers never submit the SELL of one position at the same time, and the
\* row they work on is 'closing' until they are done.
THEOREM ExclusiveClaim == Spec => []ClaimExclusive
<1>1. IInv => ClaimExclusive
  BY DEF IInv, ClaimsHeld, ClaimExclusive
<1> QED BY <1>1, Inductive, PTL

\* As long as no call has failed, the broker has accepted at most one SELL of any
\* live position, whichever closers fire on it together.
THEOREM OneSell == Spec => []SoldOnce
<1>1. Init => SoldInv
  BY DEF Init, BookInit, CloserInit, SoldInv
<1>2. IInv /\ SoldInv /\ [Next]_vars => SoldInv'
  BY StepInvariant, SoldStep, BookAssumption, WatcherAssumption, PipelineAssumption, SettlementAssumption
<1>3. SoldInv => SoldOnce
  BY DEF SoldInv, SoldOnce
<1> QED BY <1>1, <1>2, <1>3, Inductive, PTL DEF Spec

\* In a paper book the redeem queue tells the truth at every step: the market is
\* flipped only once every waiting winner is queued, a row is done only when its
\* position is closed, and what is redeemed is closed.
THEOREM QueueTellsTruth == PaperBook => (Spec => []QueueIsHonest)
<1> SUFFICES ASSUME PaperBook PROVE Spec => []QueueIsHonest
  OBVIOUS
<1>1. Init => QueueInv
  BY BookAssumption DEF Init, BookInit, PipelineInit, QueueInv, PaperBook, BookAssumption, PaperRows,
     WinnersQueued, Busy, Classified, FlipAfterEnqueue, DoneClosed, DoneIsSettled
<1>2. IInv /\ QueueInv /\ [Next]_vars => QueueInv'
  BY StepInvariant, QueueStep, BookAssumption, WatcherAssumption, PipelineAssumption, SettlementAssumption
<1>3. IInv /\ QueueInv => QueueIsHonest
  BY DEF IInv, QueueInv, DoneClosed, QueueIsHonest
<1> QED BY <1>1, <1>2, <1>3, Inductive, PTL DEF Spec

\* A redeemed position is closed.
THEOREM RedeemedClosed == Spec => []RedeemedIsClosed
<1>1. IInv => RedeemedIsClosed
  BY DEF IInv
<1> QED BY <1>1, Inductive, PTL
=============================================================================
