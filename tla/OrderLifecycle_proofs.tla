------------------------ MODULE OrderLifecycle_proofs ------------------------
(***************************************************************************)
(* Theorems about OrderLifecycle, for every size, set of broker ids and    *)
(* bound.  The invariant comes in six parts, one per table or task, and    *)
(* each action is shown to keep each part.                                 *)
(***************************************************************************)
EXTENDS OrderLifecycle, SequenceTheorems, TLAPS

\* Some order of the broker is matched completely.
FullyMatched == \E b \in Ids : broker[b].matched = Size

\* The broker calls an order filled only when it is matched completely.
BrokerPart ==
  /\ broker \in [Ids -> Orders]
  /\ \A b \in Ids : broker[b].state = "filled" => broker[b].matched = Size

Posted(b) == broker[b].state # "none"

\* An open row has refunded nothing, and its position is whole or closed by
\* somebody else; a filled row has a fully matched order.
RowPart ==
  /\ row \in Rows /\ Posted(row.bid)
  /\ pos \in [status : {"open", "closed", "cancelled"}, size : Amounts]
  /\ refunded \in Amounts
  /\ RowIsOpen => refunded = 0 /\ pos.size = Size /\ pos.status # "cancelled"
  /\ StakeAccounted
  /\ row.status = "filled" => FullyMatched

\* What the poller has read is an order that was posted, and a filled answer is true.
PollPart ==
  /\ poll \in [pc : {"idle", "ask", "act", "replace", "repost", "save", "withdraw", "close"},
              row : Rows, answer : Orders]
  /\ Posted(1) /\ Posted(poll.row.bid)
  /\ poll.pc = "act" => poll.answer.state # "none"
  /\ poll.answer.state = "filled" => FullyMatched

\* The frames that may be on their way: one that says filled is true.
Credible == {f \in Frames : f.status = "filled" => FullyMatched}

NetPart == net \in Seq(Credible) /\ Len(net) <= MaxFrames

SocketPart ==
  /\ ws \in [pc : {"idle", "trade", "aggregate", "fill", "load", "close"},
            frame : Credible \union {NoFrame}, found : Amounts]
  /\ ws.pc = "fill" => ws.frame.status = "filled"
  /\ ws.pc \in {"load", "close"} => ws.frame.status \in {"cancelled", "expired"}
  /\ ws.pc = "trade" => ws.frame.size \in Nat
  /\ ws.pc \in {"trade", "aggregate"} => ws.frame.bid \in Ids

RestPart ==
  /\ fills \in [trades : Nat, agg : [Ids -> Amounts]]
  /\ age \in 0 .. 2
  /\ faults \in 0 .. MaxFaults

\* The inductive invariant.
IInv == BrokerPart /\ RowPart /\ PollPart /\ NetPart /\ SocketPart /\ RestPart

-----------------------------------------------------------------------------
(* What a step may do to the broker and to the row.                        *)

\* No order disappears, and a matched amount that is complete stays.
BrokerStep ==
  \A b \in Ids : /\ Posted(b) => Posted(b)'
                 /\ broker[b].matched = Size => broker'[b].matched = Size

RowStep == ~RowIsOpen => ~RowIsOpen'

\* An order that is complete stays complete.
LEMMA FullStays ==
  ASSUME BrokerStep
  PROVE  /\ FullyMatched => FullyMatched'
         /\ Credible \subseteq Credible'
BY DEF BrokerStep, FullyMatched, Credible

\* What the assumption says of the constants.
LEMMA SizeFacts ==
  ASSUME LifecycleAssumption
  PROVE  /\ Size \in Nat \ {0} /\ 0 \in Amounts /\ Size \in Amounts
         /\ Ids \subseteq Nat /\ 1 \in Ids
         /\ MaxPolls \in Nat \ {0} /\ MaxFaults \in Nat /\ MaxFrames \in Nat
BY DEF LifecycleAssumption, Amounts

\* The row stays as it is while the broker goes on.
LEMMA RowStays ==
  ASSUME RowPart, BrokerStep, UNCHANGED rowVars
  PROVE  RowPart' /\ RowStep
<1>1. row.bid \in Ids
  BY DEF RowPart, Rows
<1>2. Posted(row.bid)'
  BY <1>1 DEF RowPart, BrokerStep, rowVars, Posted
<1> QED BY <1>2, FullStays DEF RowPart, RowStep, rowVars, RowIsOpen, StakeAccounted

\* The poller stands still while the broker goes on.
LEMMA PollStays ==
  ASSUME LifecycleAssumption, PollPart, BrokerStep, UNCHANGED poll
  PROVE  PollPart'
<1>1. poll.row.bid \in Ids /\ 1 \in Ids
  BY SizeFacts DEF PollPart, Rows
<1>2. Posted(poll.row.bid)' /\ Posted(1)'
  BY <1>1 DEF PollPart, BrokerStep, Posted
<1> QED BY <1>2, FullStays DEF PollPart

\* The poller moves on and forgets the answer.
LEMMA PollGoes ==
  ASSUME LifecycleAssumption, PollPart, BrokerStep,
         NEW place \in {"ask", "replace", "repost", "save", "withdraw", "close"}, Go(place)
  PROVE  PollPart'
<1>1. poll.row.bid \in Ids /\ 1 \in Ids
  BY SizeFacts DEF PollPart, Rows
<1>2. Posted(poll.row.bid)' /\ Posted(1)'
  BY <1>1 DEF PollPart, BrokerStep, Posted, Go
<1>3. NoOrder \in Orders /\ NoOrder.state = "none"
  BY SizeFacts DEF NoOrder, Orders
<1> QED BY <1>2, <1>3 DEF PollPart, Go

\* The rows and orders that tasks start from have their types.
LEMMA FirstRowType ==
  ASSUME LifecycleAssumption
  PROVE  FirstRow \in Rows /\ NoOrder \in Orders
BY SizeFacts DEF FirstRow, Rows, Statuses, StatusOpen, NoOrder, Orders, Amounts

\* The poller at rest has read nothing.
LEMMA PollRests ==
  ASSUME LifecycleAssumption, PollPart, BrokerStep, GoIdle
  PROVE  PollPart'
<1>1. Posted(1)'
  BY SizeFacts DEF PollPart, BrokerStep
<1>2. poll' = IdlePoller /\ IdlePoller.row = FirstRow /\ FirstRow.bid = 1
      /\ IdlePoller.answer = NoOrder /\ NoOrder.state = "none" /\ IdlePoller.pc = "idle"
  BY DEF GoIdle, IdlePoller, FirstRow, NoOrder
<1>3. IdlePoller \in [pc : {"idle", "ask", "act", "replace", "repost", "save", "withdraw", "close"},
                      row : Rows, answer : Orders]
  BY FirstRowType DEF IdlePoller
<1> QED BY <1>1, <1>2, <1>3 DEF PollPart, Posted

\* The frames stay true while the broker goes on.
LEMMA NetStays ==
  ASSUME NetPart, BrokerStep, UNCHANGED net
  PROVE  NetPart'
<1>1. net \in Seq(Credible')
  BY FullStays, SeqMonotonic DEF NetPart
<1> QED BY <1>1 DEF NetPart

\* The frame in hand stays true while the broker goes on.
LEMMA SocketStays ==
  ASSUME SocketPart, BrokerStep, UNCHANGED ws
  PROVE  SocketPart'
<1>1. ws.frame \in Credible' \union {NoFrame}
  BY FullStays DEF SocketPart
<1> QED BY <1>1 DEF SocketPart

\* The websocket task at rest has no frame.
LEMMA SocketRests ==
  ASSUME LifecycleAssumption, Done
  PROVE  SocketPart'
BY SizeFacts DEF Done, SocketPart, IdleSocket, NoFrame

\* A broker that does nothing makes a step of the broker.
LEMMA BrokerStays ==
  ASSUME BrokerPart, UNCHANGED broker
  PROVE  BrokerPart' /\ BrokerStep
BY DEF BrokerPart, BrokerStep, Posted

\* A fault is counted within its bound.
LEMMA FaultCounts ==
  ASSUME LifecycleAssumption, faults \in 0 .. MaxFaults, Fault
  PROVE  faults' \in 0 .. MaxFaults
BY SizeFacts DEF Fault

\* poll_attempts never exceeds the maximum.
LEMMA AttemptsType ==
  ASSUME LifecycleAssumption, NEW r \in Rows
  PROVE  Attempts(r) \in 0 .. MaxPolls
<1>1. r.polls \in 0 .. MaxPolls
  BY DEF Rows
<1> QED BY <1>1, SizeFacts DEF Attempts, Least

-----------------------------------------------------------------------------
(* The broker's steps and their frames.                                    *)

\* A sequence without one of its elements is shorter by one.
LEMMA RemoveShorter ==
  ASSUME NEW S, NEW s \in Seq(S), NEW i \in DOMAIN s
  PROVE  RemoveAt(s, i) \in Seq(S) /\ Len(RemoveAt(s, i)) = Len(s) - 1
<1>0. Len(s) \in Nat /\ i \in 1 .. Len(s)
  BY LenProperties
<1>1. i - 1 \in 0 .. Len(s) /\ i + 1 \in 1 .. Len(s) + 1
  BY <1>0
<1>2. SubSeq(s, 1, i - 1) \in Seq(S) /\ Len(SubSeq(s, 1, i - 1)) = i - 1
  BY <1>0, <1>1, SubSeqProperties
<1>3. SubSeq(s, i + 1, Len(s)) \in Seq(S) /\ Len(SubSeq(s, i + 1, Len(s))) = Len(s) - i
  BY <1>0, <1>1, SubSeqProperties
<1>4. RemoveAt(s, i) = SubSeq(s, 1, i - 1) \o SubSeq(s, i + 1, Len(s))
  BY DEF RemoveAt
<1>5. /\ RemoveAt(s, i) \in Seq(S)
      /\ Len(RemoveAt(s, i)) = Len(SubSeq(s, 1, i - 1)) + Len(SubSeq(s, i + 1, Len(s)))
  BY <1>2, <1>3, <1>4, ConcatProperties
<1>6. \A k, j \in Int : (j - 1) + (k - j) = k - 1
  OBVIOUS
<1>7. Len(s) \in Int /\ i \in Int
  BY <1>0
<1>8. (i - 1) + (Len(s) - i) = Len(s) - 1
  BY <1>6, <1>7
<1> QED BY <1>2, <1>3, <1>5, <1>8

\* A report puts some of its frames behind the others.
LEMMA ReportStep ==
  ASSUME LifecycleAssumption, NEW S, net \in Seq(S), NEW frames \in Seq(S),
         Len(net) + Len(frames) <= MaxFrames, faults \in 0 .. MaxFaults, Report(frames)
  PROVE  net' \in Seq(S) /\ Len(net') <= MaxFrames /\ faults' \in 0 .. MaxFaults
<1>0. Len(net) \in Nat /\ Len(frames) \in Nat /\ MaxFrames \in Nat
  BY LenProperties, SizeFacts
<1>1. CASE net' = net \o frames /\ UNCHANGED faults
  BY <1>0, <1>1, ConcatProperties
<1>2. CASE Fault /\ \E i \in DOMAIN frames : net' \in {net, net \o RemoveAt(frames, i)}
  <2>1. PICK i \in DOMAIN frames : net' \in {net, net \o RemoveAt(frames, i)}
    BY <1>2
  <2>2. RemoveAt(frames, i) \in Seq(S) /\ Len(RemoveAt(frames, i)) = Len(frames) - 1
    BY RemoveShorter
  <2>3. net \o RemoveAt(frames, i) \in Seq(S)
        /\ Len(net \o RemoveAt(frames, i)) = Len(net) + (Len(frames) - 1)
    BY <2>2, ConcatProperties
  <2>4. faults' \in 0 .. MaxFaults
    BY <1>2, FaultCounts
  <2>5. CASE net' = net
    BY <1>0, <2>4, <2>5
  <2>6. CASE net' = net \o RemoveAt(frames, i)
    BY <1>0, <2>3, <2>4, <2>6
  <2> QED BY <2>1, <2>5, <2>6
<1> QED BY <1>1, <1>2 DEF Report

\* The broker ends an order that is open.
LEMMA EndStep ==
  ASSUME LifecycleAssumption, BrokerPart, NetPart, faults \in 0 .. MaxFaults,
         NEW b \in Ids, NEW st \in {"cancelled", "expired"}, End(b, st)
  PROVE  BrokerPart' /\ BrokerStep /\ NetPart' /\ faults' \in 0 .. MaxFaults
<1>1. broker[b] \in Orders /\ broker[b].state = "open" /\ broker' = [broker EXCEPT ![b].state = st]
  BY DEF End, BrokerPart
<1>2. [broker[b] EXCEPT !.state = st] \in Orders
  BY <1>1 DEF Orders
<1>3. BrokerPart' /\ BrokerStep
  BY <1>1, <1>2 DEF BrokerPart, BrokerStep, Posted, Orders
<1>4. PICK n \in {Unknown, broker[b].matched} : Report(<<Update(b, st, n)>>)
  BY DEF End
<1>5. Update(b, st, n) \in Credible'
  BY <1>1, SizeFacts DEF Update, Credible, Frames, Updates, Orders
<1>6. net \in Seq(Credible') /\ Len(net) + 1 <= MaxFrames
  <2>1. net \in Seq(Credible')
    BY <1>3, FullStays, SeqMonotonic DEF NetPart
  <2> QED BY <2>1, LenProperties, SizeFacts DEF End
<1>7. <<Update(b, st, n)>> \in Seq(Credible') /\ Len(<<Update(b, st, n)>>) = 1
  BY <1>5
<1>8. net' \in Seq(Credible') /\ Len(net') <= MaxFrames /\ faults' \in 0 .. MaxFaults
  BY <1>4, <1>6, <1>7, ReportStep
<1> QED BY <1>3, <1>8 DEF NetPart

\* The broker matches some more of an open order.
LEMMA MatchStep ==
  ASSUME LifecycleAssumption, BrokerPart, NetPart, faults \in 0 .. MaxFaults,
         NEW b \in Ids, NEW n \in 1 .. Size, Match(b, n)
  PROVE  BrokerPart' /\ BrokerStep /\ NetPart' /\ faults' \in 0 .. MaxFaults
<1> DEFINE m  == broker[b].matched + n
           st == IF m = Size THEN "filled" ELSE "open"
<1>1. broker[b] \in Orders /\ broker[b].state = "open" /\ m <= Size
      /\ broker' = [broker EXCEPT ![b] = [state |-> st, matched |-> m]]
      /\ Report(<<Trade(b, n), Update(b, st, m)>>) /\ Len(net) + 2 <= MaxFrames
  BY DEF Match, BrokerPart
<1>2. m \in Amounts /\ n \in Amounts /\ broker[b].matched \in Amounts /\ broker[b].matched # Size
  BY <1>1, SizeFacts DEF Orders, Amounts
<1>3. [state |-> st, matched |-> m] \in Orders
  BY <1>2 DEF Orders
<1>4. BrokerPart' /\ BrokerStep
  <2>1. broker' \in [Ids -> Orders]
    BY <1>1, <1>3 DEF BrokerPart
  <2>2. \A c \in Ids : broker'[c] = IF c = b THEN [state |-> st, matched |-> m] ELSE broker[c]
    BY <1>1 DEF BrokerPart
  <2> QED BY <2>1, <2>2, <1>2 DEF BrokerPart, BrokerStep, Posted
<1>5. st = "filled" => FullyMatched'
  BY <1>1, <1>3, <1>4 DEF FullyMatched, BrokerPart
<1>6. Trade(b, n) \in Credible' /\ Update(b, st, m) \in Credible'
  BY <1>2, <1>5 DEF Trade, Update, Credible, Frames, Updates, Trades
<1>7. net \in Seq(Credible')
  BY <1>4, FullStays, SeqMonotonic DEF NetPart
<1>8. <<Trade(b, n), Update(b, st, m)>> \in Seq(Credible')
      /\ Len(<<Trade(b, n), Update(b, st, m)>>) = 2
  BY <1>6
<1>9. net' \in Seq(Credible') /\ Len(net') <= MaxFrames /\ faults' \in 0 .. MaxFaults
  BY <1>1, <1>7, <1>8, ReportStep
<1> QED BY <1>4, <1>9 DEF NetPart

-----------------------------------------------------------------------------
(* The two ways an order ends.                                             *)

\* _on_fill on an order that is complete.
LEMMA FillStep ==
  ASSUME LifecycleAssumption, RowPart, BrokerPart, FullyMatched, UNCHANGED broker,
         NEW attempts \in 0 .. MaxPolls, OnFill(attempts)
  PROVE  RowPart' /\ RowStep
<1>1. CASE RowIsOpen
  <2>1. row' = [row EXCEPT !.status = "filled", !.filled = Size, !.polls = attempts]
        /\ UNCHANGED <<pos, refunded>>
    BY <1>1 DEF OnFill
  <2>2. row' \in Rows /\ row'.status = "filled" /\ row'.bid = row.bid
    BY <2>1, SizeFacts DEF RowPart, Rows, Statuses
  <2> QED BY <1>1, <2>1, <2>2 DEF RowPart, RowStep, RowIsOpen, StatusOpen, StakeAccounted, Posted, FullyMatched
<1>2. CASE ~RowIsOpen
  <2>1. UNCHANGED rowVars
    BY <1>2 DEF OnFill, rowVars
  <2> QED BY <2>1, RowStays, BrokerStays
<1> QED BY <1>1, <1>2

\* _terminal_close refunds what is not matched, once.
LEMMA CloseStep ==
  ASSUME LifecycleAssumption, RowPart, BrokerPart, UNCHANGED broker,
         NEW st \in {"cancelled", "expired"}, NEW n \in Amounts,
         NEW attempts \in 0 .. MaxPolls, TerminalClose(st, n, attempts)
  PROVE  RowPart' /\ RowStep
<1>1. CASE RowIsOpen
  <2>0. Size \in Nat /\ n \in 0 .. Size
    BY SizeFacts DEF Amounts
  <2>1. row' = [row EXCEPT !.status = st, !.polls = attempts, !.filled = IF n > 0 THEN n ELSE @]
    BY <1>1 DEF TerminalClose
  <2>2. row' \in Rows /\ row'.status = st /\ row'.bid = row.bid
    BY <2>0, <2>1 DEF RowPart, Rows, Statuses, Amounts
  <2>3. ~RowIsOpen' /\ Posted(row.bid)' /\ row'.status # "filled"
    BY <2>2 DEF RowIsOpen, StatusOpen, Posted, RowPart
  <2>4. refunded = 0 /\ pos.size = Size /\ pos.status \in {"open", "closed"}
    BY <1>1 DEF RowPart
  <2>5. CASE pos.status # "open"
    <3>1. UNCHANGED <<pos, refunded>>
      BY <1>1, <2>5 DEF TerminalClose
    <3> QED BY <2>2, <2>3, <3>1 DEF RowPart, RowStep, StakeAccounted
  <2>6. CASE pos.status = "open" /\ n > 0
    <3>1. pos' = [pos EXCEPT !.size = n] /\ refunded' = refunded + Size - n
      BY <1>1, <2>6 DEF TerminalClose
    <3>2. pos' \in [status : {"open", "closed", "cancelled"}, size : Amounts]
          /\ pos'.size = n /\ pos'.status = "open"
      BY <3>1, <2>6 DEF RowPart
    <3>3. refunded' \in Amounts /\ pos'.size + refunded' = Size
      BY <2>0, <2>4, <3>1, <3>2 DEF Amounts
    <3> QED BY <2>2, <2>3, <3>2, <3>3 DEF RowPart, RowStep, StakeAccounted
  <2>7. CASE pos.status = "open" /\ ~(n > 0)
    <3>1. pos' = [pos EXCEPT !.status = "cancelled"] /\ refunded' = refunded + Size - n
      BY <1>1, <2>7 DEF TerminalClose
    <3>2. pos' \in [status : {"open", "closed", "cancelled"}, size : Amounts]
          /\ pos'.status = "cancelled"
      BY <3>1 DEF RowPart
    <3>3. refunded' = Size /\ refunded' \in Amounts
      BY <2>0, <2>4, <2>7, <3>1, SizeFacts
    <3> QED BY <2>2, <2>3, <3>2, <3>3 DEF RowPart, RowStep, StakeAccounted
  <2> QED BY <2>5, <2>6, <2>7
<1>2. CASE ~RowIsOpen
  <2>1. UNCHANGED rowVars
    BY <1>2 DEF TerminalClose
  <2> QED BY <2>1, RowStays, BrokerStays
<1> QED BY <1>1, <1>2

-----------------------------------------------------------------------------
(* The poller.                                                             *)

\* Fills and age stay as they are.
LEMMA RestStays ==
  ASSUME LifecycleAssumption, RestPart, UNCHANGED <<fills, age>>,
         faults' \in 0 .. MaxFaults
  PROVE  RestPart'
BY DEF RestPart

\* The poller writes only the row, from what it has read, and rests.
LEMMA PollWrites ==
  ASSUME LifecycleAssumption, IInv, GoIdle, RowPart' /\ RowStep,
         UNCHANGED <<broker, fills, net, age, ws, faults>>
  PROVE  IInv' /\ RowStep
<1>1. BrokerPart' /\ BrokerStep
  BY BrokerStays DEF IInv
<1>2. PollPart' /\ NetPart' /\ SocketPart'
  BY <1>1, PollRests, NetStays, SocketStays DEF IInv
<1>3. RestPart'
  BY RestStays DEF IInv, RestPart
<1> QED BY <1>1, <1>2, <1>3 DEF IInv

\* The poller only moves, and leaves the tables alone.
LEMMA PollReads ==
  ASSUME LifecycleAssumption, IInv, UNCHANGED <<broker, rowVars, fills, net, age, ws>>,
         faults' \in 0 .. MaxFaults, PollPart'
  PROVE  IInv' /\ RowStep
<1>1. BrokerPart' /\ BrokerStep
  BY BrokerStays DEF IInv
<1>2. RowPart' /\ RowStep /\ NetPart' /\ SocketPart'
  BY <1>1, RowStays, NetStays, SocketStays DEF IInv
<1>3. RestPart'
  BY RestStays DEF IInv
<1> QED BY <1>1, <1>2, <1>3 DEF IInv

\* A failed call ends the handling of the order.
LEMMA PollFails ==
  ASSUME LifecycleAssumption, IInv, GoIdle, Fault,
         UNCHANGED <<broker, rowVars, fills, net, age, ws>>
  PROVE  IInv' /\ RowStep
<1>1. BrokerStep
  BY BrokerStays DEF IInv
<1>2. faults' \in 0 .. MaxFaults
  BY FaultCounts DEF IInv, RestPart
<1> QED BY <1>1, <1>2, PollRests, PollReads DEF IInv

\* The SELECT, get_order and the timeouts only move the poller.
LEMMA ReadSteps ==
  ASSUME LifecycleAssumption, IInv, LoadRow \/ GetOrder \/ TimesOut
  PROVE  IInv' /\ RowStep
<1>0. BrokerStep /\ faults \in 0 .. MaxFaults
  <2>1. UNCHANGED broker
    BY DEF LoadRow, GetOrder, TimesOut
  <2> QED BY <2>1, BrokerStays DEF IInv, RestPart
<1>1. CASE LoadRow
  <2>1. poll' = [IdlePoller EXCEPT !.pc = "ask", !.row = row]
        /\ UNCHANGED <<broker, rowVars, fills, net, age, ws, faults>>
    BY <1>1 DEF LoadRow
  <2>2. poll' = [pc |-> "ask", row |-> row, answer |-> NoOrder]
    BY <2>1 DEF IdlePoller
  <2>3. NoOrder.state = "none" /\ NoOrder \in Orders
    BY FirstRowType DEF NoOrder
  <2>4. Posted(1)' /\ Posted(poll.row.bid)'
    BY <2>1, <2>2 DEF IInv, RowPart, PollPart, Posted
  <2>5. poll' \in [pc : {"idle", "ask", "act", "replace", "repost", "save", "withdraw", "close"},
                  row : Rows, answer : Orders]
    BY <2>2, <2>3 DEF IInv, RowPart
  <2>6. PollPart'
    BY <2>2, <2>3, <2>4, <2>5 DEF PollPart
  <2> QED BY <1>0, <2>1, <2>6, PollReads
<1>2. CASE GetOrder
  <2>1. poll' = [poll EXCEPT !.pc = "act", !.answer = broker[poll.row.bid]]
        /\ UNCHANGED <<broker, rowVars, fills, net, age, ws, faults>>
    BY <1>2 DEF GetOrder, Broker
  <2>2. poll.row.bid \in Ids /\ broker[poll.row.bid] \in Orders
    BY DEF IInv, PollPart, BrokerPart, Rows
  <2>3. broker[poll.row.bid].state = "filled" => FullyMatched
    BY <2>2 DEF IInv, BrokerPart, FullyMatched
  <2>4. broker[poll.row.bid].state # "none" /\ Posted(1)'
    BY <2>1 DEF IInv, PollPart, Posted
  <2>5. poll'.row = poll.row /\ poll'.answer = broker[poll.row.bid] /\ poll'.pc = "act"
        /\ broker' = broker
    BY <2>1 DEF IInv, PollPart
  <2>6. poll' \in [pc : {"idle", "ask", "act", "replace", "repost", "save", "withdraw", "close"},
                  row : Rows, answer : Orders]
    BY <2>1, <2>2 DEF IInv, PollPart
  <2>7. Posted(poll.row.bid)' /\ (poll'.answer.state = "filled" => FullyMatched')
    BY <1>0, <2>3, <2>4, <2>5, FullStays DEF Posted
  <2>8. PollPart'
    BY <2>4, <2>5, <2>6, <2>7 DEF PollPart
  <2> QED BY <1>0, <2>1, <2>8, PollReads
<1>3. CASE TimesOut
  <2>1. Go("withdraw") \/ Go("replace")
    BY <1>3 DEF TimesOut
  <2>2. PollPart'
    BY <1>0, <2>1, PollGoes DEF IInv
  <2> QED BY <1>0, <1>3, <2>2, PollReads DEF TimesOut
<1> QED BY <1>1, <1>2, <1>3

\* What the poller may write of a row that is open: counters and a status.
LEMMA RowTouched ==
  ASSUME RowPart, BrokerStep, UNCHANGED <<broker, pos, refunded>>, row' \in Rows,
         Posted(row.bid)', row'.status = row.status
  PROVE  RowPart' /\ RowStep
<1>1. RowIsOpen' <=> RowIsOpen
  BY DEF RowIsOpen
<1>2. StakeAccounted'
  BY DEF RowPart, StakeAccounted
<1>3. row'.status = "filled" => FullyMatched'
  BY FullStays DEF RowPart
<1> QED BY <1>1, <1>2, <1>3 DEF RowPart, RowStep

\* The poll that finds the order ended, filled or not.
LEMMA PollEndsStep ==
  ASSUME LifecycleAssumption, IInv, PollEnds
  PROVE  IInv' /\ RowStep
<1>1. Attempts(poll.row) \in 0 .. MaxPolls
  BY AttemptsType DEF IInv, PollPart
<1>2. GoIdle /\ UNCHANGED <<broker, fills, net, age, ws, faults>>
  BY DEF PollEnds
<1>3. CASE poll.answer.state = "filled"
  <2>1. OnFill(Attempts(poll.row)) /\ FullyMatched
    BY <1>3 DEF PollEnds, IInv, PollPart
  <2> QED BY <1>1, <1>2, <2>1, FillStep, PollWrites DEF IInv
<1>4. CASE poll.answer.state # "filled"
  <2>1. TerminalClose(poll.answer.state, poll.answer.matched, Attempts(poll.row))
    BY <1>4 DEF PollEnds
  <2>2. poll.answer.state \in {"cancelled", "expired"} /\ poll.answer.matched \in Amounts
    BY <1>4 DEF PollEnds, IInv, PollPart, Orders
  <2> QED BY <1>1, <1>2, <2>1, <2>2, CloseStep, PollWrites DEF IInv
<1> QED BY <1>3, <1>4

\* The guarded UPDATE of _on_partial_fill.
LEMMA PartialFillStep ==
  ASSUME LifecycleAssumption, IInv, PartialFill
  PROVE  IInv' /\ RowStep
<1>1. Attempts(poll.row) \in 0 .. MaxPolls /\ poll.answer.matched \in Amounts
  BY AttemptsType DEF IInv, PollPart, Orders
<1>2. GoIdle /\ UNCHANGED <<broker, pos, refunded, fills, net, age, ws, faults>>
  BY DEF PartialFill
<1>3. CASE RowIsOpen
  <2>1. row' = [row EXCEPT !.status = "partial_filled", !.filled = poll.answer.matched,
                           !.polls = Attempts(poll.row)]
    BY <1>3 DEF PartialFill
  <2>2. row' \in Rows /\ row'.status = "partial_filled" /\ row'.bid = row.bid
    BY <1>1, <2>1 DEF IInv, RowPart, Rows, Statuses, StatusOpen
  <2>3. RowPart' /\ RowStep
    BY <1>2, <1>3, <2>2 DEF IInv, RowPart, RowStep, RowIsOpen, StatusOpen, StakeAccounted, Posted
  <2> QED BY <1>2, <2>3, PollWrites
<1>4. CASE ~RowIsOpen
  <2>1. UNCHANGED rowVars
    BY <1>2, <1>4 DEF PartialFill, rowVars
  <2> QED BY <1>2, <2>1, BrokerStays, RowStays, PollWrites DEF IInv
<1> QED BY <1>3, <1>4

\* _touch and _mark_stale do not look at the status, but never open a row.
LEMMA CountPollStep ==
  ASSUME LifecycleAssumption, IInv, CountPoll
  PROVE  IInv' /\ RowStep
<1>1. Attempts(poll.row) \in 0 .. MaxPolls
  BY AttemptsType DEF IInv, PollPart
<1>2. GoIdle /\ UNCHANGED <<broker, pos, refunded, fills, net, age, ws, faults>>
  BY DEF CountPoll
<1>3. \E st \in {row.status, "stale"} :
        row' = [row EXCEPT !.polls = Attempts(poll.row), !.status = st]
  BY DEF CountPoll
<1>4. PICK st \in {row.status, "stale"} :
        row' = [row EXCEPT !.polls = Attempts(poll.row), !.status = st]
  BY <1>3
<1>5. row' \in Rows /\ row'.status = st /\ row'.bid = row.bid
  BY <1>1, <1>4 DEF IInv, RowPart, Rows, Statuses
<1>6. RowPart' /\ RowStep
  BY <1>2, <1>5 DEF IInv, RowPart, RowStep, RowIsOpen, StatusOpen, StakeAccounted, Posted, FullyMatched
<1> QED BY <1>2, <1>6, PollWrites

\* The unguarded UPDATE of the retry changes no status.
LEMMA SaveRetryStep ==
  ASSUME LifecycleAssumption, IInv, SaveRetry
  PROVE  IInv' /\ RowStep
<1>1. Attempts(poll.row) \in 0 .. MaxPolls /\ poll.row.bid \in Ids /\ Posted(poll.row.bid)
  BY AttemptsType DEF IInv, PollPart, Rows
<1>2. GoIdle /\ UNCHANGED <<broker, pos, refunded, fills, net, age, ws, faults>>
      /\ row' = [row EXCEPT !.bid = poll.row.bid, !.retried = TRUE, !.polls = Attempts(poll.row)]
  BY DEF SaveRetry, Broker
<1>3. row' \in Rows /\ row'.status = row.status /\ row'.bid = poll.row.bid
  BY <1>1, <1>2 DEF IInv, RowPart, Rows
<1>4. Posted(row.bid)'
  BY <1>1, <1>2, <1>3 DEF Posted
<1>5. RowPart' /\ RowStep
  BY <1>2, <1>3, <1>4, BrokerStays, RowTouched DEF IInv
<1> QED BY <1>2, <1>5, PollWrites

\* The close of the timeout, with nothing filled.
LEMMA SlippageCancelStep ==
  ASSUME LifecycleAssumption, IInv, SlippageCancel
  PROVE  IInv' /\ RowStep
<1>1. Attempts(poll.row) \in 0 .. MaxPolls /\ 0 \in Amounts
  BY AttemptsType, SizeFacts DEF IInv, PollPart
<1>2. GoIdle /\ UNCHANGED <<broker, fills, net, age, ws, faults>>
      /\ TerminalClose("cancelled", 0, Attempts(poll.row))
  BY DEF SlippageCancel
<1> QED BY <1>1, <1>2, CloseStep, PollWrites DEF IInv

\* A new order appears at the broker.
LEMMA PostStep ==
  ASSUME BrokerPart, NEW b \in Unused, broker' = [broker EXCEPT ![b].state = "open"]
  PROVE  BrokerPart' /\ BrokerStep
<1>1. b \in Ids /\ broker[b] \in Orders /\ broker[b].state = "none"
  BY DEF BrokerPart, Unused
<1>2. [broker[b] EXCEPT !.state = "open"] \in Orders
  BY <1>1 DEF Orders
<1>3. broker' \in [Ids -> Orders]
  BY <1>1, <1>2 DEF BrokerPart
<1>4. \A c \in Ids : broker'[c] = IF c = b THEN [broker[b] EXCEPT !.state = "open"] ELSE broker[c]
  BY <1>1 DEF BrokerPart
<1> QED BY <1>1, <1>3, <1>4 DEF BrokerPart, BrokerStep, Posted, Orders

\* cancel_order of a timeout, done, refused or failed.
LEMMA CancelAtBrokerStep ==
  ASSUME LifecycleAssumption, IInv, CancelAtBroker
  PROVE  IInv' /\ RowStep
<1>1. /\ UNCHANGED <<rowVars, fills, age, ws>>
      /\ \E place \in {"repost", "close"} : Go(place)
  BY DEF CancelAtBroker
<1>2. faults \in 0 .. MaxFaults /\ poll.row.bid \in Ids
  BY DEF IInv, RestPart, PollPart, Rows
<1>3. BrokerPart' /\ BrokerStep /\ NetPart' /\ faults' \in 0 .. MaxFaults
  <2>1. CASE End(poll.row.bid, "cancelled")
    BY <1>2, <2>1, EndStep DEF IInv
  <2>2. CASE UNCHANGED <<broker, net, faults>>
    BY <1>2, <2>2, BrokerStays, NetStays DEF IInv
  <2>3. CASE Fault /\ UNCHANGED <<broker, net>>
    BY <1>2, <2>3, BrokerStays, NetStays, FaultCounts DEF IInv
  <2> QED BY <2>1, <2>2, <2>3 DEF CancelAtBroker, Broker
<1>4. PollPart'
  BY <1>1, <1>3, PollGoes DEF IInv
<1>5. RowPart' /\ RowStep /\ SocketPart' /\ RestPart'
  BY <1>1, <1>3, RowStays, SocketStays, RestStays DEF IInv
<1> QED BY <1>3, <1>4, <1>5 DEF IInv

\* The new order may be known to the poller alone, or to nobody.
LEMMA RepostStep ==
  ASSUME LifecycleAssumption, IInv, Repost \/ RepostFails
  PROVE  IInv' /\ RowStep
<1>1. UNCHANGED <<rowVars, fills, net, age, ws>>
  BY DEF Repost, RepostFails
<1>2. BrokerPart' /\ BrokerStep
  <2>1. CASE UNCHANGED broker
    BY <2>1, BrokerStays DEF IInv
  <2>2. CASE \E b \in Unused : broker' = [broker EXCEPT ![b].state = "open"]
    BY <2>2, PostStep DEF IInv
  <2> QED BY <2>1, <2>2 DEF Repost, RepostFails
<1>3. RowPart' /\ RowStep /\ SocketPart' /\ NetPart'
  BY <1>1, <1>2, RowStays, SocketStays, NetStays DEF IInv
<1>4. CASE Repost
  <2>1. PICK b \in Unused : /\ broker' = [broker EXCEPT ![b].state = "open"]
                            /\ poll' = [poll EXCEPT !.pc = "save", !.row.bid = b]
    BY <1>4 DEF Repost
  <2>2. b \in Ids /\ Posted(b)'
    BY <2>1 DEF IInv, BrokerPart, Unused, Posted
  <2>3. [poll.row EXCEPT !.bid = b] \in Rows
    BY <2>2 DEF IInv, PollPart, Rows
  <2>4. poll'.pc = "save" /\ poll'.row.bid = b /\ poll'.answer = poll.answer
    BY <2>1, <2>3 DEF IInv, PollPart, Rows
  <2>5. poll' \in [pc : {"idle", "ask", "act", "replace", "repost", "save", "withdraw", "close"},
                  row : Rows, answer : Orders]
    BY <2>1, <2>3 DEF IInv, PollPart
  <2>6. Posted(1)' /\ Posted(poll.row.bid)'
    BY <1>2, <2>2, <2>4, SizeFacts DEF IInv, PollPart, BrokerStep, Posted
  <2>7. PollPart'
    BY <1>2, <2>4, <2>5, <2>6, FullStays DEF IInv, PollPart
  <2>8. RestPart'
    BY <1>1, <1>4, RestStays DEF IInv, RestPart, Repost
  <2> QED BY <1>2, <1>3, <2>7, <2>8 DEF IInv
<1>5. CASE RepostFails
  <2>1. PollPart'
    BY <1>2, <1>5, PollRests DEF IInv, RepostFails
  <2>2. RestPart'
    BY <1>1, <1>5, RestStays, FaultCounts DEF IInv, RestPart, RepostFails
  <2> QED BY <1>2, <1>3, <2>1, <2>2 DEF IInv
<1> QED BY <1>4, <1>5

-----------------------------------------------------------------------------
(* The websocket task.                                                     *)

\* The task writes the fills or the row, and leaves the rest alone.
LEMMA SocketWrites ==
  ASSUME LifecycleAssumption, IInv, UNCHANGED <<broker, age, poll>>,
         RowPart' /\ RowStep, SocketPart', NetPart',
         fills' \in [trades : Nat, agg : [Ids -> Amounts]], faults' \in 0 .. MaxFaults
  PROVE  IInv' /\ RowStep
<1>1. BrokerPart' /\ BrokerStep
  BY BrokerStays DEF IInv
<1>2. PollPart'
  BY <1>1, PollStays DEF IInv
<1> QED BY <1>1, <1>2 DEF IInv, RestPart

\* A frame that is taken is one that was sent.
LEMMA ReceiveStep ==
  ASSUME LifecycleAssumption, IInv, Receive
  PROVE  IInv' /\ RowStep
<1>0. BrokerStep
  BY BrokerStays DEF IInv, Receive
<1>1. PICK i \in Deliverable :
        /\ net' = RemoveAt(net, i)
        /\ ws' = IF net[i].bid = row.bid /\ RowIsOpen
                 THEN [pc |-> Dispatch(net[i]), frame |-> net[i],
                       found |-> IF net[i].size = Unknown THEN 0 ELSE net[i].size]
                 ELSE ws
  BY DEF Receive
<1>2. i \in DOMAIN net /\ net \in Seq(Credible) /\ Len(net) <= MaxFrames
  BY DEF Deliverable, IInv, NetPart
<1>3. net[i] \in Credible
  BY <1>2, ElementOfSeq, LenProperties
<1>4. UNCHANGED <<broker, rowVars, fills, age, poll, faults>>
  BY DEF Receive
<1>5. Credible' = Credible
  BY <1>4 DEF Credible, FullyMatched
<1>6. NetPart'
  <2>1. RemoveAt(net, i) \in Seq(Credible) /\ Len(RemoveAt(net, i)) = Len(net) - 1
    BY <1>2, RemoveShorter
  <2> QED BY <1>1, <1>2, <1>5, <2>1, LenProperties, SizeFacts DEF NetPart
<1>7. SocketPart'
  <2>1. CASE net[i].bid = row.bid /\ RowIsOpen
    <3> DEFINE f == net[i]
               n == IF f.size = Unknown THEN 0 ELSE f.size
    <3>1. ws' = [pc |-> Dispatch(f), frame |-> f, found |-> n]
      BY <1>1, <2>1
    <3>2. f \in Updates \/ f \in Trades
      BY <1>3 DEF Credible, Frames
    <3>3. f.bid \in Ids /\ n \in Amounts /\ f.status \in {"open", "filled", "cancelled", "expired"}
      BY <3>2, SizeFacts DEF Updates, Trades
    <3>4. Dispatch(f) = "trade" => f.size \in Nat
      BY <3>2, SizeFacts DEF Dispatch, Updates, Trades, Amounts
    <3>5. /\ Dispatch(f) \in {"trade", "aggregate", "fill", "load", "close"}
          /\ Dispatch(f) = "fill" => f.status = "filled"
          /\ Dispatch(f) \in {"load", "close"} => f.status \in {"cancelled", "expired"}
      BY <3>2, <3>3 DEF Dispatch, Updates, Trades
    <3> HIDE DEF f, n
    <3>6. f \in Credible'
      BY <1>3, <1>5 DEF f
    <3> QED BY <3>1, <3>3, <3>4, <3>5, <3>6 DEF SocketPart
  <2>2. CASE ~(net[i].bid = row.bid /\ RowIsOpen)
    BY <1>0, <1>1, <2>2, SocketStays DEF IInv
  <2> QED BY <2>1, <2>2
<1>8. RowPart' /\ RowStep
  BY <1>0, <1>4, RowStays DEF IInv
<1> QED BY <1>4, <1>6, <1>7, <1>8, SocketWrites DEF IInv, RestPart

\* A trade or an aggregate is recorded.
LEMMA RecordStep ==
  ASSUME LifecycleAssumption, IInv, RecordTrade \/ RecordAggregate
  PROVE  IInv' /\ RowStep
<1>1. Done /\ UNCHANGED <<broker, rowVars, net, age, poll, faults>>
  BY DEF RecordTrade, RecordAggregate
<1>2. BrokerStep
  BY <1>1, BrokerStays DEF IInv
<1>3. SocketPart' /\ NetPart' /\ RowPart' /\ RowStep /\ faults' \in 0 .. MaxFaults
  BY <1>1, <1>2, SocketRests, NetStays, RowStays DEF IInv, RestPart
<1>4. fills' \in [trades : Nat, agg : [Ids -> Amounts]]
  <2>1. CASE RecordTrade
    <3>1. ws.frame.size \in Nat /\ fills' = [fills EXCEPT !.trades = fills.trades + ws.frame.size]
      BY <2>1 DEF RecordTrade, IInv, SocketPart
    <3> QED BY <3>1 DEF IInv, RestPart
  <2>2. CASE RecordAggregate
    <3>1. CASE ws.frame.size > 0 /\ ~(fills.trades >= ws.frame.size)
      <4>1. ws.frame.bid \in Ids /\ ws.frame \in Credible \union {NoFrame}
        BY <2>2 DEF RecordAggregate, IInv, SocketPart
      <4>2. ws.frame.size \in Amounts
        <5>1. ws.frame.size \in Amounts \union {Unknown, 0}
          BY <4>1, SizeFacts DEF Credible, Frames, Updates, Trades, NoFrame
        <5> QED BY <5>1, <3>1, SizeFacts DEF Unknown
      <4>3. fills' = [fills EXCEPT !.agg[ws.frame.bid] = ws.frame.size]
        BY <2>2, <3>1 DEF RecordAggregate, Aggregated
      <4>4. [fills.agg EXCEPT ![ws.frame.bid] = ws.frame.size] \in [Ids -> Amounts]
        BY <4>1, <4>2 DEF IInv, RestPart
      <4> QED BY <4>3, <4>4 DEF IInv, RestPart
    <3>2. CASE ~(ws.frame.size > 0 /\ ~(fills.trades >= ws.frame.size))
      BY <2>2, <3>2 DEF RecordAggregate, Aggregated, IInv, RestPart
    <3> QED BY <3>1, <3>2
  <2> QED BY <2>1, <2>2
<1> QED BY <1>1, <1>3, <1>4, SocketWrites

\* The fills that are loaded are at most the size.
LEMMA LoadFillsStep ==
  ASSUME LifecycleAssumption, IInv, LoadFills
  PROVE  IInv' /\ RowStep
<1>1. PICK n \in Amounts : ws' = [ws EXCEPT !.pc = "close", !.found = n]
  BY DEF LoadFills
<1>2. ws.pc = "load" /\ UNCHANGED <<broker, rowVars, fills, net, age, poll, faults>>
  BY DEF LoadFills
<1>3. BrokerStep
  BY <1>2, BrokerStays DEF IInv
<1>4. ws.frame \in Credible' \union {NoFrame}
  BY <1>3, FullStays DEF IInv, SocketPart
<1>5. SocketPart'
  BY <1>1, <1>2, <1>4 DEF IInv, SocketPart
<1>6. NetPart' /\ RowPart' /\ RowStep
  BY <1>2, <1>3, NetStays, RowStays DEF IInv
<1> QED BY <1>2, <1>5, <1>6, SocketWrites DEF IInv, RestPart

\* A frame ends the order, by what it says itself or by the fills recorded.
LEMMA EndByFrameStep ==
  ASSUME LifecycleAssumption, IInv, FillByFrame \/ CloseByFrame
  PROVE  IInv' /\ RowStep
<1>1. Done /\ UNCHANGED <<broker, fills, net, age, poll, faults>>
  BY DEF FillByFrame, CloseByFrame
<1>2. BrokerStep
  BY <1>1, BrokerStays DEF IInv
<1>3. SocketPart' /\ NetPart'
  BY <1>1, <1>2, SocketRests, NetStays DEF IInv
<1>4. row.polls \in 0 .. MaxPolls /\ ws.frame \in Credible \union {NoFrame} /\ ws.found \in Amounts
  BY DEF IInv, RowPart, Rows, SocketPart
<1>5. RowPart' /\ RowStep
  <2>1. CASE FillByFrame
    <3>1. OnFill(row.polls) /\ ws.frame.status = "filled"
      BY <2>1 DEF FillByFrame, IInv, SocketPart
    <3>2. FullyMatched
      BY <1>4, <3>1 DEF Credible, NoFrame
    <3> QED BY <1>1, <1>4, <3>1, <3>2, FillStep DEF IInv
  <2>2. CASE CloseByFrame
    <3>1. TerminalClose(ws.frame.status, ws.found, row.polls)
          /\ ws.frame.status \in {"cancelled", "expired"}
      BY <2>2 DEF CloseByFrame, IInv, SocketPart
    <3> QED BY <1>1, <1>4, <3>1, CloseStep DEF IInv
  <2> QED BY <2>1, <2>2
<1> QED BY <1>1, <1>3, <1>5, SocketWrites DEF IInv, RestPart

\* The handler of a frame fails.
LEMMA FrameFailsStep ==
  ASSUME LifecycleAssumption, IInv, FrameFails
  PROVE  IInv' /\ RowStep
<1>1. Done /\ Fault /\ UNCHANGED <<broker, rowVars, fills, net, age, poll>>
  BY DEF FrameFails
<1>2. BrokerStep
  BY <1>1, BrokerStays DEF IInv
<1>3. SocketPart' /\ NetPart' /\ RowPart' /\ RowStep /\ faults' \in 0 .. MaxFaults
  BY <1>1, <1>2, SocketRests, NetStays, RowStays, FaultCounts DEF IInv, RestPart
<1> QED BY <1>1, <1>3, SocketWrites DEF IInv, RestPart

-----------------------------------------------------------------------------
(* The rest of the program.                                                *)

\* The broker matches or ends an order.
LEMMA BrokerMovesStep ==
  ASSUME LifecycleAssumption, IInv, BrokerMatches \/ BrokerEnds
  PROVE  IInv' /\ RowStep
<1>1. UNCHANGED <<rowVars, fills, age, poll, ws>> /\ faults \in 0 .. MaxFaults
  BY DEF BrokerMatches, Match, BrokerEnds, IInv, RestPart
<1>2. BrokerPart' /\ BrokerStep /\ NetPart' /\ faults' \in 0 .. MaxFaults
  <2>1. CASE BrokerMatches
    BY <1>1, <2>1, MatchStep DEF BrokerMatches, IInv
  <2>2. CASE BrokerEnds
    BY <1>1, <2>2, EndStep DEF BrokerEnds, IInv
  <2> QED BY <2>1, <2>2
<1>3. RowPart' /\ RowStep /\ PollPart' /\ SocketPart' /\ RestPart'
  BY <1>1, <1>2, RowStays, PollStays, SocketStays, RestStays DEF IInv
<1> QED BY <1>2, <1>3 DEF IInv

\* The position is closed by somebody else: no refund follows.
LEMMA PositionClosesStep ==
  ASSUME LifecycleAssumption, IInv, PositionCloses
  PROVE  IInv' /\ RowStep
<1>1. pos.status = "open" /\ pos' = [pos EXCEPT !.status = "closed"]
      /\ UNCHANGED <<broker, row, refunded, fills, net, age, poll, ws, faults>>
  BY DEF PositionCloses
<1>2. BrokerPart' /\ BrokerStep
  BY <1>1, BrokerStays DEF IInv
<1>3. PollPart' /\ NetPart' /\ SocketPart' /\ RestPart'
  BY <1>1, <1>2, PollStays, NetStays, SocketStays, RestStays DEF IInv, RestPart
<1>4. pos' \in [status : {"open", "closed", "cancelled"}, size : Amounts]
      /\ pos'.status = "closed" /\ pos'.size = pos.size
  BY <1>1 DEF IInv, RowPart
<1>5. RowIsOpen' <=> RowIsOpen
  BY <1>1 DEF RowIsOpen
<1>6. Posted(row.bid)' /\ (row'.status = "filled" => FullyMatched')
  BY <1>1, <1>2, FullStays DEF IInv, RowPart, Posted
<1>7. RowPart' /\ RowStep
  BY <1>1, <1>4, <1>5, <1>6 DEF IInv, RowPart, RowStep, StakeAccounted
<1> QED BY <1>2, <1>3, <1>7 DEF IInv

\* The order grows older.
LEMMA TimePassesStep ==
  ASSUME LifecycleAssumption, IInv, TimePasses
  PROVE  IInv' /\ RowStep
<1>1. age' \in 0 .. 2 /\ UNCHANGED <<broker, rowVars, fills, net, poll, ws, faults>>
  BY DEF TimePasses, IInv, RestPart
<1>2. BrokerPart' /\ BrokerStep
  BY <1>1, BrokerStays DEF IInv
<1>3. PollPart' /\ NetPart' /\ SocketPart' /\ RowPart' /\ RowStep
  BY <1>1, <1>2, PollStays, NetStays, SocketStays, RowStays DEF IInv
<1> QED BY <1>1, <1>2, <1>3 DEF IInv, RestPart

\* A restart forgets the tasks and the frames, and keeps the tables.
LEMMA RestartStep ==
  ASSUME LifecycleAssumption, IInv, Restart
  PROVE  IInv' /\ RowStep
<1>1. Fault /\ GoIdle /\ Done /\ net' = <<>> /\ UNCHANGED <<broker, rowVars, fills, age>>
  BY DEF Restart, GoIdle, Done
<1>2. BrokerPart' /\ BrokerStep
  BY <1>1, BrokerStays DEF IInv
<1>3. PollPart' /\ SocketPart' /\ RowPart' /\ RowStep
  BY <1>1, <1>2, PollRests, SocketRests, RowStays DEF IInv
<1>4. NetPart'
  BY <1>1, SizeFacts DEF NetPart
<1>5. RestPart'
  BY <1>1, FaultCounts, RestStays DEF IInv, RestPart
<1> QED BY <1>2, <1>3, <1>4, <1>5 DEF IInv

\* The invariant holds when live.execute has committed.
LEMMA InitHolds ==
  ASSUME LifecycleAssumption, Init
  PROVE  IInv
<1>1. broker \in [Ids -> Orders] /\ Posted(1)
      /\ \A b \in Ids : broker[b].state # "filled"
  BY SizeFacts DEF Init, NoOrder, Orders, Posted
<1>2. row \in Rows /\ row.bid = 1 /\ row.status = "submitted"
  BY FirstRowType DEF Init, FirstRow
<1>3. RowPart
  BY <1>1, <1>2, SizeFacts DEF Init, RowPart, StakeAccounted, Posted
<1>4. poll = IdlePoller /\ IdlePoller.row = FirstRow /\ FirstRow.bid = 1
      /\ IdlePoller.answer.state = "none" /\ IdlePoller.pc = "idle"
  BY DEF Init, IdlePoller, FirstRow, NoOrder
<1>5. PollPart
  BY <1>1, <1>4, FirstRowType DEF PollPart, IdlePoller, Posted
<1>6. NetPart
  BY SizeFacts DEF Init, NetPart
<1>7. SocketPart
  BY SizeFacts DEF Init, SocketPart, IdleSocket, NoFrame
<1>8. RestPart
  BY SizeFacts DEF Init, RestPart
<1> QED BY <1>1, <1>3, <1>5, <1>6, <1>7, <1>8 DEF IInv, BrokerPart

\* A step of anything else changes nothing here.
LEMMA StutterKeeps ==
  ASSUME LifecycleAssumption, IInv, UNCHANGED vars
  PROVE  IInv' /\ RowStep
<1>1. UNCHANGED <<broker, rowVars, fills, net, age, poll, ws, faults>>
  BY DEF vars
<1>2. faults' \in 0 .. MaxFaults /\ BrokerStep
  BY <1>1, BrokerStays DEF IInv, RestPart
<1>3. PollPart'
  BY <1>1, <1>2, PollStays DEF IInv
<1> QED BY <1>1, <1>2, <1>3, PollReads

\* Every step keeps the invariant and never opens an ended row.
LEMMA NextKeeps ==
  ASSUME LifecycleAssumption, IInv, Next
  PROVE  IInv' /\ RowStep
<1>1. CASE PollGoesOn
  BY <1>1, ReadSteps, PollEndsStep, PartialFillStep, CountPollStep, CancelAtBrokerStep,
     RepostStep, SaveRetryStep, SlippageCancelStep DEF PollGoesOn
<1>2. CASE SocketWorks
  BY <1>2, ReceiveStep, RecordStep, LoadFillsStep, EndByFrameStep DEF SocketWorks
<1>3. CASE GetOrderFails \/ NoMetadata \/ WriteFails
  BY <1>3, PollFails DEF GetOrderFails, NoMetadata, WriteFails
<1>4. CASE RepostFails \/ FrameFails
  BY <1>4, RepostStep, FrameFailsStep
<1>5. CASE BrokerMatches \/ BrokerEnds
  BY <1>5, BrokerMovesStep
<1>6. CASE PositionCloses \/ TimePasses \/ Restart
  BY <1>6, PositionClosesStep, TimePassesStep, RestartStep
<1> QED BY <1>1, <1>2, <1>3, <1>4, <1>5, <1>6 DEF Next, Failures

-----------------------------------------------------------------------------
(* The theorems.                                                           *)

\* The invariant holds throughout.
LEMMA AlwaysIInv == Spec => []IInv
<1>1. IInv /\ [Next]_vars => IInv'
  BY LifecycleAssumption, NextKeeps, StutterKeeps
<1>2. Init => IInv
  BY LifecycleAssumption, InitHolds
<1> QED BY <1>1, <1>2, PTL DEF Spec

\* Every table and task keeps its type: in particular no order is closed with
\* more than its size, however the fills of the websocket overlap.
THEOREM OrderTyped == Spec => []TypeOK
<1>1. IInv => TypeOK
  <2>1. ASSUME IInv PROVE net \in Seq(Frames) /\ Len(net) <= MaxFrames
    <3>1. Credible \subseteq Frames
      BY DEF Credible
    <3> QED BY <2>1, <3>1, SeqMonotonic DEF IInv, NetPart
  <2>2. ASSUME IInv PROVE ws \in [pc : {"idle", "trade", "aggregate", "fill", "load", "close"},
                                  frame : Frames \union {NoFrame}, found : Amounts]
    BY <2>2 DEF IInv, SocketPart, Credible
  <2> QED BY <2>1, <2>2 DEF IInv, BrokerPart, RowPart, PollPart, RestPart, TypeOK
<1> QED BY <1>1, AlwaysIInv, PTL

\* The stake is always the position plus the refund, whoever ends the order or
\* closes the position first.
THEOREM StakeConserved == Spec => []StakeAccounted
<1>1. IInv => StakeAccounted
  BY DEF IInv, RowPart
<1> QED BY <1>1, AlwaysIInv, PTL

\* A row is filled only when the broker has matched an order completely.
THEOREM FilledIsTrue == Spec => []FilledIsMatched
<1>1. IInv => FilledIsMatched
  BY DEF IInv, RowPart, FilledIsMatched, FullyMatched
<1> QED BY <1>1, AlwaysIInv, PTL

\* The poller and the websocket never open an order again that has ended,
\* although they act on rows read earlier.
THEOREM EndIsFinal == Spec => NeverReopened
<1>1. IInv /\ [Next]_vars => [RowStep]_vars
  BY LifecycleAssumption, NextKeeps
<1>2. [RowStep]_vars => [~RowIsOpen => ~RowIsOpen']_vars
  BY DEF RowStep
<1> QED BY <1>1, <1>2, AlwaysIInv, PTL DEF Spec, NeverReopened
=============================================================================
