--------------------------- MODULE OrderLifecycle ---------------------------
(***************************************************************************)
(* One live order on the YES side from its acceptance to its end           *)
(* (domain/execution/lifecycle.py): the broker matches, cancels or expires *)
(* it, the scheduler polls it, the websocket reports on it, and the row of *)
(* the order, its position and the refund follow.  A statement and a call  *)
(* of the broker are steps of their own.                                   *)
(*                                                                         *)
(* Amounts are units of the stake, at one price.  USE_REAL_CLOB and        *)
(* ENABLE_LIVE_TRADING are set.                                            *)
(***************************************************************************)
EXTENDS Integers, SequencesExt

CONSTANTS
  Size,      \* orders.size_usdc
  Ids,       \* broker ids; a number, the smaller the earlier
  MaxPolls,  \* ORDER_POLL_MAX_ATTEMPTS
  MaxFrames, \* bound on the undelivered frames
  MaxFaults  \* bound on the calls that fail, the gaps of the socket and the restarts

ASSUME LifecycleAssumption ==
  /\ Size \in Nat \ {0} /\ MaxPolls \in Nat \ {0}
  /\ Ids \subseteq Nat /\ 1 \in Ids
  /\ MaxFrames \in Nat /\ MaxFaults \in Nat
  \* A retry is repeated only when a cancel and a save have failed.
  /\ Cardinality(Ids) >= 2 + MaxFaults \div 2

VARIABLES
  broker,   \* broker[b] : state and matched amount of broker order b
  row,      \* the row of orders
  pos,      \* the row of positions opened with it
  refunded, \* T_ADJUSTMENT credits of the position
  fills,    \* table fills: total of the trades, and the aggregate per broker id
  net,      \* frames the websocket has not delivered
  age,      \* 1 after SLIPPAGE_RETRY_SECONDS, 2 after SLIPPAGE_CANCEL_SECONDS
  poll,     \* the poller: where it stands, the row and the answer it read
  ws,       \* the websocket task: where it stands, its frame, the fills it loaded
  faults

rowVars == <<row, pos, refunded>>
vars    == <<broker, rowVars, fills, net, age, poll, ws, faults>>

StatusOpen == {"submitted", "partial_filled"}
Amounts    == 0 .. Size
Unknown    == -1  \* a frame without size_matched

Statuses == StatusOpen \union {"filled", "cancelled", "expired", "stale"}
Rows    == [status : Statuses, bid : Ids, retried : BOOLEAN, filled : Amounts, polls : 0 .. MaxPolls]
Orders  == [state : {"none", "open", "filled", "cancelled", "expired"}, matched : Amounts]
Updates == [kind : {"update"}, bid : Ids, status : {"open", "filled", "cancelled", "expired"},
            size : Amounts \union {Unknown}]
Trades  == [kind : {"trade"}, bid : Ids, status : {"open"}, size : Amounts]
Frames  == Updates \union Trades
NoFrame == [kind |-> "none", bid |-> 1, status |-> "open", size |-> 0]

TypeOK ==
  /\ broker \in [Ids -> Orders]
  /\ row \in Rows
  /\ pos \in [status : {"open", "closed", "cancelled"}, size : Amounts]
  /\ refunded \in Amounts
  /\ fills \in [trades : Nat, agg : [Ids -> Amounts]]
  /\ net \in Seq(Frames) /\ Len(net) <= MaxFrames
  /\ age \in 0 .. 2
  /\ poll \in [pc : {"idle", "ask", "act", "replace", "repost", "save", "withdraw", "close"},
              row : Rows, answer : Orders]
  /\ ws \in [pc : {"idle", "trade", "aggregate", "fill", "load", "close"},
            frame : Frames \union {NoFrame}, found : Amounts]
  /\ faults \in 0 .. MaxFaults

NoOrder    == [state |-> "none", matched |-> 0]
FirstRow   == [status |-> "submitted", bid |-> 1, retried |-> FALSE, filled |-> 0, polls |-> 0]
IdlePoller == [pc |-> "idle", row |-> FirstRow, answer |-> NoOrder]
IdleSocket == [pc |-> "idle", frame |-> NoFrame, found |-> 0]

\* live.execute has committed: the order is submitted and its position open.
Init ==
  /\ broker = [b \in Ids |-> IF b = 1 THEN [NoOrder EXCEPT !.state = "open"] ELSE NoOrder]
  /\ row = FirstRow
  /\ pos = [status |-> "open", size |-> Size]
  /\ refunded = 0
  /\ fills = [trades |-> 0, agg |-> [b \in Ids |-> 0]]
  /\ net = <<>> /\ age = 0
  /\ poll = IdlePoller /\ ws = IdleSocket
  /\ faults = 0

Fault == faults < MaxFaults /\ faults' = faults + 1
Least(a, b) == IF a < b THEN a ELSE b

-----------------------------------------------------------------------------
(* The broker.                                                             *)

\* An event is reported by its frames; a gap of the socket loses some of them.
Report(frames) ==
  \/ /\ net' = net \o frames /\ UNCHANGED faults
  \/ /\ Fault
     /\ \E i \in DOMAIN frames : net' \in {net, net \o RemoveAt(frames, i)}

Update(b, st, n) == [kind |-> "update", bid |-> b, status |-> st, size |-> n]
Trade(b, n)      == [kind |-> "trade", bid |-> b, status |-> "open", size |-> n]

\* n more units of order b are matched.
Match(b, n) ==
  LET m  == broker[b].matched + n
      st == IF m = Size THEN "filled" ELSE "open" IN
  /\ broker[b].state = "open" /\ m <= Size /\ Len(net) + 2 <= MaxFrames
  /\ broker' = [broker EXCEPT ![b] = [state |-> st, matched |-> m]]
  /\ Report(<<Trade(b, n), Update(b, st, m)>>)
  /\ UNCHANGED <<rowVars, fills, age, poll, ws>>

\* The broker ends order b; the frame may omit size_matched.
End(b, st) ==
  /\ broker[b].state = "open" /\ Len(net) < MaxFrames
  /\ broker' = [broker EXCEPT ![b].state = st]
  /\ \E n \in {Unknown, broker[b].matched} : Report(<<Update(b, st, n)>>)

BrokerEnds ==
  /\ \E b \in Ids, st \in {"cancelled", "expired"} : End(b, st)
  /\ UNCHANGED <<rowVars, fills, age, poll, ws>>

-----------------------------------------------------------------------------
(* What the poller and the websocket task both do.                         *)

RowIsOpen == row.status \in StatusOpen

\* _on_fill.
OnFill(attempts) ==
  /\ row' = IF RowIsOpen THEN [row EXCEPT !.status = "filled", !.filled = Size, !.polls = attempts]
                         ELSE row
  /\ UNCHANGED <<pos, refunded>>

\* Mutant of TerminalClose: the refund does not depend on the position.
TerminalClose_Refunds(st, n, attempts) ==
  /\ RowIsOpen
  /\ row' = [row EXCEPT !.status = st, !.polls = attempts]
  /\ pos' = IF pos.status # "open" THEN pos
            ELSE IF n > 0 THEN [pos EXCEPT !.size = n] ELSE [pos EXCEPT !.status = "cancelled"]
  /\ refunded' = Size - n

\* _terminal_close with n units matched: an open position keeps them and gets
\* the rest back, or is cancelled when there are none.
TerminalClose(st, n, attempts) ==
  IF ~RowIsOpen
  THEN UNCHANGED rowVars
  ELSE /\ row' = [row EXCEPT !.status = st, !.polls = attempts, !.filled = IF n > 0 THEN n ELSE @]
       /\ IF pos.status # "open"
          THEN UNCHANGED <<pos, refunded>>
          ELSE /\ pos' = IF n > 0 THEN [pos EXCEPT !.size = n]
                                  ELSE [pos EXCEPT !.status = "cancelled"]
               /\ refunded' = refunded + Size - n

\* _record_fills_in_conn with an aggregate row: skipped when the trades cover it.
Aggregated(b, n) ==
  IF fills.trades >= n THEN fills ELSE [fills EXCEPT !.agg[b] = n]

-----------------------------------------------------------------------------
(* The poller: one order of one sweep.                                     *)

Go(pc)  == poll' = [poll EXCEPT !.pc = pc, !.answer = NoOrder]
GoIdle  == poll' = IdlePoller
Broker == poll.row.bid
Attempts(r) == Least(r.polls + 1, MaxPolls)  \* only compared with the maximum

\* Mutant of LoadRow: a partially filled order is not polled any more.
LoadRow_Submitted ==
  /\ poll.pc = "idle" /\ row.status = "submitted"
  /\ poll' = [IdlePoller EXCEPT !.pc = "ask", !.row = row]
  /\ UNCHANGED <<broker, rowVars, fills, net, age, ws, faults>>

\* The SELECT of poll_once.
LoadRow ==
  /\ poll.pc = "idle" /\ RowIsOpen
  /\ poll' = [IdlePoller EXCEPT !.pc = "ask", !.row = row]
  /\ UNCHANGED <<broker, rowVars, fills, net, age, ws, faults>>

GetOrder ==
  /\ poll.pc = "ask"
  /\ poll' = [poll EXCEPT !.pc = "act", !.answer = broker[Broker]]
  /\ UNCHANGED <<broker, rowVars, fills, net, age, ws, faults>>

\* A failed get_order leaves the row, and its poll_attempts, alone.
GetOrderFails ==
  /\ poll.pc = "ask" /\ GoIdle /\ Fault
  /\ UNCHANGED <<broker, rowVars, fills, net, age, ws>>

PollEnds ==
  /\ poll.pc = "act" /\ poll.answer.state # "open" /\ GoIdle
  /\ IF poll.answer.state = "filled"
     THEN OnFill(Attempts(poll.row))
     ELSE TerminalClose(poll.answer.state, poll.answer.matched, Attempts(poll.row))
  /\ UNCHANGED <<broker, fills, net, age, ws, faults>>

OpenAtBroker == poll.pc = "act" /\ poll.answer.state = "open"
NewlyMatched == poll.answer.matched > poll.row.filled

\* Mutant of PartialFill: the UPDATE has no status guard.
PartialFill_Unguarded ==
  /\ OpenAtBroker /\ NewlyMatched /\ GoIdle
  /\ row' = [row EXCEPT !.status = "partial_filled", !.filled = poll.answer.matched,
                        !.polls = Attempts(poll.row)]
  /\ UNCHANGED <<broker, pos, refunded, fills, net, age, ws, faults>>

\* _on_partial_fill; the budget of polls does not bound it.
PartialFill ==
  /\ OpenAtBroker /\ NewlyMatched /\ GoIdle
  /\ row' = IF RowIsOpen THEN [row EXCEPT !.status = "partial_filled",
                                          !.filled = poll.answer.matched,
                                          !.polls = Attempts(poll.row)]
                         ELSE row
  /\ UNCHANGED <<broker, pos, refunded, fills, net, age, ws, faults>>

\* The timeouts look at the row as it was read, and skip a partial fill.
Unfilled      == OpenAtBroker /\ ~NewlyMatched /\ poll.row.status # "partial_filled"
CancelIsDue   == Unfilled /\ poll.row.retried /\ age = 2
RetryIsDue    == Unfilled /\ ~poll.row.retried /\ age >= 1

TimesOut ==
  /\ \/ CancelIsDue /\ Go("withdraw")
     \/ RetryIsDue /\ Go("replace")
  /\ UNCHANGED <<broker, rowVars, fills, net, age, ws, faults>>

\* _mark_stale and _touch; neither UPDATE looks at the status.
CountPoll ==
  /\ OpenAtBroker /\ ~NewlyMatched /\ ~CancelIsDue /\ ~RetryIsDue /\ GoIdle
  /\ row' = [row EXCEPT !.polls = Attempts(poll.row),
                        !.status = IF Attempts(poll.row) = MaxPolls THEN "stale" ELSE @]
  /\ UNCHANGED <<broker, pos, refunded, fills, net, age, ws, faults>>

\* cancel_order of either timeout; a failure is logged, and the handler goes on.
CancelAtBroker ==
  /\ poll.pc \in {"replace", "withdraw"}
  /\ Go(IF poll.pc = "replace" THEN "repost" ELSE "close")
  /\ \/ End(Broker, "cancelled")
     \/ broker[Broker].state # "open" /\ UNCHANGED <<broker, net, faults>>
     \/ Fault /\ UNCHANGED <<broker, net>>
  /\ UNCHANGED <<rowVars, fills, age, ws>>

\* No metadata: nothing is cancelled, the row is left for the next sweep.
NoMetadata ==
  /\ poll.pc = "replace" /\ GoIdle /\ Fault
  /\ UNCHANGED <<broker, rowVars, fills, net, age, ws>>

Unused == {b \in Ids : broker[b].state = "none"}

\* post_order of the retry, with a broker id of its own.
Repost ==
  /\ poll.pc = "repost"
  /\ \E b \in Unused :
       /\ \A c \in Unused : b <= c
       /\ broker' = [broker EXCEPT ![b].state = "open"]
       /\ poll' = [poll EXCEPT !.pc = "save", !.row.bid = b]
  /\ UNCHANGED <<rowVars, fills, net, age, ws, faults>>

\* Rejected; or accepted, with the answer lost.
RepostFails ==
  /\ poll.pc = "repost" /\ GoIdle /\ Fault
  /\ \/ UNCHANGED broker
     \/ \E b \in Unused : broker' = [broker EXCEPT ![b].state = "open"]
  /\ UNCHANGED <<rowVars, fills, net, age, ws>>

\* The UPDATE that stores the new broker id, on any status.
SaveRetry ==
  /\ poll.pc = "save" /\ GoIdle
  /\ row' = [row EXCEPT !.bid = Broker, !.retried = TRUE, !.polls = Attempts(poll.row)]
  /\ UNCHANGED <<broker, pos, refunded, fills, net, age, ws, faults>>

\* _on_cancel of the timeout: the fills it passes are always empty.
SlippageCancel ==
  /\ poll.pc = "close" /\ GoIdle
  /\ TerminalClose("cancelled", 0, Attempts(poll.row))
  /\ UNCHANGED <<broker, fills, net, age, ws, faults>>

\* The statement that ends the handler fails.
WriteFails ==
  /\ poll.pc \in {"act", "save", "close"} /\ GoIdle /\ Fault
  /\ UNCHANGED <<broker, rowVars, fills, net, age, ws>>

PollGoesOn ==
  \/ LoadRow \/ GetOrder \/ PollEnds \/ PartialFill \/ TimesOut \/ CountPoll
  \/ CancelAtBroker \/ Repost \/ SaveRetry \/ SlippageCancel

-----------------------------------------------------------------------------
(* The websocket task takes the frames one at a time.                      *)

\* Mutant of Dispatch: a trade ends the order.
Dispatch_TradeFills(f) ==
  CASE f.kind = "trade"                        -> "fill"
    [] f.status = "filled"                     -> "fill"
    [] f.status = "open"                       -> "aggregate"
    [] OTHER                                   -> IF f.size > 0 THEN "close" ELSE "load"

\* Which handler a frame of an open row leads to.
Dispatch(f) ==
  CASE f.kind = "trade"                        -> "trade"
    [] f.status = "filled"                     -> "fill"
    [] f.status = "open"                       -> "aggregate"
    [] OTHER                                   -> IF f.size > 0 THEN "close" ELSE "load"

\* The next update, or any trade: a trade frame counts once it is CONFIRMED,
\* which may be after the updates that were sent later.
Deliverable == {i \in DOMAIN net : net[i].kind = "trade"
                                   \/ \A j \in 1 .. i - 1 : net[j].kind = "trade"}

\* _lookup_order_by_broker_id: the frame of another id or of a terminal row
\* is dropped.
Receive ==
  /\ ws.pc = "idle"
  /\ \E i \in Deliverable :
       LET f == net[i] IN
       /\ net' = RemoveAt(net, i)
       /\ ws' = IF f.bid = row.bid /\ RowIsOpen
                THEN [pc |-> Dispatch(f), frame |-> f, found |-> IF f.size = Unknown THEN 0 ELSE f.size]
                ELSE ws
  /\ UNCHANGED <<broker, rowVars, fills, age, poll, faults>>

Done == ws' = IdleSocket

RecordTrade ==
  /\ ws.pc = "trade" /\ Done
  /\ fills' = [fills EXCEPT !.trades = @ + ws.frame.size]
  /\ UNCHANGED <<broker, rowVars, net, age, poll, faults>>

RecordAggregate ==
  /\ ws.pc = "aggregate" /\ Done
  /\ fills' = IF ws.frame.size > 0 THEN Aggregated(ws.frame.bid, ws.frame.size) ELSE fills
  /\ UNCHANGED <<broker, rowVars, net, age, poll, faults>>

\* The attempts are those of the row at the lookup; nothing reads them after.
FillByFrame ==
  /\ ws.pc = "fill" /\ Done /\ OnFill(row.polls)
  /\ UNCHANGED <<broker, fills, net, age, poll, faults>>

\* _load_existing_fills: the trades or the aggregates, whichever is larger.
LoadFills ==
  LET agg  == FoldFunction(LAMBDA a, b : a + b, 0, fills.agg)
      most == IF fills.trades >= agg THEN fills.trades ELSE agg IN
  /\ ws.pc = "load"
  /\ \E n \in Amounts :
       n = Least(Size, most) /\ ws' = [ws EXCEPT !.pc = "close", !.found = n]
  /\ UNCHANGED <<broker, rowVars, fills, net, age, poll, faults>>

CloseByFrame ==
  /\ ws.pc = "close" /\ Done /\ TerminalClose(ws.frame.status, ws.found, row.polls)
  /\ UNCHANGED <<broker, fills, net, age, poll, faults>>

\* The client logs the exception of a handler; the frame is gone.
FrameFails ==
  /\ ws.pc # "idle" /\ Done /\ Fault
  /\ UNCHANGED <<broker, rowVars, fills, net, age, poll>>

SocketWorks == Receive \/ RecordTrade \/ RecordAggregate \/ FillByFrame \/ LoadFills \/ CloseByFrame

-----------------------------------------------------------------------------
(* The rest of the program.                                                *)

\* The exit watcher, the user or the settlement closes the position.
PositionCloses ==
  /\ pos.status = "open" /\ pos' = [pos EXCEPT !.status = "closed"]
  /\ UNCHANGED <<broker, row, refunded, fills, net, age, poll, ws, faults>>

TimePasses ==
  /\ age < 2 /\ age' = age + 1
  /\ UNCHANGED <<broker, rowVars, fills, net, poll, ws, faults>>

Restart ==
  /\ Fault
  /\ poll' = IdlePoller /\ ws' = IdleSocket /\ net' = <<>>
  /\ UNCHANGED <<broker, rowVars, fills, age>>

BrokerMatches == \E b \in Ids, n \in 1 .. Size : Match(b, n)

Failures == GetOrderFails \/ NoMetadata \/ RepostFails \/ WriteFails \/ FrameFails

Next ==
  \/ PollGoesOn \/ SocketWorks \/ Failures
  \/ BrokerMatches \/ BrokerEnds
  \/ PositionCloses \/ TimePasses \/ Restart

Spec == Init /\ [][Next]_vars

\* The scheduler calls poll_once every ORDER_POLL_INTERVAL_SECONDS, and the loop
\* runs the task of the socket.
FairSpec == Spec /\ WF_vars(PollGoesOn) /\ WF_vars(SocketWorks)

-----------------------------------------------------------------------------
(* Properties.                                                             *)

\* The stake is the position plus the refund, whoever closed the order or the
\* position first: nothing is refunded twice, or refunded on a position that
\* was already closed and paid (lifecycle.py:505-581).
StakeAccounted ==
  /\ pos.status = "cancelled" => refunded = Size
  /\ pos.status # "cancelled" => pos.size + refunded = Size

\* An ended order never becomes open again, although the poller and the
\* websocket act on rows they read earlier (lifecycle.py:49, 425-439).
NeverReopened == [][~RowIsOpen => ~RowIsOpen']_vars

\* A row is filled only when the broker has matched an order completely; one
\* trade of several does not do it (lifecycle.py:963-974).
FilledIsMatched == row.status = "filled" => \E b \in Ids : broker[b].matched = Size

\* Every live order is eventually filled, cancelled, expired or stale,
\* however the broker, the frames and the faults fall (lifecycle.py:230-290).
OrderEnds == RowIsOpen ~> ~RowIsOpen
=============================================================================
