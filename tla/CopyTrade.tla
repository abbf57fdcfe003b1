------------------------------ MODULE CopyTrade ------------------------------
(***************************************************************************)
(* Copy trading of one user: two jobs mirror the trades of a leader wallet *)
(* into the tasks that follow it.  The monitor (services/copy_trade/       *)
(* monitor.py) reads the newest trades of the wallet, the fast track       *)
(* (realtime_fast_track.py) a buffer table above a watermark, and both     *)
(* hand a trade to _process_one.                                           *)
(*                                                                         *)
(* Trades are numbered in the order of the leader; each is on a market of  *)
(* its own, and a copy costs one unit of the daily cap.  A trade has the   *)
(* same id in both sources.  Tasks allow top-ups.  A read of the kill      *)
(* switch is fresh: KillSwitch models its cache.                           *)
(***************************************************************************)
EXTENDS Integers, Sequences, FiniteSets, SequencesExt

CONSTANTS
  Tasks,      \* rows of copy_trade_tasks, all on the leader's wallet
  Monitor, Track, \* the two jobs
  MaxTrades,  \* how many trades the leader makes
  MonitorLimit, \* how many trades a fetch returns
  Configs,    \* see Config
  MaxDays, MaxCopyFaults, MaxRestarts

Trades == 1 .. MaxTrades
Jobs   == {Monitor, Track}

\* jobs: which jobs run; decoded: the buffer's jsonb arrives as a dict; ignored:
\* trades that a filter of the task drops; start: the tasks active at first; cap:
\* their max_daily_spend, in copies; made, leader: the leader's trades at first
\* and at most, a bound; moves: what may happen around the jobs, a bound.
Moves  == {"task", "manual", "user", "admin", "halt", "age", "day", "crash", "fail"}
Config == [jobs : SUBSET Jobs, decoded : BOOLEAN, ignored : SUBSET Trades,
           start : SUBSET Tasks, cap : Nat,
           made : 0 .. MaxTrades, leader : 0 .. MaxTrades, moves : SUBSET Moves]

ASSUME CopyAssumption ==
  /\ Cardinality(Jobs) = 2 /\ Jobs \cap Tasks = {} /\ Configs \subseteq Config
  /\ MaxTrades \in Nat /\ MonitorLimit \in Nat
  /\ MaxDays \in Nat /\ MaxCopyFaults \in Nat /\ MaxRestarts \in Nat

VARIABLES
  config,    \* the settings of this run
  taskStatus, \* taskStatus[t] : "none", "active", "paused", "deleted"
  manual,    \* tasks with execution_mode 'manual'
  tapped,    \* tapped[t] : the status a tap on Telegram is about to write
  watermark, \* watermark[t] : last_realtime_seen_at, 0 for NULL
  spend,     \* spend[t] : today's row of copy_trade_daily_spend
  done,      \* copy_trade_idempotency
  orders,    \* UNIQUE idempotency keys of orders: <<task, n>>
  seen,      \* idempotency_keys of the gate, within 30 minutes
  recent,    \* markets with an order within DEDUP_WINDOW_SECONDS
  trades,    \* how many trades the leader has made
  buffered,  \* trades in heisenberg_realtime_trades
  trading,   \* auto_trade_on and not paused
  enabled,   \* strategies.enabled of copy_trade
  halted,    \* the kill switch
  pc,        \* pc[j] : where job j stands
  todo,      \* todo[j] : what is left of its tick; <<t, 0>> ends a task of the track
  latest,    \* latest[j] : latest_seen of the current task, 0 at the cutoff
  context,   \* context[j] : the user's switches as last loaded
  copied,    \* copied[t] : what the task's orders of today spent (history)
  day, copyFaults, restarts

taskVars  == <<taskStatus, manual, tapped, watermark, spend, done>>
orderVars == <<orders, seen, recent>>
feedVars  == <<trades, buffered>>
switches  == <<trading, enabled, halted>>
bounds    == <<day, copyFaults, restarts>>
world     == <<config, taskVars, orderVars, feedVars, switches, copied, bounds>>
copyVars  == <<world, pc, todo, latest, context>>

Steps == {"idle", "list", "fetch", "check", "spend", "user", "gate", "fill", "record", "mark"}
Keys  == Tasks \X Trades

CopyTypeOK ==
  /\ config \in Configs /\ taskStatus \in [Tasks -> {"none", "active", "paused", "deleted"}]
  /\ manual \subseteq Tasks /\ tapped \in [Tasks -> {"none", "active", "paused"}]
  /\ watermark \in [Tasks -> 0 .. trades] /\ spend \in [Tasks -> Nat]
  /\ done \subseteq Tasks \X Trades /\ orders \subseteq Keys /\ seen \subseteq Keys
  /\ recent \subseteq Trades /\ trades \in 0 .. MaxTrades /\ buffered \subseteq 1 .. trades
  /\ trading \in BOOLEAN /\ enabled \in BOOLEAN /\ halted \in BOOLEAN
  /\ pc \in [Jobs -> Steps] /\ latest \in [Jobs -> 0 .. trades] /\ context \in [Jobs -> BOOLEAN]
  /\ \A j \in Jobs : \A i \in DOMAIN todo[j] :
       todo[j][i] \in Tasks \X (IF j = Track \/ pc[j] = "fetch" THEN 0 .. trades ELSE 1 .. trades)
  /\ \A j \in Jobs : (pc[j] \in {"idle", "list", "fetch"}) => latest[j] = 0
  /\ copied \in [Tasks -> Nat]
  /\ day \in 0 .. MaxDays /\ copyFaults \in 0 .. MaxCopyFaults /\ restarts \in 0 .. MaxRestarts

CopyInit ==
  /\ config \in Configs
  /\ taskStatus = [t \in Tasks |-> IF t \in config.start THEN "active" ELSE "none"]
  /\ manual = {} /\ tapped = [t \in Tasks |-> "none"]
  /\ watermark = [t \in Tasks |-> 0] /\ spend = [t \in Tasks |-> 0] /\ done = {}
  /\ orders = {} /\ seen = {} /\ recent = {}
  /\ trades = config.made /\ buffered = IF Track \in config.jobs THEN 1 .. config.made ELSE {}
  /\ trading = TRUE /\ enabled = TRUE /\ halted = FALSE
  /\ pc = [j \in Jobs |-> "idle"] /\ todo = [j \in Jobs |-> <<>>]
  /\ latest = [j \in Jobs |-> 0] /\ context = [j \in Jobs |-> TRUE]
  /\ copied = [t \in Tasks |-> 0]
  /\ day = 0 /\ copyFaults = 0 /\ restarts = 0

-----------------------------------------------------------------------------
(* Helpers.                                                                *)

CopyFault    == /\ "fail" \in config.moves /\ copyFaults < MaxCopyFaults
                /\ copyFaults' = copyFaults + 1 /\ UNCHANGED <<day, restarts>>
Go(j, from, to) == pc[j] = from /\ pc' = [pc EXCEPT ![j] = to]
Active(t)    == taskStatus[t] = "active"
TaskOf(j)    == Head(todo[j])[1]
TradeOf(j)   == Head(todo[j])[2]
Key(j)       == Head(todo[j])

\* What _process_one and its callers leave alone.
Untouched == UNCHANGED <<config, taskStatus, manual, tapped, feedVars, switches>>

\* A tick ends, at its last trade or where it raised.
End(j) ==
  /\ pc' = [pc EXCEPT ![j] = "idle"] /\ todo' = [todo EXCEPT ![j] = <<>>]
  /\ latest' = [latest EXCEPT ![j] = 0] /\ context' = [context EXCEPT ![j] = TRUE]

\* _process_one returned, for whatever reason: the track moves latest_seen.
Advance(j, from) ==
  /\ pc[j] = from
  /\ IF Tail(todo[j]) = <<>> THEN End(j)
     ELSE /\ pc' = [pc EXCEPT ![j] = "check"]
          /\ todo' = [todo EXCEPT ![j] = Tail(@)]
          /\ latest' = IF j = Track THEN [latest EXCEPT ![j] = TradeOf(j)] ELSE latest
          /\ context' = [context EXCEPT ![j] = TRUE]

\* It raised: the monitor has no handler and loses its tick; the track skips to
\* the end of the task.
Raise(j, from) ==
  /\ pc[j] = from
  /\ IF j = Track
       THEN /\ pc' = [pc EXCEPT ![j] = "check"]
            /\ todo' = [todo EXCEPT ![j] =
                 SelectSeq(@, LAMBDA item : item[1] # TaskOf(j) \/ item[2] = 0)]
            /\ context' = [context EXCEPT ![j] = TRUE] /\ UNCHANGED latest
       ELSE End(j)

-----------------------------------------------------------------------------
(* A tick up to its first trade.                                           *)

\* The kill switch and the admin's toggle.
Start(j) ==
  /\ j \in config.jobs /\ ~halted /\ enabled
  /\ Go(j, "idle", "list")
  /\ UNCHANGED <<world, todo, latest, context>>

\* _is_globally_disabled answers "enabled" when its query fails.
StartBlind(j) ==
  /\ j \in config.jobs /\ ~halted /\ ~enabled /\ CopyFault
  /\ Go(j, "idle", "list")
  /\ UNCHANGED <<config, taskVars, orderVars, feedVars, switches, copied, todo, latest, context>>

\* Mutant of Listed: the query forgets the status.
Listed_Any == {t \in Tasks : taskStatus[t] \in {"active", "paused"}}

\* list_active_tasks: every active task.  Those in manual mode are dropped here:
\* the jobs only announce their trades.
Listed == {t \in Tasks : Active(t) /\ t \notin manual}

\* The tasks as they stand now, in any order; todo holds their cutoffs until the
\* fetch.
List(j) ==
  /\ IF Listed = {} THEN pc[j] = "list" /\ End(j)
     ELSE /\ Go(j, "list", "fetch")
          /\ \E order \in SetToSeqs(Listed) :
               todo' = [todo EXCEPT ![j] = [i \in DOMAIN order |-> <<order[i], watermark[order[i]]>>]]
          /\ UNCHANGED <<latest, context>>
  /\ UNCHANGED world

\* Mutant of Newest: the fetch returns the oldest trades.
Newest_Oldest(limit) == [i \in 1 .. (IF trades < limit THEN trades ELSE limit) |-> i]

\* The newest trades of the wallet, newest first.
Newest(limit) ==
  [i \in 1 .. (IF trades < limit THEN trades ELSE limit) |-> trades - i + 1]

\* The rows of the buffer above a cutoff, oldest first, and the end of the task.
Above(cutoff) == SetToSortSeq({n \in buffered : n > cutoff}, <) \o <<0>>

FeedOf(j, cutoff) ==
  CASE j = Monitor -> Newest(MonitorLimit)
    [] j = Track   -> Above(cutoff)

\* Each task with each trade.  The track has nothing to do without a fresh row,
\* and a row it cannot unpack ends its tick before the first trade.
Fetch(j) ==
  /\ LET items == FlattenSeq([i \in DOMAIN todo[j] |->
                    LET feed == FeedOf(j, todo[j][i][2]) IN
                      [k \in DOMAIN feed |-> <<todo[j][i][1], feed[k]>>]])
         none  == IF j = Track THEN \A i \in DOMAIN items : items[i][2] = 0 ELSE items = <<>>
     IN IF none \/ (j = Track /\ ~config.decoded)
          THEN pc[j] = "fetch" /\ End(j)
          ELSE /\ Go(j, "fetch", "check") /\ todo' = [todo EXCEPT ![j] = items]
               /\ UNCHANGED <<latest, context>>
  /\ UNCHANGED world

\* The source does not answer, or the query of the tasks raises.
FetchFails(j) ==
  /\ pc[j] \in {"list", "fetch"} /\ End(j) /\ CopyFault
  /\ UNCHANGED <<config, taskVars, orderVars, feedVars, switches, copied>>

-----------------------------------------------------------------------------
(* _process_one.                                                           *)

\* The end of a task of the track: its watermark moves past latest_seen.
Bump(j) ==
  /\ pc[j] = "check" /\ TradeOf(j) = 0
  /\ LET t == TaskOf(j) IN
       watermark' = IF Active(t) \/ taskStatus[t] = "paused"
                    THEN [watermark EXCEPT ![t] = IF latest[j] > @ THEN latest[j] ELSE @]
                    ELSE watermark
  /\ IF Tail(todo[j]) = <<>> THEN End(j)
     ELSE /\ todo' = [todo EXCEPT ![j] = Tail(@)] /\ latest' = [latest EXCEPT ![j] = 0]
          /\ UNCHANGED <<pc, context>>
  /\ UNCHANGED <<orderVars, spend, done, copied, bounds>> /\ Untouched

\* _is_already_processed.
Check(j) ==
  /\ pc[j] = "check" /\ TradeOf(j) > 0
  /\ IF Head(todo[j]) \in done THEN Advance(j, "check")
     ELSE Go(j, "check", "spend") /\ UNCHANGED <<todo, latest, context>>
  /\ UNCHANGED world

\* Mutant of SpentToday: the row is looked up under another date.
SpentToday_None(t) == 0

\* _get_daily_spend.
SpentToday(t) == spend[t]

\* Whether the trade passes the filters of the task: its size as _extract_size
\* finds it, the size _compute_copy_size makes of it, and its side.
Copies(n) == n \notin config.ignored

\* The cap is compared with a sum read long before the copy is paid.  A trade
\* that this or a filter drops leaves no mark, and is looked at again.
CheckSpend(j) ==
  /\ pc[j] = "spend"
  /\ IF SpentToday(TaskOf(j)) >= config.cap \/ ~Copies(TradeOf(j)) THEN Advance(j, "spend")
     ELSE Go(j, "spend", "user") /\ UNCHANGED <<todo, latest, context>>
  /\ UNCHANGED world

\* _load_user_context.
UserOf == trading

\* The trade becomes a signal with the switches of this moment.
LoadUser(j) ==
  /\ Go(j, "user", "gate") /\ context' = [context EXCEPT ![j] = UserOf]
  /\ UNCHANGED <<world, todo, latest>>

\* Any of these reads raises.
ReadFails(j) ==
  /\ pc[j] \in {"check", "spend", "user"} /\ TradeOf(j) > 0 /\ Raise(j, pc[j]) /\ CopyFault
  /\ UNCHANGED <<taskVars, orderVars, copied, config, feedVars, switches>>

\* A refused trade is marked.
Refused(j) == Go(j, "gate", "mark") /\ UNCHANGED <<todo, latest, context>>

\* The gate: kill switch, the user's switches as loaded, and the dedup.
Admits(j) ==
  /\ ~halted /\ context[j]
  /\ Key(j) \notin seen /\ TradeOf(j) \notin recent

GateApproves(j) ==
  /\ Go(j, "gate", "fill") /\ Admits(j)
  /\ seen' = seen \union {Key(j)}
  /\ UNCHANGED <<todo, latest, context, orders, recent, taskVars, copied, config, feedVars, switches,
                 bounds>>

GateRefuses(j) ==
  /\ pc[j] = "gate" /\ ~Admits(j) /\ Refused(j)
  /\ UNCHANGED world

\* The engine raises in the gate or in the fill: the exception is logged, and
\* the trade passes for done with the track.
EngineFails(j) ==
  /\ \/ Advance(j, "gate") \/ Advance(j, "fill")
  /\ CopyFault
  /\ UNCHANGED <<taskVars, orderVars, copied, config, feedVars, switches>>

\* The order, its position and its debit; a key that exists is a duplicate.
Fill(j) ==
  /\ pc[j] = "fill"
  /\ IF Key(j) \in orders
       THEN /\ Go(j, "fill", "mark")
            /\ UNCHANGED <<orders, recent, copied>>
       ELSE /\ Go(j, "fill", "record")
            /\ copied' = [copied EXCEPT ![TaskOf(j)] = @ + 1]
            /\ orders' = orders \union {Key(j)} /\ recent' = recent \union {TradeOf(j)}
  /\ UNCHANGED <<todo, latest, context, seen, spend, done, watermark, bounds>> /\ Untouched

\* _record_spend.  The row of a deleted task violates its foreign key.
Record(j) ==
  /\ pc[j] = "record"
  /\ IF taskStatus[TaskOf(j)] = "deleted" THEN Raise(j, "record") /\ UNCHANGED spend
     ELSE /\ Go(j, "record", "mark") /\ UNCHANGED <<todo, latest, context>>
          /\ spend' = [spend EXCEPT ![TaskOf(j)] = @ + 1]
  /\ UNCHANGED <<orderVars, done, watermark, copied, bounds>> /\ Untouched

\* _mark_processed.
Mark(j) ==
  /\ pc[j] = "mark"
  /\ IF taskStatus[TaskOf(j)] = "deleted" THEN Raise(j, "mark") /\ UNCHANGED done
     ELSE Advance(j, "mark") /\ done' = done \union {Head(todo[j])}
  /\ UNCHANGED <<orderVars, spend, watermark, copied, bounds>> /\ Untouched

\* One of the two writes fails.
WriteFails(j) ==
  /\ pc[j] \in {"record", "mark"} /\ Raise(j, pc[j]) /\ CopyFault
  /\ UNCHANGED <<taskVars, orderVars, copied, config, feedVars, switches>>

-----------------------------------------------------------------------------
(* The leader, the buffer and the clock.                                   *)

Jobless == UNCHANGED <<config, pc, todo, latest, context>>

\* The leader trades.
LeaderTrades ==
  /\ trades < config.leader /\ trades' = trades + 1
  /\ UNCHANGED <<buffered, taskVars, orderVars, switches, copied, bounds>> /\ Jobless

\* heisenberg_realtime_sync stores a trade, in no particular order.
Buffer(n) ==
  /\ Track \in config.jobs /\ n <= trades /\ n \notin buffered
  /\ buffered' = buffered \union {n}
  /\ UNCHANGED <<trades, taskVars, orderVars, switches, copied, bounds>> /\ Jobless

\* DEDUP_WINDOW_SECONDS and later 30 minutes pass.
TradeAge(n) ==
  /\ "age" \in config.moves /\ n \in recent /\ recent' = recent \ {n}
  /\ UNCHANGED <<orders, seen, taskVars, feedVars, switches, copied, bounds>> /\ Jobless

AgeKey(k) ==
  /\ "age" \in config.moves /\ k \in seen /\ seen' = seen \ {k}
  /\ UNCHANGED <<orders, recent, taskVars, feedVars, switches, copied, bounds>> /\ Jobless

\* A day ends: spend_date is part of the key of copy_trade_daily_spend.
Midnight ==
  /\ "day" \in config.moves /\ day < MaxDays /\ day' = day + 1
  /\ spend' = [t \in Tasks |-> 0] /\ copied' = [t \in Tasks |-> 0]
  /\ UNCHANGED <<taskStatus, manual, tapped, watermark, done, orderVars, feedVars, switches,
                 copyFaults, restarts>>
  /\ Jobless

\* The process dies with its ticks and with a tap not yet written.
Restart ==
  /\ "crash" \in config.moves /\ restarts < MaxRestarts /\ restarts' = restarts + 1
  /\ pc' = [j \in Jobs |-> "idle"] /\ todo' = [j \in Jobs |-> <<>>]
  /\ latest' = [j \in Jobs |-> 0] /\ context' = [j \in Jobs |-> TRUE]
  /\ tapped' = [t \in Tasks |-> "none"]
  /\ UNCHANGED <<config, taskStatus, manual, watermark, spend, done, orderVars, feedVars, switches,
                  copied, day, copyFaults>>

-----------------------------------------------------------------------------
(* The user and the operator.                                              *)

Console == Jobless /\ UNCHANGED <<orderVars, feedVars, copied, bounds>>

\* The wizard on Telegram or the form on the web.
Create(t) ==
  /\ "task" \in config.moves /\ taskStatus[t] = "none"
  /\ taskStatus' = [taskStatus EXCEPT ![t] = "active"]
  /\ UNCHANGED <<manual, tapped, watermark, spend, done, switches>> /\ Console

\* _toggle_task_pause reads the status and writes its opposite.
Tap(t) ==
  /\ "task" \in config.moves /\ tapped[t] = "none" /\ taskStatus[t] \in {"active", "paused"}
  /\ tapped' = [tapped EXCEPT ![t] = IF taskStatus[t] = "paused" THEN "active" ELSE "paused"]
  /\ UNCHANGED <<taskStatus, manual, watermark, spend, done, switches>> /\ Console

Tapped(t) ==
  /\ tapped[t] # "none" /\ tapped' = [tapped EXCEPT ![t] = "none"]
  /\ taskStatus' = IF taskStatus[t] = "deleted" THEN taskStatus ELSE [taskStatus EXCEPT ![t] = tapped[t]]
  /\ UNCHANGED <<manual, watermark, spend, done, switches>> /\ Console

\* The web sets the status it names.
Patch(t, s) ==
  /\ "task" \in config.moves /\ taskStatus[t] \in {"active", "paused"} /\ s \in {"active", "paused"}
  /\ taskStatus' = [taskStatus EXCEPT ![t] = s]
  /\ UNCHANGED <<manual, tapped, watermark, spend, done, switches>> /\ Console

PatchMode(t) ==
  /\ "manual" \in config.moves /\ taskStatus[t] \in {"active", "paused"}
  /\ manual' = IF t \in manual THEN manual \ {t} ELSE manual \union {t}
  /\ UNCHANGED <<taskStatus, tapped, watermark, spend, done, switches>> /\ Console

\* The rows of the task go with it.
Delete(t) ==
  /\ "task" \in config.moves /\ taskStatus[t] \in {"active", "paused"}
  /\ taskStatus' = [taskStatus EXCEPT ![t] = "deleted"]
  /\ spend' = [spend EXCEPT ![t] = 0] /\ done' = {d \in done : d[1] # t}
  /\ watermark' = [watermark EXCEPT ![t] = 0]
  /\ UNCHANGED <<manual, tapped, switches>> /\ Console

UserSwitch  == /\ "user" \in config.moves /\ trading' = ~trading
               /\ UNCHANGED <<enabled, halted, taskVars>> /\ Console
AdminSwitch == /\ "admin" \in config.moves /\ enabled' = ~enabled
               /\ UNCHANGED <<trading, halted, taskVars>> /\ Console
KillSwitch  == /\ "halt" \in config.moves /\ halted' = ~halted
               /\ UNCHANGED <<trading, enabled, taskVars>> /\ Console

-----------------------------------------------------------------------------
Process(j) ==
  \/ Check(j) \/ CheckSpend(j) \/ LoadUser(j) \/ ReadFails(j)
  \/ GateApproves(j) \/ GateRefuses(j) \/ EngineFails(j) \/ Fill(j)
  \/ Record(j) \/ Mark(j) \/ WriteFails(j)

JobStep(j) ==
  \/ Start(j) \/ StartBlind(j)
  \/ List(j) \/ Fetch(j) \/ FetchFails(j)
  \/ (j = Track /\ Bump(j)) \/ Process(j)

Environment ==
  \/ LeaderTrades \/ (\E n \in Trades : Buffer(n) \/ TradeAge(n)) \/ (\E k \in Keys : AgeKey(k))
  \/ Midnight \/ Restart
  \/ (\E t \in Tasks : Create(t) \/ Tap(t) \/ Tapped(t) \/ PatchMode(t) \/ Delete(t)
                         \/ (\E s \in {"active", "paused"} : Patch(t, s)))
  \/ UserSwitch \/ AdminSwitch \/ KillSwitch

CopyNext == (\E j \in Jobs : JobStep(j)) \/ Environment

CopySpec == CopyInit /\ [][CopyNext]_copyVars

\* APScheduler starts each job again and asyncio resumes its awaits; the leader,
\* the user and the operator owe nothing.
CopyFairSpec == CopySpec /\ \A j \in Jobs : WF_copyVars(JobStep(j))

-----------------------------------------------------------------------------
(* Properties.                                                             *)

\* The daily cap of a task is read before a copy is paid and recorded after:
\* the copies of a day exceed max_daily_spend only by what the other job had in
\* flight, by a record that could not be written, and by those a crash lost.
SpendCap ==
  \A t \in Tasks : taskStatus[t] # "deleted" =>
    copied[t] <= config.cap + 1 + copyFaults + 2 * restarts

\* The trades that task t still has to decide: they pass its filters and are
\* among the newest of the wallet, the task is active in auto mode, copy trading
\* is on and the cap of the day is not used up.
Owed(t) ==
  {n \in 1 .. trades :
     /\ Copies(n)
     /\ n > trades - MonitorLimit /\ <<t, n>> \notin done
     /\ Active(t) /\ t \notin manual /\ ~halted /\ enabled /\ Monitor \in config.jobs
     /\ spend[t] < config.cap}

\* No trade is owed to a task forever: whatever the order of failures, restarts
\* and watermarks, the monitor copies it or has it refused in the end.
Mirrored == \A t \in Tasks, n \in Trades : []<>(n \notin Owed(t))

\* A task that stays paused or deleted, or in manual mode, is worked on by no job
\* in the end.
StoppedTaskRests ==
  LET Rests(t) == \A j \in Jobs : \A i \in DOMAIN todo[j] : todo[j][i][1] # t IN
  \A t \in Tasks :
    <>[](taskStatus[t] \in {"paused", "deleted"} \/ t \in manual) => <>[]Rests(t)
=============================================================================
