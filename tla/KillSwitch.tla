----------------------------- MODULE KillSwitch -----------------------------
(***************************************************************************)
(* The operator's kill switch: the flag in system_settings, the cache of   *)
(* 30 seconds in front of it (domain/ops/kill_switch.py), the commands     *)
(* that flip it (domain/risk/kill_switch_exec.py) and the two switches of  *)
(* the user that a lock turns off.                                         *)
(***************************************************************************)
EXTENDS Integers

CONSTANTS
  Readers,  \* the tasks that ask whether the switch is on
  NoReader, \* not a reader: nobody holds the lock of the cache
  Commands  \* the operator's commands; "kill" and "reset" go on after set_active

ASSUME SwitchAssumption ==
  NoReader \notin Readers /\ Commands \subseteq {"pause", "resume", "lock", "kill", "reset"}

VARIABLES
  flag,     \* system_settings.kill_switch_active
  autoOn,   \* users.auto_trade_on
  liveOn,   \* user_settings.trading_mode = 'live'
  cache,    \* the cached value; "none" when absent or expired
  holder,   \* who holds the lock of the cache
  fetched,  \* the value its SELECT has read, "none" before
  op        \* what the operator's command still has to do

userSwitches == <<autoOn, liveOn>>
cacheVars    == <<cache, holder, fetched>>
switchVars   == <<flag, userSwitches, cacheVars, op>>

SwitchTypeOK ==
  /\ flag \in BOOLEAN /\ autoOn \in BOOLEAN /\ liveOn \in BOOLEAN
  /\ cache \in {"none", "on", "off"}
  /\ holder \in Readers \union {NoReader}
  /\ fetched \in {"none", "on", "off"}
  /\ op \in {"idle", "invalidate", "kill", "reset", "cancel", "raise", "clear"}

ColdCache == cache = "none" /\ holder = NoReader /\ fetched = "none"

SwitchInit ==
  /\ flag = FALSE /\ autoOn = TRUE /\ liveOn = TRUE
  /\ ColdCache
  /\ op = "idle"

\* A new process starts with a cold cache and no command.
SwitchRestart ==
  /\ cache' = "none" /\ holder' = NoReader /\ fetched' = "none"
  /\ op' = "idle"
  /\ UNCHANGED <<flag, userSwitches>>

-----------------------------------------------------------------------------
(* is_active.                                                              *)

\* A cold cache: the reader takes the lock.
Acquire(r) ==
  /\ cache = "none" /\ holder = NoReader
  /\ holder' = r
  /\ UNCHANGED <<flag, userSwitches, cache, fetched, op>>

\* Its SELECT reads the flag.
Fetch(r) ==
  /\ holder = r /\ fetched = "none"
  /\ fetched' = IF flag THEN "on" ELSE "off"
  /\ UNCHANGED <<flag, userSwitches, cache, holder, op>>

\* The answer arrives: it is cached and the lock released.
Store(r) ==
  /\ holder = r /\ fetched # "none"
  /\ cache' = fetched
  /\ holder' = NoReader /\ fetched' = "none"
  /\ UNCHANGED <<flag, userSwitches, op>>

\* Mutant of FetchFails: the lock is not released.
FetchFails_KeepsLock(r) ==
  /\ holder = r
  /\ UNCHANGED switchVars

\* The read fails: nothing is cached, and the answer is "on".
FetchFails(r) ==
  /\ holder = r
  /\ holder' = NoReader /\ fetched' = "none"
  /\ UNCHANGED <<flag, userSwitches, cache, op>>

\* Mutant of CacheExpires: an entry never expires.
CacheExpires_Never ==
  /\ cache = "expired"
  /\ UNCHANGED switchVars

\* CACHE_TTL_SECONDS have passed.
CacheExpires ==
  /\ cache # "none" /\ cache' = "none"
  /\ UNCHANGED <<flag, userSwitches, holder, fetched, op>>

-----------------------------------------------------------------------------
(* The operator's commands, one at a time.  "pause", "resume" and "lock"   *)
(* call set_active; "kill" and "reset" are execute_kill_switch and         *)
(* reset_kill_switch, which go on after it.                                *)

\* set_active, up to the commit of its transaction.
SetActive(cmd) ==
  /\ op = "idle" /\ cmd \in Commands
  /\ flag' = (cmd \in {"pause", "lock", "kill"})
  /\ IF cmd = "lock" THEN autoOn' = FALSE /\ liveOn' = FALSE ELSE UNCHANGED userSwitches
  /\ op' = IF cmd \in {"kill", "reset"} THEN cmd ELSE "invalidate"
  /\ UNCHANGED cacheVars

\* set_active raises: "kill" and "reset" go on without it.
SetActiveFails(cmd) ==
  /\ op = "idle" /\ cmd \in Commands \intersect {"kill", "reset"}
  /\ op' = IF cmd = "kill" THEN "cancel" ELSE "clear"
  /\ UNCHANGED <<flag, userSwitches, cacheVars>>

\* invalidate_cache, which does not wait for the lock.
Invalidate ==
  /\ op \in {"invalidate", "kill", "reset"}
  /\ cache' = "none"
  /\ op' = IF op = "kill" THEN "cancel" ELSE IF op = "reset" THEN "clear" ELSE "idle"
  /\ UNCHANGED <<flag, userSwitches, holder, fetched>>

\* _cancel_pending_orders has been tried.
CancelTried ==
  /\ op = "cancel" /\ op' = "raise"
  /\ UNCHANGED <<flag, userSwitches, cacheVars>>

\* _set_system_flag.
SetFlag ==
  /\ op \in {"raise", "clear"}
  /\ flag' = (op = "raise")
  /\ op' = "idle"
  /\ UNCHANGED <<userSwitches, cacheVars>>

\* _set_system_flag raises, which is logged.
SetFlagFails ==
  /\ op \in {"raise", "clear"} /\ op' = "idle"
  /\ UNCHANGED <<flag, userSwitches, cacheVars>>

-----------------------------------------------------------------------------
(* The user's switches.                                                    *)

\* toggle_autotrade turns it off.
DisableAuto ==
  /\ autoOn' = FALSE
  /\ UNCHANGED <<flag, liveOn, cacheVars, op>>

\* toggle_autotrade turns it on, which is_active must allow; the answer is the
\* cached one (what a cold read does is modelled at the readers).
EnableAuto ==
  /\ cache = "off"
  /\ autoOn' = TRUE
  /\ UNCHANGED <<flag, liveOn, cacheVars, op>>

\* enable_live.
EnableLive ==
  /\ liveOn' = TRUE
  /\ UNCHANGED <<flag, autoOn, cacheVars, op>>

\* fallback.trigger and disable_live: the user trades on paper from now on.
FlipToPaper ==
  /\ liveOn' = FALSE
  /\ UNCHANGED <<flag, autoOn, cacheVars, op>>
=============================================================================
