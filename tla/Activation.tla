------------------------------ MODULE Activation ------------------------------
(***************************************************************************)
(* Who may start, stop, lock and take live one user's bot: the Telegram    *)
(* handlers of bot/handlers (one update at a time), the requests of the    *)
(* web back end, the operator, and the fallbacks to paper.  A handler is a *)
(* program: a sequence of reads that must answer something and of UPDATEs, *)
(* with an await before each, so that the others run in between.           *)
(*                                                                         *)
(* The row of users and the row of user_settings are one record.  The      *)
(* eight gates of the live checklist are one answer, ready, which changes  *)
(* at any time; so does the count of live errors behind the auto fallback. *)
(***************************************************************************)
EXTENDS Naturals, Sequences

CONSTANTS
  Caps,      \* capital caps a user types; any other input is refused
  Scopes,    \* sets of programs, one of which an instance runs: a bound
  MaxFaults  \* bound: statements that fail

ASSUME ActivationAssumption == Caps \subseteq Nat \ {0} /\ MaxFaults \in Nat

VARIABLES
  db,        \* the rows of the user in users and user_settings
  ready,     \* what the live checklist answers
  killed,    \* kill_switch_active
  errors,    \* more than ERROR_THRESHOLD live errors within LOOKBACK_SECONDS
  awaiting,  \* ctx.user_data["awaiting"]
  session,   \* ctx.user_data: the cap typed, and its 10 s window not yet over
  run,       \* run[a] : handler of actor a in flight and its statements left
  listed,    \* auto_fallback has listed the user as live
  prompted,  \* a question about live mode is unanswered (history)
  consent,   \* consent[a] : "none", "given" or "checked" (history)
  scope, faults

chat   == <<awaiting, session, prompted>>
around == <<ready, killed, errors>>
vars   == <<db, around, chat, run, listed, consent, scope, faults>>

Actors    == {"telegram", "web"}
NoSession == [cap |-> 0, open |-> FALSE]
Idle      == [op |-> "none", todo |-> << >>]

TypeOK ==
  /\ db.auto \in BOOLEAN /\ db.paused \in BOOLEAN /\ db.locked \in BOOLEAN
  /\ db.preset \in BOOLEAN /\ db.mode \in {"paper", "live"} /\ db.cap \in Caps \union {0}
  /\ \A f \in {"capital", "tp", "sl"} : db[f] \in 0 .. 1000
  /\ ready \in BOOLEAN /\ killed \in BOOLEAN /\ errors \in BOOLEAN
  /\ awaiting \in {"none", "other", "mode", "step1", "cap", "step2",
                  "capital", "tp", "sl", "riskCapital", "riskTp", "riskSl"}
  /\ session \in [cap : Caps \union {0}, open : BOOLEAN]
  /\ listed \in BOOLEAN /\ prompted \in BOOLEAN
  /\ \A a \in Actors : Len(run[a].todo) <= 5 /\ (run[a].op = "none") = (run[a].todo = << >>)
  /\ consent \in [Actors -> {"none", "given", "checked"}]
  /\ scope \in Scopes /\ faults \in 0 .. MaxFaults

\* Record r laid over record s: the columns an UPDATE sets, over the row.
Over(r, s) == [f \in DOMAIN r \union DOMAIN s |-> IF f \in DOMAIN r THEN r[f] ELSE s[f]]

\* Capital, take profit and stop loss in percent: of the balanced profile, and
\* of the preset as Telegram and as the web write it.
Values(c, t, s) == [capital |-> c, tp |-> t, sl |-> s]
Balanced == Values(40, 20, 15)
ByChat   == Values(40, 90, 40)
ByWeb    == Values(30, 15, 8)
OfDb     == Values(db.capital, db.tp, db.sl)

\* _bootstrap_new_user: paper mode, off, a preset ready, no copy task.
NewUser == Over(Balanced, [auto |-> FALSE, paused |-> FALSE, locked |-> FALSE, preset |-> TRUE,
                           mode |-> "paper", cap |-> 0, tasks |-> << >>])

Init ==
  /\ db = NewUser
  /\ ready = TRUE /\ killed = FALSE /\ errors = FALSE
  /\ awaiting = "none" /\ session = NoSession /\ prompted = FALSE
  /\ run = [a \in Actors |-> Idle] /\ listed = FALSE
  /\ consent = [a \in Actors |-> "none"]
  /\ scope \in Scopes /\ faults = 0

-----------------------------------------------------------------------------
(* Statements: a read that stops the handler unless the field has the      *)
(* value, an UPDATE, and a question that arms the text router.             *)

Need(f, v) == [kind |-> "need", field |-> f, value |-> v]
Put(r)     == [kind |-> "put", row |-> r]
Ask(k)     == [kind |-> "ask", key |-> k]

\* presets: _on_activate, and step_save of a new activation.
PresetActivate == << Need("locked", FALSE), Need("mode", "paper"), Put(Over([preset |-> TRUE], ByChat)),
                     Put([auto |-> TRUE]), Put([paused |-> FALSE]) >>
\* presets: _on_switch_yes and _on_stop_yes.
PresetStop     == << Put([preset |-> FALSE]), Put([auto |-> FALSE]), Put([paused |-> FALSE]) >>
\* presets: _on_pause, to resume.
PresetResume   == << Need("locked", FALSE), Put([paused |-> FALSE]) >>
\* handlers/autotrade: _activate_preset.
ActivateP5     == << Put(Over([preset |-> TRUE], Balanced)), Put([auto |-> TRUE]) >>
\* mvp/autotrade: do_start and do_resume.
MvpStart       == << Put([paused |-> FALSE]), Put([auto |-> TRUE]) >>
MvpResume      == << Put([paused |-> FALSE]) >>
\* dashboard: autotrade_toggle_cb, by what the user's row said.
ToggleOn       == << Need("auto", FALSE), Put([auto |-> TRUE]) >>
ToggleOff      == << Need("auto", TRUE), Put([auto |-> FALSE]) >>
\* emergency: pause, stop_auto_trade, lock, lock_bot.
Pause          == << Put([paused |-> TRUE]) >>
StopAuto       == << Put([auto |-> FALSE]) >>
Lock           == << Put([paused |-> TRUE]), Put([locked |-> TRUE]) >>
LockBot        == << Put([paused |-> TRUE]), Put([auto |-> FALSE]), Put([locked |-> TRUE]) >>

\* setup: set_mode, to paper, and to live up to its question.
SetPaper       == << Put([mode |-> "paper"]) >>
AskMode        == << Need("ready", TRUE), Ask("mode") >>
\* Mutant of ConfirmMode: no second look at the checklist.
ConfirmMode_Trusting == << Put([mode |-> "live"]) >>
\* activation: text_input after CONFIRM.
ConfirmMode    == << Need("ready", TRUE), Put([mode |-> "live"]) >>
\* live_gate: the YES button, and disable_live_command.
Enable(c)      == << Need("ready", TRUE), Put([mode |-> "live", cap |-> c]) >>
Disable        == << Need("mode", "live"), Put([mode |-> "paper"]) >>

\* web: /autotrade/toggle, /autotrade/preset, /kill, /resume, /live/enable
\* and /live/disable.
WebToggleOn    == << Need("killed", FALSE), Need("preset", TRUE), Put([auto |-> TRUE]) >>
WebToggleOff   == << Put([auto |-> FALSE]) >>
WebPreset      == << Put(Over([preset |-> TRUE], ByWeb)) >>
WebKill        == << Put([paused |-> TRUE]) >>
WebResume      == << Put([paused |-> FALSE]) >>
WebEnable(c)   == << Need("ready", TRUE), Put([mode |-> "live", cap |-> c]) >>
WebDisable     == << Put([mode |-> "paper"]) >>

-----------------------------------------------------------------------------
(* A handler runs.                                                         *)

Free(a) == run[a].op = "none"

Start(a, op, todo) ==
  /\ Free(a) /\ op \in scope
  /\ run' = [run EXCEPT ![a] = [op |-> op, todo |-> todo]]

\* The rest of a handler; its last statement ends it.
Rest(a) == LET r == Tail(run[a].todo) IN IF r = << >> THEN Idle ELSE [run[a] EXCEPT !.todo = r]
Leave(a, next) ==
  /\ run' = [run EXCEPT ![a] = next]
  /\ consent' = [consent EXCEPT ![a] = IF next.op = "none" THEN "none" ELSE @]

Statement(a, kind) == ~Free(a) /\ Head(run[a].todo).kind = kind
Answer(f) == CASE f = "ready" -> ready [] f = "killed" -> killed [] OTHER -> db[f]

Read(a) ==
  /\ Statement(a, "need")
  /\ LET s == Head(run[a].todo) IN
       IF Answer(s.field) # s.value
       THEN Leave(a, Idle)
       ELSE /\ run' = [run EXCEPT ![a] = Rest(a)]
            /\ consent' = [consent EXCEPT ![a] =
                 IF s.field = "ready" /\ @ = "given" THEN "checked" ELSE @]
  /\ UNCHANGED <<db, around, chat, listed, scope, faults>>

\* Of the chat, an UPDATE drops what its handler asked for: see Wizards.
Write(a) ==
  /\ Statement(a, "put")
  /\ db' = Over(Head(run[a].todo).row, db)
  /\ Leave(a, Rest(a))
  /\ UNCHANGED <<around, listed, scope, faults>>

\* The UPDATE raises: the mvp helpers swallow it, every other handler stops.
WriteFails(a) ==
  /\ Statement(a, "put") /\ faults < MaxFaults /\ faults' = faults + 1
  /\ Leave(a, IF run[a].op \in {"mvpStart", "mvpResume"} THEN Rest(a) ELSE Idle)
  /\ UNCHANGED <<db, around, chat, listed, scope>>

Question(a) ==
  /\ Statement(a, "ask")
  /\ awaiting' = Head(run[a].todo).key /\ prompted' = TRUE
  /\ Leave(a, Rest(a))
  /\ UNCHANGED <<db, around, session, listed, scope, faults>>

-----------------------------------------------------------------------------
(* Telegram: what the user taps and types.  One update at a time.          *)

Taps == [presetActivate |-> PresetActivate, presetStop |-> PresetStop,
         presetResume |-> PresetResume, activateP5 |-> ActivateP5, mvpStart |-> MvpStart,
         mvpResume |-> MvpResume, toggleOn |-> ToggleOn, toggleOff |-> ToggleOff,
         pause |-> Pause, stopAuto |-> StopAuto, lock |-> Lock,
         lockBot |-> LockBot, setPaper |-> SetPaper, askMode |-> AskMode]

Tap(op) ==
  /\ Start("telegram", op, Taps[op])
  /\ UNCHANGED <<db, around, chat, listed, consent, scope, faults>>

\* _text_router: a menu label drops the pending question.
MenuTap ==
  /\ Free("telegram") /\ awaiting' = "none" /\ prompted' = FALSE
  /\ UNCHANGED <<db, around, session, run, listed, consent, scope, faults>>

\* Another flow asks for a text and takes the slot.
OtherQuestion ==
  /\ Free("telegram") /\ "other" \in scope /\ awaiting' = "other" /\ prompted' = FALSE
  /\ UNCHANGED <<db, around, session, run, listed, consent, scope, faults>>

Clear == awaiting' = "none" /\ session' = NoSession /\ prompted' = FALSE

\* What a CONFIRM is worth.
Consent == consent' = [consent EXCEPT !["telegram"] = IF prompted THEN "given" ELSE "none"]

\* activation.text_input: CONFIRM, or anything else.
AnswerMode ==
  /\ awaiting = "mode" /\ awaiting' = "none" /\ prompted' = FALSE
  /\ \/ Start("telegram", "confirmMode", ConfirmMode) /\ Consent
     \/ Free("telegram") /\ UNCHANGED <<run, consent>>
  /\ UNCHANGED <<db, around, session, listed, scope, faults>>

\* /enable_live, while the operator's guards are set.
EnableCommand ==
  /\ Free("telegram") /\ "enable" \in scope
  /\ awaiting' = "step1" /\ session' = NoSession /\ prompted' = TRUE
  /\ UNCHANGED <<db, around, run, listed, consent, scope, faults>>

\* live_gate.text_input: CONFIRM or not, then the amount.
AnswerStep1 ==
  /\ Free("telegram") /\ awaiting = "step1"
  /\ \/ awaiting' = "cap" /\ UNCHANGED <<session, prompted>>
     \/ Clear
  /\ UNCHANGED <<db, around, run, listed, consent, scope, faults>>
AnswerCap ==
  /\ Free("telegram") /\ awaiting = "cap"
  /\ \E c \in Caps : session' = [cap |-> c, open |-> TRUE]
  /\ awaiting' = "step2"
  /\ UNCHANGED <<db, around, prompted, run, listed, consent, scope, faults>>
WindowEnds ==
  /\ session.open /\ session' = [session EXCEPT !.open = FALSE]
  /\ UNCHANGED <<db, around, awaiting, prompted, run, listed, consent, scope, faults>>

\* live_gate_callback: yes within the window, or late or cancelled.
Yes ==
  /\ awaiting = "step2" /\ session.open
  /\ Start("telegram", "enable", Enable(session.cap)) /\ Consent /\ Clear
  /\ UNCHANGED <<db, around, listed, scope, faults>>
NotYes ==
  /\ Free("telegram") /\ awaiting = "step2" /\ Clear
  /\ UNCHANGED <<db, around, run, listed, consent, scope, faults>>
DisableCommand ==
  /\ Start("telegram", "disable", Disable) /\ Clear
  /\ UNCHANGED <<db, around, listed, consent, scope, faults>>

-----------------------------------------------------------------------------
(* The web back end, the operator and the jobs.                            *)

Requests == [webToggleOn |-> WebToggleOn, webToggleOff |-> WebToggleOff, webPreset |-> WebPreset,
             webKill |-> WebKill, webResume |-> WebResume, webDisable |-> WebDisable]

Request(op) ==
  /\ Start("web", op, Requests[op])
  /\ UNCHANGED <<db, around, chat, listed, consent, scope, faults>>

\* Only with the exact phrase and a cap within its bounds.
RequestEnable ==
  /\ \E c \in Caps : Start("web", "webEnable", WebEnable(c))
  /\ consent' = [consent EXCEPT !["web"] = "given"]
  /\ UNCHANGED <<db, around, chat, listed, scope, faults>>

Operator(row, kill) ==
  /\ db' = Over(row, db) /\ killed' = kill
  /\ UNCHANGED <<ready, errors, chat, run, listed, consent, scope, faults>>
\* /unlock; set_active: pause, resume, lock; the admin page sets paused.
Unlock     == "unlock" \in scope /\ Operator([locked |-> FALSE], killed)
KillPause  == "kill" \in scope /\ Operator(<< >>, TRUE)
KillResume == "kill" \in scope /\ Operator(<< >>, FALSE)
KillLock   == "kill" \in scope /\ Operator([auto |-> FALSE, mode |-> "paper"], TRUE)
AdminPause == "admin" \in scope /\ \E p \in BOOLEAN : Operator([paused |-> p], killed)

\* fallback.trigger: the gate halts, a guard is unset or the broker fails.
Fallback ==
  /\ "fallback" \in scope /\ db.mode = "live"
  /\ db' = [db EXCEPT !.mode = "paper"]
  /\ UNCHANGED <<around, chat, run, listed, consent, scope, faults>>

\* Mutant of ListLive: only users whose auto-trade is on.
ListLive_Running ==
  /\ errors /\ db.mode = "live" /\ db.auto /\ ~listed /\ listed' = TRUE
  /\ UNCHANGED <<db, around, chat, run, consent, scope, faults>>

\* run_auto_fallback_check: the list, then each user's UPDATE.
ListLive ==
  /\ errors /\ db.mode = "live" /\ ~listed /\ listed' = TRUE
  /\ UNCHANGED <<db, around, chat, run, consent, scope, faults>>
SwitchToPaper ==
  /\ listed /\ listed' = FALSE
  /\ db' = [db EXCEPT !.mode = "paper"]
  /\ UNCHANGED <<around, chat, run, consent, scope, faults>>
SwitchFails ==
  /\ listed /\ listed' = FALSE
  /\ faults < MaxFaults /\ faults' = faults + 1
  /\ UNCHANGED <<db, around, chat, run, consent, scope>>

\* The checklist's answer and the count of errors.
Drift ==
  /\ "drift" \in scope
  /\ \/ ready' = ~ready /\ UNCHANGED errors
     \/ errors' = ~errors /\ UNCHANGED ready
  /\ UNCHANGED <<db, killed, chat, run, listed, consent, scope, faults>>

AutoFallback == ListLive \/ SwitchToPaper

\* All but the router of plain text and the UPDATEs, which Wizards composes.
OtherStep ==
  \/ \E a \in Actors : Read(a) \/ Question(a)
  \/ \E op \in DOMAIN Taps : Tap(op)
  \/ OtherQuestion \/ EnableCommand \/ WindowEnds \/ Yes \/ NotYes \/ DisableCommand
  \/ \E op \in DOMAIN Requests : Request(op)
  \/ RequestEnable
  \/ Unlock \/ KillPause \/ KillResume \/ KillLock \/ AdminPause
  \/ Fallback \/ AutoFallback \/ SwitchFails \/ Drift

-----------------------------------------------------------------------------
(* Properties.                                                             *)

\* A user's mode becomes live only by a handler whose question the user had
\* not left, whose answer was yes, and for which the checklist passed after
\* that answer: setup.set_mode, live_gate and /live/enable share one slot of
\* pending questions with every other flow.
LiveIsConfirmed ==
  [][(db.mode = "paper" /\ db'.mode = "live") => \E a \in Actors : consent[a] = "checked"]_vars

\* While live errors stay above the threshold, the auto fallback takes the
\* user back to paper, again and again if the user insists.
FallbackLands == <>[]errors => []<>(db.mode = "paper")
=============================================================================
