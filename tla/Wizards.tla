------------------------------ MODULE Wizards ------------------------------
(***************************************************************************)
(* The settings and copy-trade wizards of the Telegram bot, composed with  *)
(* Activation.  Four ConversationHandlers are registered before the router *)
(* of plain text: the first one that is inside a conversation whose state  *)
(* takes a text consumes it.  Their drafts live in ctx.user_data; buttons  *)
(* of old messages enter a wizard again at any time.                       *)
(*                                                                         *)
(* The web back end writes the same rows meanwhile.                        *)
(***************************************************************************)
EXTENDS Activation, FiniteSetsExt

CONSTANTS
  Percents,  \* numbers a user types or taps
  Options,   \* what the buttons of the copy wizard offer, by step
  MaxTasks   \* bound: rows of copy_trade_tasks

ASSUME WizardsAssumption == Percents \subseteq 1 .. 1000 /\ MaxTasks \in Nat

VARIABLES
  conv,     \* conv[f] : state of conversation f
  typing,   \* typing[f] : the field whose value is to be typed
  draft,    \* draft[f] : what ctx.user_data holds for f
  shown,    \* shown[f] : the draft its last review showed (history)
  pending,  \* pending_tp, 0 when absent
  risk,     \* risk_custom_capital and risk_custom_tp
  left      \* a menu label was tapped while a question stood, since the last one (history)

convs   == <<conv, typing, draft, shown>>
numbers == <<pending, risk>>
wizard  == <<convs, numbers, left>>
all     == <<vars, wizard>>

Order  == <<"copyNew", "copyEdit", "p5", "preset">>  \* of registration
Flows  == {"copyNew", "copyEdit", "p5", "preset"}
Absent == << >>
Fields == {"capital", "tp", "sl"}

WizardsTypeOK ==
  /\ TypeOK
  /\ conv \in [Flows -> {"off", "capital", "tp", "sl", "input", "review", "edit", "custom"}
                         \union DOMAIN Options]
  /\ typing \in [Flows -> Fields \union {"none"}]
  /\ pending \in {0} \union Percents /\ DOMAIN risk = {"capital", "tp"} /\ left \in BOOLEAN
  /\ \A f \in Flows \ {"copyEdit"} : conv[f] = "review" => shown[f] = draft[f]
  /\ Len(db.tasks) <= MaxTasks

WizardsInit ==
  /\ Init
  /\ conv = [f \in Flows |-> "off"] /\ typing = [f \in Flows |-> "none"]
  /\ draft = [f \in Flows |-> Absent] /\ shown = [f \in Flows |-> Absent]
  /\ pending = 0 /\ risk = [capital |-> 0, tp |-> 0] /\ left = FALSE

-----------------------------------------------------------------------------
(* Conversations.                                                          *)

\* The state after a field is chosen.
After == [preset  |-> [capital |-> "tp", tp |-> "sl", sl |-> "review"],
          p5      |-> [capital |-> "tp", tp |-> "sl", sl |-> "review"],
          copyNew |-> [nickname |-> "wallet", wallet |-> "direction", direction |-> "type",
                       type |-> "amount", amount |-> "mode", mode |-> "slippage",
                       slippage |-> "topups", topups |-> "review"]]

\* What the handlers accept, buttons and typed values.
Accepted == [preset |-> [capital |-> {25, 50, 75, 100}, tp |-> 1 .. 200, sl |-> 1 .. 50],
             p5     |-> [capital |-> 1 .. 1000, tp |-> 1 .. 1000, sl |-> 1 .. 1000]]
OnOffer(f, s) == IF f = "copyNew" THEN Options[s] ELSE Percents \intersect Accepted[f][s]

\* Mutant of Goto: the review shows the draft before the last choice.
Goto_Stale(f, s, d) ==
  /\ conv' = [conv EXCEPT ![f] = s]
  /\ draft' = [draft EXCEPT ![f] = d]
  /\ shown' = [shown EXCEPT ![f] = IF s = "review" THEN draft[f] ELSE Absent]

\* Enter state s with draft d; a review is shown.
Goto(f, s, d) ==
  /\ conv' = [conv EXCEPT ![f] = s]
  /\ draft' = [draft EXCEPT ![f] = d]
  /\ shown' = [shown EXCEPT ![f] = IF s = "review" THEN d ELSE Absent]

Set(f, s, v) == Goto(f, After[f][s], Over([x \in {s} |-> v], draft[f]))
Still == UNCHANGED <<vars, numbers, left>>
CanTap(op) == Free("telegram") /\ op \in scope

\* wizard_enter_customize, wizard_enter_edit; start_customize_wizard, which
\* keeps a draft it finds; nwiz_enter.
EnterPreset ==
  /\ CanTap("preset") /\ Goto("preset", "capital", Over(ByChat, [new |-> TRUE]))
  /\ typing' = [typing EXCEPT !["preset"] = "none"] /\ Still
EnterEdit ==
  /\ CanTap("preset") /\ typing' = [typing EXCEPT !["preset"] = "none"] /\ Still
  /\ IF db.preset THEN Goto("preset", "capital", Over(OfDb, [new |-> FALSE]))
                  ELSE Goto("preset", "off", draft["preset"])
EnterP5 ==
  /\ CanTap("p5") /\ UNCHANGED typing /\ Still
  /\ Goto("p5", "capital", IF draft["p5"] = Absent THEN Values(50, 15, 10) ELSE draft["p5"])
EnterCopy ==
  /\ CanTap("copyNew") /\ UNCHANGED typing /\ Still
  /\ Goto("copyNew", "nickname", Absent)

\* A button of a step.
Pick(f) ==
  /\ Free("telegram") /\ f \in DOMAIN After /\ conv[f] \in DOMAIN After[f]
  /\ conv[f] \notin {"nickname", "amount"}
  /\ \E v \in OnOffer(f, conv[f]) : Set(f, conv[f], v)
  /\ UNCHANGED typing /\ Still

\* [Custom]: the preset wizard has a state for it, the other one a flag.
AskCustom(f) ==
  /\ Free("telegram") /\ typing' = [typing EXCEPT ![f] = conv[f]] /\ Still
  /\ \/ f = "preset" /\ conv[f] \in {"tp", "sl"} /\ Goto(f, "input", draft[f])
     \/ f = "p5" /\ conv[f] \in Fields /\ Goto(f, conv[f], draft[f])

Back(f) ==
  /\ Free("telegram") /\ UNCHANGED typing /\ Still
  /\ \E s \in Fields :
       /\ \/ f \in {"preset", "p5"} /\ conv[f] = "review" /\ s = "sl"
          \/ f = "preset" /\ (conv[f] \in DOMAIN After[f] /\ After[f][s] = conv[f])
          \/ f = "preset" /\ conv[f] = "input" /\ s \in {"tp", "sl"}
       /\ Goto(f, s, draft[f])

End(f) == Goto(f, "off", IF f = "p5" THEN draft[f] ELSE Absent)
Cancel(f) ==
  /\ Free("telegram") /\ f # "p5" /\ conv[f] # "off" /\ End(f)
  /\ UNCHANGED typing /\ Still

-----------------------------------------------------------------------------
(* Texts.                                                                  *)

TakesText(f) ==
  CASE f = "copyNew" -> conv[f] \in {"nickname", "amount"}
    [] f = "p5"      -> conv[f] \in Fields
    [] OTHER         -> conv[f] # "off"
TakesLabel(f) == TakesText(f) \/ (f = "copyNew" /\ conv[f] # "off")

FirstOf(S) == IF S = {} THEN "router" ELSE Order[Min({i \in 1 .. 4 : Order[i] \in S})]
Taker      == FirstOf({f \in Flows : TakesText(f)})
LabelTaker == FirstOf({f \in Flows : TakesLabel(f)})

\* A typed value, within what the field accepts.
TypeValue(f) ==
  /\ Free("telegram") /\ Taker = f /\ Still
  /\ \/ /\ f = "copyNew" /\ \E v \in OnOffer(f, conv[f]) : Set(f, conv[f], v)
        /\ UNCHANGED typing
     \/ /\ f \in {"preset", "p5"} /\ typing[f] # "none" /\ (f = "preset" => conv[f] = "input")
        /\ \E v \in OnOffer(f, typing[f]) : Set(f, typing[f], v)
        /\ typing' = [typing EXCEPT ![f] = "none"]

\* Any other text leaves the preset wizard outside its input state, and the
\* other one when it awaits no value; inside, it is asked for again.
TypeElse(f) ==
  /\ Free("telegram") /\ Taker = f /\ f \in {"preset", "p5"} /\ Still /\ UNCHANGED typing
  /\ IF f = "preset" THEN conv[f] # "input" /\ Goto(f, "off", draft[f])
     ELSE Goto(f, IF typing[f] = "none" THEN "off" ELSE typing[f], draft[f])

\* A menu label inside a conversation: taken as a nickname, refused as a
\* number, or the end of the conversation.
LabelTap(f) ==
  /\ Free("telegram") /\ LabelTaker = f /\ left' = (left \/ prompted)
  /\ \/ f = "copyNew" /\ conv[f] = "nickname" /\ \E v \in Options["nickname"] : Set(f, "nickname", v)
     \/ f = "copyNew" /\ conv[f] \notin {"nickname", "amount"} /\ End(f)
     \/ f = "copyEdit" /\ End(f)
     \/ f = "p5" /\ Goto(f, IF typing[f] = "none" THEN "off" ELSE typing[f], draft[f])
     \/ f = "preset" /\ End(f)
     \/ conv[f] \in {"amount", "custom", "input"} /\ UNCHANGED <<conv, draft, shown>>
  /\ UNCHANGED <<vars, typing, numbers>>

\* The router answers a text no conversation takes.
Routed ==
  \/ MenuTap /\ LabelTaker = "router" /\ left' = (left \/ prompted) /\ UNCHANGED <<convs, numbers>>
  \/ (AnswerMode \/ AnswerStep1 \/ AnswerCap) /\ Taker = "router" /\ UNCHANGED wizard

-----------------------------------------------------------------------------
(* Saving: step_save, _save_customize, nwiz_confirm.                       *)

\* What the other surfaces write, and room for both actors to insert: a bound.
SomeTerms == [s \in DOMAIN Options |-> CHOOSE v \in Options[s] : TRUE]
Room == Len(db.tasks) + 2 <= MaxTasks

OfDraft(d) == Values(d.capital, d.tp, d.sl)
SavePreset(d) ==
  IF d.new
  THEN << Need("locked", FALSE), Need("mode", "paper"), Put(Over([preset |-> TRUE], OfDraft(d))),
          Put([auto |-> TRUE]), Put([paused |-> FALSE]) >>
  ELSE << Put(OfDraft(d)) >>
Insert(terms) == [kind |-> "insert", row |-> [status |-> "active", reverse |-> FALSE, terms |-> terms]]
SaveProgram(f) == CASE f = "preset" -> SavePreset(draft[f])
                    [] f = "p5"     -> << Put(OfDraft(draft[f])) >>
                    [] OTHER        -> << Insert(draft[f]) >>

Save(f) ==
  /\ conv[f] = "review" /\ (f = "copyNew" => Room) /\ Start("telegram", f, SaveProgram(f))
  /\ conv' = [conv EXCEPT ![f] = "off"]
  /\ UNCHANGED <<db, around, chat, listed, consent, scope, faults, typing, draft, shown, numbers, left>>

-----------------------------------------------------------------------------
(* Numbers outside a conversation: settings and setup.                     *)

\* sl_set and settings_text_input: the TP chosen before, or the stored one
\* through int(float(tp) * 100).
Truncated(p) == IF p \in {29, 57, 58} THEN p - 1 ELSE p
SetSl(v) == << Put([tp |-> IF pending # 0 THEN pending ELSE Truncated(db.tp), sl |-> v]) >>

InRange == [capital |-> 1 .. 95, tp |-> 1 .. 100, sl |-> 1 .. 50,
            riskCapital |-> 1 .. 80, riskTp |-> 1 .. 99, riskSl |-> 1 .. 99]

AskNumber(k) ==
  /\ CanTap("settings") /\ k \in {"capital", "tp", "sl", "riskCapital"}
  /\ awaiting' = k /\ prompted' = FALSE /\ left' = FALSE
  /\ UNCHANGED <<db, around, session, run, listed, consent, scope, faults, convs, numbers>>

TapTp(v) ==
  /\ CanTap("settings") /\ v \in InRange["tp"] /\ pending' = v
  /\ UNCHANGED <<vars, convs, risk, left>>
TapSave(op, todo) ==
  /\ "settings" \in scope /\ Free("telegram")
  /\ run' = [run EXCEPT !["telegram"] = [op |-> op, todo |-> todo]]
  /\ UNCHANGED <<db, around, chat, listed, consent, scope, faults, wizard>>
TapSl(v)      == v \in InRange["sl"] /\ TapSave("tapSl", SetSl(v))
TapCapital(v) == v \in InRange["capital"] /\ TapSave("tapCapital", << Put([capital |-> v]) >>)

\* A number typed: a step of the custom risk flow, or a save.
AnswerStep(v) ==
  /\ Free("telegram") /\ Taker = "router" /\ awaiting \in DOMAIN InRange /\ v \in InRange[awaiting]
  /\ \/ awaiting = "tp" /\ pending' = v /\ awaiting' = "none" /\ UNCHANGED risk
     \/ awaiting = "riskCapital" /\ risk' = [risk EXCEPT !.capital = v] /\ awaiting' = "riskTp"
        /\ UNCHANGED pending
     \/ awaiting = "riskTp" /\ risk' = [risk EXCEPT !.tp = v] /\ awaiting' = "riskSl"
        /\ UNCHANGED pending
  /\ UNCHANGED <<db, around, session, prompted, run, listed, consent, scope, faults, convs, left>>
AnswerSave(v) ==
  /\ Free("telegram") /\ Taker = "router" /\ awaiting \in DOMAIN InRange /\ v \in InRange[awaiting]
  /\ awaiting \in {"capital", "sl", "riskSl"} /\ (awaiting = "riskSl" => risk.tp > v)
  /\ run' = [run EXCEPT !["telegram"] =
       [op |-> awaiting,
        todo |-> CASE awaiting = "capital" -> << Put([capital |-> v]) >>
                   [] awaiting = "sl"      -> SetSl(v)
                   [] OTHER                -> << Put(Values(risk.capital, risk.tp, v)) >>]]
  /\ UNCHANGED <<db, around, chat, listed, consent, scope, faults, wizard>>

\* The web writes the values: /autotrade/customize and /autotrade/risk-profile.
WebValues ==
  /\ \E c, t, s \in Percents : c <= 80 /\ s <= 100 /\
       \/ Start("web", "webValues", << Put([capital |-> c]) >>)
       \/ Start("web", "webValues", << Put([tp |-> t]) >>)
       \/ t > s /\ Start("web", "webValues", << Put(Values(c, t, s)) >>)
  /\ UNCHANGED <<db, around, chat, listed, consent, scope, faults, wizard>>

-----------------------------------------------------------------------------
(* Copy tasks: the edit screen, the dashboard, the MVP surface, the web.   *)

Patch(i, r) == [kind |-> "patch", id |-> i, row |-> r]
Remove(i)   == [kind |-> "remove", id |-> i]
Toggle(i)   == [kind |-> "toggle", id |-> i]
PauseAll    == [kind |-> "pauseAll"]
Flip(i, f)  == [kind |-> "flip", id |-> i, field |-> f]
Upsert(t)   == [kind |-> "upsert", terms |-> t]

Ids == {i \in DOMAIN db.tasks : db.tasks[i].status # "deleted"}
Other(f, v) == IF f = "reverse" THEN ~v ELSE IF v = "paused" THEN "active" ELSE "paused"

\* The UPDATE that follows the SELECT of a flip.
Flipped(s) == Patch(s.id, [x \in {s.field} |-> Other(x, db.tasks[s.id][x])])

\* The row t after statement s.
Changed(s, t) ==
  CASE s.kind = "patch"  -> Over(s.row, t)
    [] s.kind = "remove" -> [t EXCEPT !.status = "deleted"]
    [] OTHER             -> [t EXCEPT !.status = Other("status", t.status)]

\* A statement on a row that is gone changes nothing.
TaskWrite(a) ==
  /\ ~Free(a)
  /\ LET s == Head(run[a].todo) IN
     /\ \/ s.kind = "insert" /\ db' = [db EXCEPT !.tasks = Append(@, s.row)]
        \/ s.kind \in {"patch", "remove", "toggle"} /\ db' = [db EXCEPT !.tasks = [i \in DOMAIN @ |->
             IF i # s.id \/ i \notin Ids THEN @[i] ELSE Changed(s, @[i])]]
        \/ s.kind = "pauseAll" /\ db' = [db EXCEPT !.tasks = [i \in DOMAIN @ |->
             IF @[i].status = "active" THEN [@[i] EXCEPT !.status = "paused"] ELSE @[i]]]
  /\ Leave(a, Rest(a))
  /\ UNCHANGED <<around, chat, listed, scope, faults, wizard>>

\* A read that decides the UPDATE after it: the status or reverse_copy to
\* flip, and whether the MVP surface updates or inserts.
TaskRead(a) ==
  /\ ~Free(a)
  /\ LET s == Head(run[a].todo)
         next(stmt) == Leave(a, [run[a] EXCEPT !.todo = << stmt >>])
     IN \/ s.kind = "flip" /\ s.id \in Ids /\ next(Flipped(s))
        \/ s.kind = "flip" /\ s.id \notin Ids /\ Leave(a, Idle)
        \/ /\ s.kind = "upsert" /\ Ids # {}
           /\ next(Patch(Max(Ids), [status |-> "active", terms |-> s.terms]))
        \/ s.kind = "upsert" /\ Ids = {} /\ next(Insert(s.terms))
  /\ UNCHANGED <<db, around, chat, listed, scope, faults, wizard>>

DeskTap ==
  /\ \/ conv["copyEdit"] = "edit" /\ \E i \in DOMAIN db.tasks : \E s \in
          {Toggle(i), Flip(i, "reverse"), Remove(i)} : Start("telegram", "task", << s >>)
     \/ \E s \in {Flip(i, "status") : i \in Ids} \union {PauseAll}
                  \union (IF Room THEN {Upsert(SomeTerms)} ELSE {}) :
          Start("telegram", "task", << s >>)
  /\ conv' = [conv EXCEPT !["copyEdit"] =
                IF Head(run'["telegram"].todo).kind = "remove" THEN "off" ELSE @]
  /\ UNCHANGED <<db, around, chat, listed, consent, scope, faults, typing, draft, shown, numbers, left>>
EnterEditTask ==
  /\ CanTap("task") /\ Ids # {} /\ Goto("copyEdit", "edit", Absent) /\ UNCHANGED typing /\ Still
EditCustom ==
  /\ Free("telegram") /\ conv["copyEdit"] = "edit" /\ Goto("copyEdit", "custom", Absent)
  /\ UNCHANGED typing /\ Still
EditBack ==
  /\ Free("telegram") /\ conv["copyEdit"] = "custom" /\ Goto("copyEdit", "edit", Absent)
  /\ UNCHANGED typing /\ Still
\* custom_input_handler: the value goes to the task at once.
EditValue ==
  /\ conv["copyEdit"] = "custom" /\ Taker = "copyEdit"
  /\ \E i \in DOMAIN db.tasks : Start("telegram", "task", << Patch(i, [terms |-> SomeTerms]) >>)
  /\ conv' = [conv EXCEPT !["copyEdit"] = "edit"]
  /\ UNCHANGED <<db, around, chat, listed, consent, scope, faults, typing, draft, shown, numbers, left>>
WebTask ==
  /\ \/ Room /\ Start("web", "webTask", << Insert(SomeTerms) >>)
     \/ \E i \in Ids : \E s \in {Patch(i, [status |-> "active"]), Patch(i, [status |-> "paused"]),
          Remove(i)} : Start("web", "webTask", << s >>)
  /\ UNCHANGED <<db, around, chat, listed, consent, scope, faults, wizard>>

-----------------------------------------------------------------------------
(* The whole.                                                              *)

\* The UPDATE of a save: done, the draft or the question is popped; failed,
\* the conversation or the question still stands.
Numbers == {"capital", "sl", "riskSl"}
Done(a) == a = "telegram" /\ run[a].op # "none" /\ run'[a].op = "none"
Wrote(a) ==
  /\ Write(a)
  /\ IF Done(a) /\ run[a].op = "p5"
     THEN draft' = [draft EXCEPT !["p5"] = Absent] /\ typing' = [typing EXCEPT !["p5"] = "none"]
     ELSE UNCHANGED <<draft, typing>>
  /\ pending' = IF Done(a) /\ run[a].op \in {"sl", "tapSl"} THEN 0 ELSE pending
  /\ awaiting' = IF Done(a) /\ run[a].op \in Numbers THEN "none" ELSE awaiting
  /\ UNCHANGED <<session, prompted, conv, shown, risk, left>>
WroteNot(a) ==
  /\ WriteFails(a)
  /\ conv' = IF a = "telegram" /\ run[a].op \in Flows
             THEN [conv EXCEPT ![run[a].op] = "review"] ELSE conv
  /\ UNCHANGED <<typing, draft, shown, numbers, left>>

Asks == awaiting' # awaiting /\ awaiting' \in {"mode", "step1", "other"}
Composed == OtherStep /\ left' = (left /\ ~Asks) /\ UNCHANGED <<convs, numbers>>

Next ==
  \/ Composed \/ Routed
  \/ \E a \in Actors : Wrote(a) \/ WroteNot(a) \/ TaskWrite(a) \/ TaskRead(a)
  \/ EnterPreset \/ EnterEdit \/ EnterP5 \/ EnterCopy \/ EnterEditTask
  \/ \E f \in Flows : Pick(f) \/ AskCustom(f) \/ Back(f) \/ Cancel(f) \/ TypeValue(f)
                      \/ TypeElse(f) \/ LabelTap(f) \/ Save(f)
  \/ \E k \in DOMAIN InRange : AskNumber(k)
  \/ \E v \in Percents : TapTp(v) \/ TapSl(v) \/ TapCapital(v) \/ AnswerStep(v) \/ AnswerSave(v)
  \/ WebValues \/ DeskTap \/ EditCustom \/ EditBack \/ EditValue \/ WebTask

Spec == WizardsInit /\ [][Next]_all
\* The scheduler runs auto_fallback every minute.
FairSpec == Spec /\ WF_all(AutoFallback /\ UNCHANGED wizard)

-----------------------------------------------------------------------------
(* Properties.                                                             *)

\* What a wizard saves is what its last review showed: the values of the
\* preset wizards, the terms of a copy task.
SavedAsShown ==
  [][\A f \in {"preset", "p5", "copyNew"} :
       (run["telegram"].op = f /\ run'["telegram"] # run["telegram"]) =>
         /\ Values(db'.capital, db'.tp, db'.sl) # OfDb =>
              Values(db'.capital, db'.tp, db'.sl) = OfDraft(shown[f])
         /\ Len(db'.tasks) > Len(db.tasks) => db'.tasks[Len(db'.tasks)].terms = shown[f]]_all
=============================================================================
