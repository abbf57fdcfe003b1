--------------------------- MODULE Console_proofs ---------------------------
(***************************************************************************)
(* Proofs about Wizards, which composes Activation: that live mode is      *)
(* confirmed, and that a wizard saves what its last review showed.         *)
(*                                                                         *)
(* The argument is about programs.  What is left of a handler in flight    *)
(* either never writes the live mode, or is the end of a confirmed one:    *)
(* the checklist still to be read after a yes, or the single UPDATE after  *)
(* a checklist that passed.  And a save in flight holds nothing but what   *)
(* the review of its wizard showed, which nobody changes until it is over. *)
(***************************************************************************)
EXTENDS Wizards, TLAPS

-----------------------------------------------------------------------------
(* Programs.                                                               *)

Lives(s)  == s.kind = "put" /\ "mode" \in DOMAIN s.row /\ s.row.mode = "live"
Spares(s) == s.kind = "put" => "tasks" \notin DOMAIN s.row
Calm(s)   == Spares(s) /\ ~Lives(s)
Finite(t) == \E S : t \in Seq(S)

\* A handler that does not write the live mode.
Harmless(t) == Finite(t) /\ t # << >> /\ \A i \in DOMAIN t : Calm(t[i])

\* What is left of a handler may write the live mode only with a yes, and then
\* with the checklist.
Cleared(t, c) ==
  \/ \A i \in DOMAIN t : ~Lives(t[i])
  \/ c = "given" /\ Len(t) = 2 /\ t[1] = Need("ready", TRUE)
  \/ c = "checked" /\ Len(t) = 1

\* A handler in flight, and the yes it was given.
Handler(h, c) ==
  /\ DOMAIN h = {"op", "todo"}
  /\ Finite(h.todo)
  /\ h.op # "none" => h.todo # << >>
  /\ \A i \in DOMAIN h.todo : Spares(h.todo[i])
  /\ Cleared(h.todo, c)

LEMMA Program1 ==
  ASSUME NEW s, Calm(s)
  PROVE  Harmless(<< s >>)
<1>1. << s >> \in Seq({s})
  OBVIOUS
<1>2. Finite(<< s >>)
  BY <1>1, Zenon DEF Finite
<1>3. << s >> # << >> /\ \A i \in DOMAIN << s >> : Calm(<< s >>[i])
  OBVIOUS
<1> QED BY <1>2, <1>3 DEF Harmless

LEMMA Program2 ==
  ASSUME NEW s, NEW t, Calm(s), Calm(t)
  PROVE  Harmless(<< s, t >>)
<1>1. << s, t >> \in Seq({s, t})
  OBVIOUS
<1>2. Finite(<< s, t >>)
  BY <1>1, Zenon DEF Finite
<1>3. << s, t >> # << >> /\ \A i \in DOMAIN << s, t >> : Calm(<< s, t >>[i])
  OBVIOUS
<1> QED BY <1>2, <1>3 DEF Harmless

LEMMA Program3 ==
  ASSUME NEW s, NEW t, NEW u, Calm(s), Calm(t), Calm(u)
  PROVE  Harmless(<< s, t, u >>)
<1>1. << s, t, u >> \in Seq({s, t, u})
  OBVIOUS
<1>2. Finite(<< s, t, u >>)
  BY <1>1, Zenon DEF Finite
<1>3. << s, t, u >> # << >> /\ \A i \in DOMAIN << s, t, u >> : Calm(<< s, t, u >>[i])
  OBVIOUS
<1> QED BY <1>2, <1>3 DEF Harmless

LEMMA Program5 ==
  ASSUME NEW s, NEW t, NEW u, NEW v, NEW w, Calm(s), Calm(t), Calm(u), Calm(v), Calm(w)
  PROVE  Harmless(<< s, t, u, v, w >>)
<1>1. << s, t, u, v, w >> \in Seq({s, t, u, v, w})
  OBVIOUS
<1>2. Finite(<< s, t, u, v, w >>)
  BY <1>1, Zenon DEF Finite
<1>3. << s, t, u, v, w >> # << >> /\ \A i \in DOMAIN << s, t, u, v, w >> : Calm(<< s, t, u, v, w >>[i])
  OBVIOUS
<1> QED BY <1>2, <1>3 DEF Harmless

\* Reads, questions and the statements on copy tasks are calm.
LEMMA CalmReads ==
  /\ \A f, v : Calm(Need(f, v))
  /\ \A k : Calm(Ask(k))
  /\ \A x : Calm(Insert(x)) /\ Calm(Upsert(x)) /\ Calm(Remove(x)) /\ Calm(Toggle(x))
  /\ \A x, y : Calm(Patch(x, y)) /\ Calm(Flip(x, y))
  /\ Calm(PauseAll)
BY DEF Calm, Spares, Lives, Need, Ask, Insert, Upsert, Remove, Toggle, Patch, Flip, PauseAll

\* So is an UPDATE that leaves the tasks and the mode alone, or sets paper.
LEMMA CalmPut ==
  ASSUME NEW r, "tasks" \notin DOMAIN r, "mode" \notin DOMAIN r \/ r.mode = "paper"
  PROVE  Calm(Put(r))
BY DEF Calm, Spares, Lives, Put

\* What Over does.
LEMMA OverIs ==
  ASSUME NEW r, NEW s
  PROVE  /\ DOMAIN Over(r, s) = DOMAIN r \union DOMAIN s
         /\ \A f \in DOMAIN r : Over(r, s)[f] = r[f]
         /\ \A f \in DOMAIN s \ DOMAIN r : Over(r, s)[f] = s[f]
BY DEF Over

LEMMA CalmPreset ==
  ASSUME NEW c, NEW t, NEW s
  PROVE  Calm(Put(Over([preset |-> TRUE], Values(c, t, s)))) /\ Calm(Put(Values(c, t, s)))
<1> DEFINE r == Over([preset |-> TRUE], Values(c, t, s))
<1>1. DOMAIN r = {"preset", "capital", "tp", "sl"}
  <2>1. DOMAIN [preset |-> TRUE] = {"preset"} /\ DOMAIN Values(c, t, s) = {"capital", "tp", "sl"}
    BY DEF Values
  <2> QED BY <2>1, OverIs
<1>2. "tasks" \notin DOMAIN r /\ "mode" \notin DOMAIN r
  BY <1>1
<1>3. "tasks" \notin DOMAIN Values(c, t, s) /\ "mode" \notin DOMAIN Values(c, t, s)
  BY DEF Values
<1> HIDE DEF r
<1>4. Calm(Put(r))
  BY <1>2, CalmPut
<1>5. Calm(Put(Values(c, t, s)))
  BY <1>3, CalmPut
<1> QED BY <1>4, <1>5 DEF r

LEMMA CalmSwitches ==
  /\ \A b : Calm(Put([auto |-> b])) /\ Calm(Put([paused |-> b])) /\ Calm(Put([locked |-> b]))
            /\ Calm(Put([preset |-> b])) /\ Calm(Put([capital |-> b])) /\ Calm(Put([tp |-> b]))
  /\ \A x, y : Calm(Put([tp |-> x, sl |-> y]))
  /\ Calm(Put([mode |-> "paper"]))
BY DEF Calm, Spares, Lives, Put

\* The handlers that a tap, a request, a typed number or a wizard starts.
LEMMA TapsAreHarmless == \A op \in DOMAIN Taps : Harmless(Taps[op])
<1> USE CalmReads, CalmSwitches
<1>1. Harmless(PresetActivate) /\ Harmless(PresetStop) /\ Harmless(PresetResume)
  BY Program5, Program3, Program2, CalmPreset DEF PresetActivate, PresetStop, PresetResume, ByChat
<1>2. Harmless(ActivateP5) /\ Harmless(MvpStart) /\ Harmless(MvpResume)
  BY Program2, Program1, CalmPreset DEF ActivateP5, MvpStart, MvpResume, Balanced
<1>3. Harmless(ToggleOn) /\ Harmless(ToggleOff) /\ Harmless(Pause) /\ Harmless(StopAuto)
  BY Program2, Program1 DEF ToggleOn, ToggleOff, Pause, StopAuto
<1>4. Harmless(Lock) /\ Harmless(LockBot) /\ Harmless(SetPaper) /\ Harmless(AskMode)
  BY Program3, Program2, Program1 DEF Lock, LockBot, SetPaper, AskMode
<1> QED BY <1>1, <1>2, <1>3, <1>4 DEF Taps

LEMMA RequestsAreHarmless == \A op \in DOMAIN Requests : Harmless(Requests[op])
<1> USE CalmReads, CalmSwitches
<1>1. Harmless(WebToggleOn) /\ Harmless(WebToggleOff) /\ Harmless(WebPreset)
  BY Program3, Program1, CalmPreset DEF WebToggleOn, WebToggleOff, WebPreset, ByWeb
<1>2. Harmless(WebKill) /\ Harmless(WebResume) /\ Harmless(WebDisable) /\ Harmless(Disable)
  BY Program2, Program1 DEF WebKill, WebResume, WebDisable, Disable
<1> QED BY <1>1, <1>2 DEF Requests

\* What stays of a program behind its first statement.
LEMMA TailIs ==
  ASSUME NEW t, Finite(t), t # << >>
  PROVE  /\ Finite(Tail(t)) /\ Head(t) = t[1] /\ 1 \in DOMAIN t
         /\ Len(Tail(t)) = Len(t) - 1 /\ Len(t) \in Nat
         /\ Tail(t) = << >> <=> Len(t) = 1
         /\ \A i \in DOMAIN Tail(t) : i + 1 \in DOMAIN t /\ Tail(t)[i] = t[i + 1]
<1>1. PICK S : t \in Seq(S)
  BY DEF Finite
<1>2. Tail(t) \in Seq(S)
  BY <1>1
<1>3. Finite(Tail(t))
  BY <1>2, Zenon DEF Finite
<1>4. /\ Head(t) = t[1] /\ 1 \in DOMAIN t
      /\ Len(Tail(t)) = Len(t) - 1 /\ Len(t) \in Nat
  BY <1>1, <1>2
<1>6. Tail(t) = << >> <=> Len(t) = 1
  BY <1>1, <1>2, <1>4
<1>5. \A i \in DOMAIN Tail(t) : i + 1 \in DOMAIN t /\ Tail(t)[i] = t[i + 1]
  BY <1>1, <1>2
<1> QED BY <1>3, <1>4, <1>5, <1>6

-----------------------------------------------------------------------------
(* The inductive invariant.                                                *)

Saved == {"preset", "p5", "copyNew"}  \* the flows whose review is saved

\* A question about live mode stands only while it is remembered as asked.
Asked == awaiting \in {"mode", "step1", "cap", "step2"} => prompted

RowOK ==
  /\ {"mode", "capital", "tp", "sl", "tasks"} \subseteq DOMAIN db
  /\ Finite(db.tasks)

\* A statement of a save, of the draft d.
Shows(s, d) ==
  /\ s.kind \in {"need", "put", "insert"}
  /\ s.kind = "insert" => s.row.terms = d
  /\ s.kind = "put" =>
       \/ Fields \intersect DOMAIN s.row = {}
       \/ Fields \subseteq DOMAIN s.row /\ OfDraft(s.row) = OfDraft(d)

\* A save in flight writes what its review showed.
Saving ==
  \A f \in Saved : run["telegram"].op = f =>
    /\ conv[f] # "review" /\ shown[f] = draft[f]
    /\ \A i \in DOMAIN run["telegram"].todo : Shows(run["telegram"].todo[i], shown[f])

Reviewed == \A f \in Saved : conv[f] = "review" => shown[f] = draft[f]

Domains ==
  /\ DOMAIN run = Actors /\ DOMAIN consent = Actors
  /\ DOMAIN conv = Flows /\ DOMAIN draft = Flows /\ DOMAIN shown = Flows

Handlers == \A a \in Actors : Handler(run[a], consent[a])

ConsoleInv == Asked /\ RowOK /\ Saving /\ Reviewed /\ Domains /\ Handlers

LEMMA InitConsole == WizardsInit => ConsoleInv
<1> SUFFICES ASSUME WizardsInit PROVE ConsoleInv
  OBVIOUS
<1> USE DEF WizardsInit, Init
<1>1. Asked /\ Domains /\ Reviewed
  BY DEF Asked, Domains, Reviewed, Saved, Flows
<1>2. RowOK
  <2> DEFINE rest == [auto |-> FALSE, paused |-> FALSE, locked |-> FALSE, preset |-> TRUE,
                      mode |-> "paper", cap |-> 0, tasks |-> << >>]
  <2>1. DOMAIN Balanced = {"capital", "tp", "sl"}
    BY DEF Balanced, Values
  <2>2. DOMAIN rest = {"auto", "paused", "locked", "preset", "mode", "cap", "tasks"} /\ rest.tasks = << >>
    OBVIOUS
  <2>6. db = Over(Balanced, rest)
    BY DEF NewUser
  <2> HIDE DEF rest
  <2>7. /\ DOMAIN Over(Balanced, rest) = DOMAIN Balanced \union DOMAIN rest
        /\ \A f \in DOMAIN rest \ DOMAIN Balanced : Over(Balanced, rest)[f] = rest[f]
    BY OverIs
  <2>3. DOMAIN db = DOMAIN Balanced \union DOMAIN rest /\ db.tasks = << >>
    BY <2>1, <2>2, <2>6, <2>7
  <2>4. << >> \in Seq({})
    OBVIOUS
  <2>5. Finite(db.tasks)
    BY <2>3, <2>4, Zenon DEF Finite
  <2> QED BY <2>1, <2>2, <2>3, <2>5 DEF RowOK
<1>3. Saving /\ Handlers
  <2>1. << >> \in Seq({})
    OBVIOUS
  <2>2. Finite(<< >>)
    BY <2>1, Zenon DEF Finite
  <2>3. \A a \in Actors : run[a] = Idle
    OBVIOUS
  <2>4. DOMAIN Idle = {"op", "todo"} /\ Idle.op = "none" /\ Idle.todo = << >>
    BY DEF Idle
  <2> QED BY <2>2, <2>3, <2>4 DEF Saving, Saved, Handlers, Handler, Cleared, Actors
<1> QED BY <1>1, <1>2, <1>3 DEF ConsoleInv

-----------------------------------------------------------------------------
(* What the kinds of steps keep.                                           *)

\* A step of the chat that touches no handler, no row and no wizard.
LEMMA ChatKeeps ==
  ASSUME ConsoleInv, Asked', UNCHANGED <<db, run, consent, conv, draft, shown>>
  PROVE  ConsoleInv'
BY DEF ConsoleInv, RowOK, Saving, Reviewed, Domains, Handlers

\* A write of the row by nobody's handler.
LEMMA RowKeeps ==
  ASSUME ConsoleInv, RowOK', UNCHANGED <<awaiting, prompted, run, consent, conv, draft, shown>>
  PROVE  ConsoleInv'
BY DEF ConsoleInv, Asked, Saving, Reviewed, Domains, Handlers

\* A step of a wizard, while no handler of the chat runs.
LEMMA WizardKeeps ==
  ASSUME ConsoleInv, Free("telegram"), UNCHANGED <<db, awaiting, prompted, run, consent>>,
         Reviewed', Domains'
  PROVE  ConsoleInv'
<1>1. Saving'
  BY DEF Saving, Free, Saved
<1> QED BY <1>1 DEF ConsoleInv, Asked, RowOK, Handlers

LEMMA GotoReviews ==
  ASSUME ConsoleInv, NEW f \in Flows, NEW s, NEW d, Goto(f, s, d), UNCHANGED <<run, consent>>
  PROVE  Reviewed' /\ Domains'
<1>1. Domains'
  BY DEF ConsoleInv, Domains, Goto
<1>2. ASSUME NEW g \in Saved, conv'[g] = "review" PROVE shown'[g] = draft'[g]
  <2>0. g \in Flows
    BY DEF Saved, Flows
  <2>1. CASE g = f
    BY <1>2, <2>1 DEF ConsoleInv, Domains, Goto
  <2>2. CASE g # f
    BY <1>2, <2>0, <2>2 DEF ConsoleInv, Domains, Reviewed, Goto
  <2> QED BY <2>1, <2>2
<1> QED BY <1>1, <1>2 DEF Reviewed

LEMMA GotoKeeps ==
  ASSUME ConsoleInv, Free("telegram"), UNCHANGED <<db, awaiting, prompted, run, consent>>,
         NEW f \in Flows, NEW s, NEW d, Goto(f, s, d)
  PROVE  ConsoleInv'
BY GotoReviews, WizardKeeps

\* A handler starts; the wizards stand still, but for the one that a task
\* screen belongs to.
LEMMA StartKeeps ==
  ASSUME ConsoleInv, NEW a \in Actors, NEW op, NEW t,
         Free(a), run' = [run EXCEPT ![a] = [op |-> op, todo |-> t]],
         op \notin Saved \/ a = "web",
         Handler([op |-> op, todo |-> t], consent'[a]),
         DOMAIN consent' = Actors, \A b \in Actors \ {a} : consent'[b] = consent[b],
         Asked', UNCHANGED <<db, draft, shown>>,
         DOMAIN conv' = Flows, \A f \in Saved : conv'[f] = conv[f]
  PROVE  ConsoleInv'
<1>1. RowOK' /\ Reviewed'
  BY DEF ConsoleInv, RowOK, Reviewed
<1>2. Domains'
  BY DEF ConsoleInv, Domains
<1>3. Handlers'
  BY DEF ConsoleInv, Domains, Handlers
<1>4. Saving'
  <2>1. CASE a = "telegram"
    BY <2>1 DEF ConsoleInv, Domains, Saving
  <2>2. CASE a = "web"
    BY <2>2 DEF ConsoleInv, Domains, Saving, Actors
  <2> QED BY <2>1, <2>2 DEF Actors
<1> QED BY <1>1, <1>2, <1>3, <1>4 DEF ConsoleInv

LEMMA HarmlessHandler ==
  ASSUME NEW op, NEW t, Harmless(t), NEW c
  PROVE  Handler([op |-> op, todo |-> t], c)
BY DEF Harmless, Handler, Cleared, Calm

-----------------------------------------------------------------------------
(* The statements of a handler in flight.                                  *)

\* The rest of a handler.
LEMMA RestIs ==
  ASSUME ConsoleInv, NEW a \in Actors, ~Free(a)
  PROVE  LET h == Rest(a)
             t == run[a].todo
         IN /\ DOMAIN h = {"op", "todo"} /\ Finite(h.todo)
            /\ h.op \in {"none", run[a].op} /\ (h.op # "none" => h.todo # << >>)
            /\ \A i \in DOMAIN h.todo : i + 1 \in DOMAIN t /\ h.todo[i] = t[i + 1]
            /\ Len(h.todo) = Len(t) - 1 /\ Len(t) \in Nat
            /\ Head(t) = t[1] /\ 1 \in DOMAIN t
<1>1. /\ DOMAIN run[a] = {"op", "todo"} /\ Finite(run[a].todo) /\ run[a].todo # << >>
  BY DEF ConsoleInv, Handlers, Handler, Free
<1> DEFINE t == run[a].todo
<1>2. /\ Finite(Tail(t)) /\ Head(t) = t[1] /\ 1 \in DOMAIN t
      /\ Len(Tail(t)) = Len(t) - 1 /\ Len(t) \in Nat
      /\ \A i \in DOMAIN Tail(t) : i + 1 \in DOMAIN t /\ Tail(t)[i] = t[i + 1]
  BY <1>1, TailIs
<1>3. CASE Tail(t) = << >>
  <2>1. Rest(a) = Idle
    BY <1>3 DEF Rest
  <2>2. DOMAIN Idle = {"op", "todo"} /\ Idle.op = "none" /\ Idle.todo = Tail(t)
    BY <1>3 DEF Idle
  <2> QED BY <1>2, <2>1, <2>2
<1>4. CASE Tail(t) # << >>
  <2>1. Rest(a) = [run[a] EXCEPT !.todo = Tail(t)]
    BY <1>4 DEF Rest
  <2>2. DOMAIN Rest(a) = {"op", "todo"} /\ Rest(a).op = run[a].op /\ Rest(a).todo = Tail(t)
    BY <1>1, <2>1
  <2> QED BY <1>2, <1>4, <2>2
<1> QED BY <1>3, <1>4

\* A handler that goes on after a statement is still a handler, and what it
\* may write is what it might have written: with the checklist passed, once.
LEMMA RestIsHandler ==
  ASSUME ConsoleInv, NEW a \in Actors, ~Free(a), NEW c,
         Head(run[a].todo).kind = "need" /\ Head(run[a].todo).field = "ready" /\ consent[a] = "given"
           => c = "checked"
  PROVE  Handler(Rest(a), c)
<1> DEFINE h == Rest(a)
           t == run[a].todo
<1>1. /\ DOMAIN h = {"op", "todo"} /\ Finite(h.todo)
      /\ h.op \in {"none", run[a].op} /\ (h.op # "none" => h.todo # << >>)
      /\ \A i \in DOMAIN h.todo : i + 1 \in DOMAIN t /\ h.todo[i] = t[i + 1]
      /\ Len(h.todo) = Len(t) - 1 /\ Len(t) \in Nat
      /\ Head(t) = t[1] /\ 1 \in DOMAIN t
  BY RestIs
<1>2. /\ \A i \in DOMAIN t : Spares(t[i])
      /\ Cleared(t, consent[a])
  BY DEF ConsoleInv, Handlers, Handler
<1>3. \A i \in DOMAIN h.todo : Spares(h.todo[i])
  BY <1>1, <1>2
<1>4. Cleared(h.todo, c)
  <2>1. CASE \A i \in DOMAIN t : ~Lives(t[i])
    BY <1>1, <2>1 DEF Cleared
  <2>2. CASE consent[a] = "given" /\ Len(t) = 2 /\ t[1] = Need("ready", TRUE)
    <3>1. c = "checked"
      BY <1>1, <2>2 DEF Need
    <3> QED BY <1>1, <2>2, <3>1 DEF Cleared
  <2>3. CASE consent[a] = "checked" /\ Len(t) = 1
    <3>1. Len(h.todo) = 0 /\ Finite(h.todo)
      BY <1>1, <2>3
    <3>2. PICK S : h.todo \in Seq(S)
      BY <3>1 DEF Finite
    <3>3. DOMAIN h.todo = {}
      BY <3>1, <3>2
    <3> QED BY <3>3 DEF Cleared
  <2> QED BY <1>2, <2>1, <2>2, <2>3 DEF Cleared
<1> QED BY <1>1, <1>3, <1>4 DEF Handler

LEMMA IdleIsHandler == \A c : Handler(Idle, c)
<1>1. << >> \in Seq({})
  OBVIOUS
<1>2. Finite(<< >>)
  BY <1>1, Zenon DEF Finite
<1> QED BY <1>2 DEF Handler, Idle, Cleared

\* A handler's statement keeps the invariant when what is left of it does.
LEMMA StatementKeeps ==
  ASSUME ConsoleInv, NEW a \in Actors, ~Free(a), NEW h,
         run' = [run EXCEPT ![a] = h], h.op \in {"none", run[a].op}, Handler(h, consent'[a]),
         DOMAIN consent' = Actors, \A b \in Actors \ {a} : consent'[b] = consent[b],
         Asked', RowOK', Reviewed', shown' = shown,
         DOMAIN conv' = Flows, DOMAIN draft' = Flows,
         a = "web" => UNCHANGED <<conv, draft>>,
         \A f \in Saved : a = "telegram" /\ run[a].op = f /\ h.op = f =>
           /\ conv'[f] # "review" /\ shown[f] = draft'[f]
           /\ \A i \in DOMAIN h.todo : Shows(h.todo[i], shown[f])
  PROVE  ConsoleInv'
<1>1. Domains'
  BY DEF ConsoleInv, Domains
<1>2. Handlers'
  BY DEF ConsoleInv, Domains, Handlers
<1>3. Saving'
  <2>1. CASE a = "telegram"
    <3>1. run'["telegram"] = h
      BY <2>1 DEF ConsoleInv, Domains
    <3>2. ASSUME NEW f \in Saved, h.op = f PROVE run[a].op = f
      BY <3>2 DEF Saved
    <3> QED BY <2>1, <3>1, <3>2 DEF Saving
  <2>2. CASE a = "web"
    <3>1. run'["telegram"] = run["telegram"]
      BY <2>2 DEF ConsoleInv, Domains, Actors
    <3> QED BY <2>2, <3>1 DEF ConsoleInv, Saving
  <2> QED BY <2>1, <2>2 DEF Actors
<1> QED BY <1>1, <1>2, <1>3 DEF ConsoleInv

\* What is left of a save still shows its review.
LEMMA RestShows ==
  ASSUME ConsoleInv, NEW f \in Saved, run["telegram"].op = f
  PROVE  /\ conv[f] # "review" /\ shown[f] = draft[f]
         /\ \A i \in DOMAIN Rest("telegram").todo : Shows(Rest("telegram").todo[i], shown[f])
         /\ Shows(Head(run["telegram"].todo), shown[f])
<1>1. ~Free("telegram") /\ "telegram" \in Actors
  BY DEF Free, Saved, Actors
<1>2. \A i \in DOMAIN run["telegram"].todo : Shows(run["telegram"].todo[i], shown[f])
  BY DEF ConsoleInv, Saving
<1>3. conv[f] # "review" /\ shown[f] = draft[f]
  BY DEF ConsoleInv, Saving
<1>4. /\ \A i \in DOMAIN Rest("telegram").todo :
              i + 1 \in DOMAIN run["telegram"].todo
              /\ Rest("telegram").todo[i] = run["telegram"].todo[i + 1]
      /\ Head(run["telegram"].todo) = run["telegram"].todo[1]
      /\ 1 \in DOMAIN run["telegram"].todo
  BY <1>1, RestIs
<1> QED BY <1>2, <1>3, <1>4

LEMMA ReadKeeps ==
  ASSUME ConsoleInv, NEW a \in Actors, Read(a), UNCHANGED convs
  PROVE  ConsoleInv'
<1>1. ~Free(a) /\ Head(run[a].todo).kind = "need"
  BY DEF Read, Statement
<1>2. /\ Asked' /\ RowOK' /\ Reviewed' /\ shown' = shown
      /\ DOMAIN conv' = Flows /\ DOMAIN draft' = Flows /\ UNCHANGED <<conv, draft>>
  BY DEF ConsoleInv, Read, Asked, RowOK, Reviewed, Domains, convs, chat
<1>3. CASE Answer(Head(run[a].todo).field) # Head(run[a].todo).value
  <2>1. /\ run' = [run EXCEPT ![a] = Idle] /\ DOMAIN consent' = Actors
        /\ \A b \in Actors \ {a} : consent'[b] = consent[b]
    BY <1>3 DEF Read, Leave, ConsoleInv, Domains
  <2>2. Handler(Idle, consent'[a]) /\ Idle.op = "none"
    BY IdleIsHandler DEF Idle
  <2>3. \A f \in Saved : Idle.op # f
    BY <2>2 DEF Saved
  <2> QED BY <1>1, <1>2, <2>1, <2>2, <2>3, StatementKeeps
<1>4. CASE Answer(Head(run[a].todo).field) = Head(run[a].todo).value
  <2>1. /\ run' = [run EXCEPT ![a] = Rest(a)] /\ DOMAIN consent' = Actors
        /\ \A b \in Actors \ {a} : consent'[b] = consent[b]
        /\ Head(run[a].todo).field = "ready" /\ consent[a] = "given" => consent'[a] = "checked"
    BY <1>4 DEF Read, ConsoleInv, Domains
  <2>2. Handler(Rest(a), consent'[a])
    BY <1>1, <2>1, RestIsHandler
  <2>3. Rest(a).op \in {"none", run[a].op}
    BY <1>1, RestIs
  <2>4. \A f \in Saved : a = "telegram" /\ run[a].op = f /\ Rest(a).op = f =>
           /\ conv'[f] # "review" /\ shown[f] = draft'[f]
           /\ \A i \in DOMAIN Rest(a).todo : Shows(Rest(a).todo[i], shown[f])
    BY <1>2, RestShows
  <2> QED BY <1>1, <1>2, <2>1, <2>2, <2>3, <2>4, StatementKeeps
<1> QED BY <1>3, <1>4

\* A statement that Leave ends, and that reads no checklist.
LEMMA LeaveRest ==
  ASSUME ConsoleInv, NEW a \in Actors, ~Free(a), Leave(a, Rest(a)),
         Head(run[a].todo).kind # "need",
         Asked', RowOK', Reviewed', shown' = shown,
         DOMAIN conv' = Flows, DOMAIN draft' = Flows,
         a = "web" => UNCHANGED <<conv, draft>>,
         \A f \in Saved : a = "telegram" /\ run[a].op = f /\ Rest(a).op = f =>
           UNCHANGED <<conv, draft>>
  PROVE  ConsoleInv'
<1>1. /\ run' = [run EXCEPT ![a] = Rest(a)] /\ DOMAIN consent' = Actors
      /\ \A b \in Actors \ {a} : consent'[b] = consent[b]
  BY DEF Leave, ConsoleInv, Domains
<1>2. Handler(Rest(a), consent'[a])
  BY RestIsHandler
<1>3. Rest(a).op \in {"none", run[a].op}
  BY RestIs
<1>4. \A f \in Saved : a = "telegram" /\ run[a].op = f /\ Rest(a).op = f =>
         /\ conv'[f] # "review" /\ shown[f] = draft'[f]
         /\ \A i \in DOMAIN Rest(a).todo : Shows(Rest(a).todo[i], shown[f])
  BY RestShows
<1> QED BY <1>1, <1>2, <1>3, <1>4, StatementKeeps

LEMMA LeaveIdle ==
  ASSUME ConsoleInv, NEW a \in Actors, ~Free(a), Leave(a, Idle),
         Asked', RowOK', Reviewed', shown' = shown,
         DOMAIN conv' = Flows, DOMAIN draft' = Flows,
         a = "web" => UNCHANGED <<conv, draft>>
  PROVE  ConsoleInv'
<1>1. /\ run' = [run EXCEPT ![a] = Idle] /\ DOMAIN consent' = Actors
      /\ \A b \in Actors \ {a} : consent'[b] = consent[b]
  BY DEF Leave, ConsoleInv, Domains
<1>2. Handler(Idle, consent'[a]) /\ Idle.op = "none"
  BY IdleIsHandler DEF Idle
<1>3. \A f \in Saved : Idle.op # f
  BY <1>2 DEF Saved
<1> QED BY <1>1, <1>2, <1>3, StatementKeeps

LEMMA QuestionKeeps ==
  ASSUME ConsoleInv, NEW a \in Actors, Question(a), UNCHANGED convs
  PROVE  ConsoleInv'
<1>1. ~Free(a) /\ Head(run[a].todo).kind # "need" /\ Leave(a, Rest(a))
  BY DEF Question, Statement
<1>2. /\ Asked' /\ RowOK' /\ Reviewed' /\ shown' = shown
      /\ DOMAIN conv' = Flows /\ DOMAIN draft' = Flows /\ UNCHANGED <<conv, draft>>
  BY DEF ConsoleInv, Question, Asked, RowOK, Reviewed, Domains, convs
<1> QED BY <1>1, <1>2, LeaveRest

\* An UPDATE that leaves the tasks alone.
LEMMA RowOver ==
  ASSUME RowOK, NEW r, "tasks" \notin DOMAIN r, db' = Over(r, db)
  PROVE  RowOK' /\ db'.tasks = db.tasks
<1>1. /\ DOMAIN Over(r, db) = DOMAIN r \union DOMAIN db
      /\ \A f \in DOMAIN db \ DOMAIN r : Over(r, db)[f] = db[f]
  BY OverIs
<1> QED BY <1>1 DEF RowOK

\* What a handler's next statement writes spares the tasks, and the live mode
\* unless the checklist has passed.
LEMMA HeadIs ==
  ASSUME ConsoleInv, NEW a \in Actors, ~Free(a), Head(run[a].todo).kind = "put"
  PROVE  /\ "tasks" \notin DOMAIN Head(run[a].todo).row
         /\ Lives(Head(run[a].todo)) => consent[a] = "checked"
<1>1. Head(run[a].todo) = run[a].todo[1] /\ 1 \in DOMAIN run[a].todo
  BY RestIs
<1>2. Spares(run[a].todo[1]) /\ Cleared(run[a].todo, consent[a])
  BY <1>1 DEF ConsoleInv, Handlers, Handler
<1>3. "tasks" \notin DOMAIN Head(run[a].todo).row
  BY <1>1, <1>2 DEF Spares
<1>4. ASSUME Lives(Head(run[a].todo)) PROVE consent[a] = "checked"
  BY <1>1, <1>2, <1>4 DEF Cleared, Lives, Need
<1> QED BY <1>3, <1>4

LEMMA WroteKeeps ==
  ASSUME ConsoleInv, NEW a \in Actors, Wrote(a)
  PROVE  ConsoleInv'
<1>1. /\ ~Free(a) /\ Head(run[a].todo).kind = "put" /\ Leave(a, Rest(a))
      /\ db' = Over(Head(run[a].todo).row, db)
  BY DEF Wrote, Write, Statement
<1>2. RowOK'
  BY <1>1, HeadIs, RowOver DEF ConsoleInv
<1>3. Asked'
  BY DEF ConsoleInv, Wrote, Asked
<1>4. conv' = conv /\ shown' = shown
  BY DEF Wrote
<1>5. draft' = IF Done(a) /\ run[a].op = "p5" THEN [draft EXCEPT !["p5"] = Absent] ELSE draft
  BY DEF Wrote
<1>6. DOMAIN conv' = Flows /\ DOMAIN draft' = Flows
  BY <1>4, <1>5 DEF ConsoleInv, Domains
<1>7. Reviewed'
  <2>1. CASE Done(a) /\ run[a].op = "p5"
    <3>1. run["telegram"].op = "p5" /\ "p5" \in Saved
      BY <2>1 DEF Done, Saved
    <3>2. conv["p5"] # "review"
      BY <3>1, RestShows
    <3> QED BY <1>4, <1>5, <2>1, <3>2 DEF ConsoleInv, Domains, Reviewed, Saved, Flows
  <2>2. CASE ~(Done(a) /\ run[a].op = "p5")
    BY <1>4, <1>5, <2>2 DEF ConsoleInv, Reviewed
  <2> QED BY <2>1, <2>2
<1>8. a = "web" => UNCHANGED <<conv, draft>>
  BY <1>4, <1>5 DEF Done
<1>9. \A f \in Saved : a = "telegram" /\ run[a].op = f /\ Rest(a).op = f =>
         UNCHANGED <<conv, draft>>
  <2>1. run'[a] = Rest(a)
    BY <1>1 DEF Leave, ConsoleInv, Domains
  <2> QED BY <1>4, <1>5, <2>1 DEF Done, Saved
<1> QED BY <1>1, <1>2, <1>3, <1>4, <1>6, <1>7, <1>8, <1>9, LeaveRest

LEMMA WroteNotKeeps ==
  ASSUME ConsoleInv, NEW a \in Actors, WroteNot(a)
  PROVE  ConsoleInv'
<1>1. /\ ~Free(a) /\ Head(run[a].todo).kind # "need"
      /\ Leave(a, IF run[a].op \in {"mvpStart", "mvpResume"} THEN Rest(a) ELSE Idle)
  BY DEF WroteNot, WriteFails, Statement
<1>2. Asked' /\ RowOK' /\ shown' = shown /\ draft' = draft
  BY DEF ConsoleInv, WroteNot, WriteFails, Asked, RowOK, chat
<1>3. conv' = IF a = "telegram" /\ run[a].op \in Flows
              THEN [conv EXCEPT ![run[a].op] = "review"] ELSE conv
  BY DEF WroteNot
<1>4. DOMAIN conv' = Flows /\ DOMAIN draft' = Flows
  BY <1>2, <1>3 DEF ConsoleInv, Domains
<1>5. Reviewed'
  <2>1. ASSUME NEW f \in Saved, conv'[f] = "review" PROVE shown[f] = draft[f]
    <3>1. CASE a = "telegram" /\ run[a].op = f
      BY <3>1, RestShows
    <3>2. CASE ~(a = "telegram" /\ run[a].op = f)
      <4>1. conv[f] = "review"
        BY <1>3, <2>1, <3>2 DEF ConsoleInv, Domains, Saved, Flows
      <4> QED BY <4>1 DEF ConsoleInv, Reviewed
    <3> QED BY <3>1, <3>2
  <2> QED BY <1>2, <2>1 DEF Reviewed
<1>6. a = "web" => UNCHANGED <<conv, draft>>
  BY <1>2, <1>3
<1>7. CASE run[a].op \in {"mvpStart", "mvpResume"}
  <2>1. Leave(a, Rest(a))
    BY <1>1, <1>7
  <2>2. \A f \in Saved : run[a].op # f
    BY <1>7 DEF Saved
  <2> QED BY <1>1, <1>2, <1>4, <1>5, <1>6, <2>1, <2>2, LeaveRest
<1>8. CASE run[a].op \notin {"mvpStart", "mvpResume"}
  <2>1. Leave(a, Idle)
    BY <1>1, <1>8
  <2> QED BY <1>1, <1>2, <1>4, <1>5, <1>6, <2>1, LeaveIdle
<1> QED BY <1>7, <1>8

\* A read of the copy tasks is followed by one UPDATE.
LEMMA TaskReadKeeps ==
  ASSUME ConsoleInv, NEW a \in Actors, TaskRead(a)
  PROVE  ConsoleInv'
<1>1. ~Free(a) /\ Head(run[a].todo).kind \in {"flip", "upsert"}
  BY DEF TaskRead
<1>2. /\ Asked' /\ RowOK' /\ Reviewed' /\ shown' = shown
      /\ DOMAIN conv' = Flows /\ DOMAIN draft' = Flows /\ UNCHANGED <<conv, draft>>
  BY DEF ConsoleInv, TaskRead, Asked, RowOK, Reviewed, Domains, wizard, convs, chat
<1>3. CASE Leave(a, Idle)
  BY <1>1, <1>2, <1>3, LeaveIdle
<1>4. ASSUME NEW stmt, Calm(stmt), Leave(a, [run[a] EXCEPT !.todo = << stmt >>])
      PROVE  ConsoleInv'
  <2> DEFINE h == [run[a] EXCEPT !.todo = << stmt >>]
  <2>1. DOMAIN run[a] = {"op", "todo"}
    BY DEF ConsoleInv, Handlers, Handler
  <2>2. DOMAIN h = {"op", "todo"} /\ h.op = run[a].op /\ h.todo = << stmt >>
    BY <2>1
  <2>3. Harmless(<< stmt >>)
    BY <1>4, Program1
  <2>4. Handler(h, consent'[a])
    BY <2>2, <2>3 DEF Harmless, Handler, Cleared, Calm
  <2>5. /\ run' = [run EXCEPT ![a] = h] /\ DOMAIN consent' = Actors
        /\ \A b \in Actors \ {a} : consent'[b] = consent[b]
    BY <1>4 DEF Leave, ConsoleInv, Domains
  <2>6. \A f \in Saved : ~(a = "telegram" /\ run[a].op = f)
    BY <1>1, RestShows DEF Shows
  <2> HIDE DEF h
  <2> QED BY <1>1, <1>2, <2>2, <2>4, <2>5, <2>6, StatementKeeps
<1>5. \/ Leave(a, Idle)
      \/ \E stmt : Calm(stmt) /\ Leave(a, [run[a] EXCEPT !.todo = << stmt >>])
  BY CalmReads, Zenon DEF TaskRead, Flipped
<1> QED BY <1>3, <1>4, <1>5

\* The copy tasks stay a sequence.
LEMMA AppendIs ==
  ASSUME NEW t, Finite(t), NEW e
  PROVE  Finite(Append(t, e)) /\ Len(Append(t, e)) = Len(t) + 1
         /\ Append(t, e)[Len(t) + 1] = e
<1>1. PICK S : t \in Seq(S)
  BY DEF Finite
<1>2. Append(t, e) \in Seq(S \union {e})
  BY <1>1
<1>3. Finite(Append(t, e))
  BY <1>2, Zenon DEF Finite
<1> QED BY <1>1, <1>3

LEMMA SameLength ==
  ASSUME NEW t, Finite(t), NEW h, h = [i \in DOMAIN t |-> h[i]]
  PROVE  Finite(h) /\ Len(h) = Len(t)
<1>1. PICK S : t \in Seq(S)
  BY DEF Finite
<1> DEFINE R == {h[i] : i \in DOMAIN h}
<1>2. Len(t) \in Nat /\ h \in [1 .. Len(t) -> R]
  BY <1>1
<1>3. h \in Seq(R) /\ Len(h) = Len(t)
  BY <1>2
<1>4. Finite(h)
  BY <1>3, Zenon DEF Finite
<1> QED BY <1>3, <1>4

\* A statement on the copy tasks appends its row or keeps their number.
LEMMA TasksAre ==
  ASSUME RowOK, NEW a \in Actors, TaskWrite(a)
  PROVE  /\ RowOK'
         /\ \A f \in {"mode", "capital", "tp", "sl"} : db'[f] = db[f]
         /\ \/ /\ Head(run[a].todo).kind = "insert"
               /\ Len(db'.tasks) = Len(db.tasks) + 1
               /\ db'.tasks[Len(db'.tasks)] = Head(run[a].todo).row
            \/ Len(db'.tasks) = Len(db.tasks)
<1> DEFINE s == Head(run[a].todo)
<1>0. {"mode", "capital", "tp", "sl", "tasks"} \subseteq DOMAIN db /\ Finite(db.tasks)
  BY DEF RowOK
<1>1. ASSUME NEW h, db' = [db EXCEPT !.tasks = h]
      PROVE  /\ DOMAIN db' = DOMAIN db /\ db'.tasks = h
             /\ \A f \in {"mode", "capital", "tp", "sl"} : db'[f] = db[f]
  BY <1>0, <1>1
<1>2. CASE s.kind = "insert" /\ db' = [db EXCEPT !.tasks = Append(@, s.row)]
  <2>1. db' = [db EXCEPT !.tasks = Append(db.tasks, s.row)]
    BY <1>2
  <2> QED BY <1>0, <1>1, <1>2, <2>1, AppendIs DEF RowOK
<1>3. ASSUME NEW h, h = [i \in DOMAIN db.tasks |-> h[i]], db' = [db EXCEPT !.tasks = h]
      PROVE  /\ RowOK' /\ Len(db'.tasks) = Len(db.tasks)
             /\ \A f \in {"mode", "capital", "tp", "sl"} : db'[f] = db[f]
  BY <1>0, <1>1, <1>3, SameLength DEF RowOK
<1>4. \/ s.kind = "insert" /\ db' = [db EXCEPT !.tasks = Append(@, s.row)]
      \/ \E h : h = [i \in DOMAIN db.tasks |-> h[i]] /\ db' = [db EXCEPT !.tasks = h]
  <2>1. CASE s.kind = "insert" /\ db' = [db EXCEPT !.tasks = Append(@, s.row)]
    BY <2>1
  <2>2. CASE s.kind \in {"patch", "remove", "toggle"} /\ db' = [db EXCEPT !.tasks = [i \in DOMAIN @ |->
             IF i # s.id \/ i \notin Ids THEN @[i] ELSE Changed(s, @[i])]]
    <3> DEFINE h == [i \in DOMAIN db.tasks |->
             IF i # s.id \/ i \notin Ids THEN db.tasks[i] ELSE Changed(s, db.tasks[i])]
    <3>1. db' = [db EXCEPT !.tasks = h]
      BY <2>2
    <3>2. h = [i \in DOMAIN db.tasks |-> h[i]]
      OBVIOUS
    <3> HIDE DEF h
    <3> QED BY <3>1, <3>2
  <2>3. CASE s.kind = "pauseAll" /\ db' = [db EXCEPT !.tasks = [i \in DOMAIN @ |->
             IF @[i].status = "active" THEN [@[i] EXCEPT !.status = "paused"] ELSE @[i]]]
    <3> DEFINE h == [i \in DOMAIN db.tasks |->
             IF db.tasks[i].status = "active" THEN [db.tasks[i] EXCEPT !.status = "paused"]
             ELSE db.tasks[i]]
    <3>1. db' = [db EXCEPT !.tasks = h]
      BY <2>3
    <3>2. h = [i \in DOMAIN db.tasks |-> h[i]]
      OBVIOUS
    <3> HIDE DEF h
    <3> QED BY <3>1, <3>2
  <2> QED BY <2>1, <2>2, <2>3 DEF TaskWrite
<1> QED BY <1>2, <1>3, <1>4

LEMMA TaskWriteKeeps ==
  ASSUME ConsoleInv, NEW a \in Actors, TaskWrite(a)
  PROVE  ConsoleInv'
<1>1. /\ ~Free(a) /\ Leave(a, Rest(a))
      /\ Head(run[a].todo).kind \in {"insert", "patch", "remove", "toggle", "pauseAll"}
  BY DEF TaskWrite
<1>2. RowOK'
  BY TasksAre DEF ConsoleInv
<1>3. /\ Asked' /\ Reviewed' /\ shown' = shown
      /\ DOMAIN conv' = Flows /\ DOMAIN draft' = Flows /\ UNCHANGED <<conv, draft>>
  BY DEF ConsoleInv, TaskWrite, Asked, Reviewed, Domains, wizard, convs, chat
<1> QED BY <1>1, <1>2, <1>3, LeaveRest

-----------------------------------------------------------------------------
(* The steps that start a handler.                                         *)

\* A handler that cannot write the live mode starts.
LEMMA HarmlessStart ==
  ASSUME ConsoleInv, NEW a \in Actors, NEW op, NEW t,
         Free(a), run' = [run EXCEPT ![a] = [op |-> op, todo |-> t]], Harmless(t),
         op \notin Saved \/ a = "web",
         Asked', UNCHANGED <<db, consent, draft, shown>>,
         DOMAIN conv' = Flows, \A f \in Saved : conv'[f] = conv[f]
  PROVE  ConsoleInv'
<1>1. Handler([op |-> op, todo |-> t], consent'[a])
  BY HarmlessHandler
<1>2. DOMAIN consent' = Actors /\ \A b \in Actors \ {a} : consent'[b] = consent[b]
  BY DEF ConsoleInv, Domains
<1> QED BY <1>1, <1>2, StartKeeps

LEMMA TapKeeps ==
  ASSUME ConsoleInv, UNCHANGED convs,
         \/ \E op \in DOMAIN Taps : Tap(op)
         \/ \E op \in DOMAIN Requests : Request(op)
         \/ DisableCommand
  PROVE  ConsoleInv'
<1>0. conv' = conv /\ draft' = draft /\ shown' = shown /\ DOMAIN conv = Flows
  BY DEF convs, ConsoleInv, Domains
<1>1. ASSUME NEW op \in DOMAIN Taps, Tap(op) PROVE ConsoleInv'
  <2>1. op \notin Saved
    BY DEF Taps, Saved
  <2>2. Asked' /\ UNCHANGED <<db, consent>>
    BY <1>1 DEF Tap, chat, Asked, ConsoleInv
  <2>3. Free("telegram") /\ run' = [run EXCEPT !["telegram"] = [op |-> op, todo |-> Taps[op]]]
    BY <1>1 DEF Tap, Start
  <2> QED BY <1>0, <2>1, <2>2, <2>3, TapsAreHarmless, HarmlessStart DEF Actors
<1>2. ASSUME NEW op \in DOMAIN Requests, Request(op) PROVE ConsoleInv'
  <2>1. Asked' /\ UNCHANGED <<db, consent>>
    BY <1>2 DEF Request, chat, Asked, ConsoleInv
  <2>2. Free("web") /\ run' = [run EXCEPT !["web"] = [op |-> op, todo |-> Requests[op]]]
    BY <1>2 DEF Request, Start
  <2> QED BY <1>0, <2>1, <2>2, RequestsAreHarmless, HarmlessStart DEF Actors
<1>3. CASE DisableCommand
  <2>1. Asked' /\ UNCHANGED <<db, consent>>
    BY <1>3 DEF DisableCommand, Clear, Asked
  <2>2. Free("telegram") /\ run' = [run EXCEPT !["telegram"] = [op |-> "disable", todo |-> Disable]]
    BY <1>3 DEF DisableCommand, Start
  <2>3. Harmless(Disable)
    BY Program2, CalmReads, CalmSwitches DEF Disable
  <2>4. "disable" \notin Saved
    BY DEF Saved
  <2> QED BY <1>0, <2>1, <2>2, <2>3, <2>4, HarmlessStart DEF Actors
<1> QED BY <1>1, <1>2, <1>3

\* The two programs that write the live mode start with a yes.
LEMMA GivenHandler ==
  ASSUME NEW r, "tasks" \notin DOMAIN r, NEW op
  PROVE  Handler([op |-> op, todo |-> << Need("ready", TRUE), Put(r) >>], "given")
<1> DEFINE t == << Need("ready", TRUE), Put(r) >>
<1>1. t \in Seq({Need("ready", TRUE), Put(r)})
  OBVIOUS
<1>2. Finite(t)
  BY <1>1, Zenon DEF Finite
<1>3. \A i \in DOMAIN t : Spares(t[i])
  BY DEF Spares, Need, Put
<1>4. Len(t) = 2 /\ t[1] = Need("ready", TRUE) /\ t # << >>
  OBVIOUS
<1> HIDE DEF t
<1> QED BY <1>2, <1>3, <1>4 DEF Handler, Cleared, t

LEMMA ConfirmKeeps ==
  ASSUME ConsoleInv, UNCHANGED convs, Yes \/ RequestEnable \/ AnswerMode
  PROVE  ConsoleInv'
<1>0. /\ conv' = conv /\ draft' = draft /\ shown' = shown /\ DOMAIN conv = Flows
      /\ DOMAIN consent = Actors
  BY DEF convs, ConsoleInv, Domains
<1>1. CASE Yes
  <2>1. prompted
    BY <1>1 DEF Yes, ConsoleInv, Asked
  <2>2. /\ consent' = [consent EXCEPT !["telegram"] = "given"] /\ Asked' /\ db' = db
        /\ Free("telegram")
        /\ run' = [run EXCEPT !["telegram"] = [op |-> "enable", todo |-> Enable(session.cap)]]
    BY <1>1, <2>1 DEF Yes, Consent, Clear, Asked, Start
  <2>3. Handler([op |-> "enable", todo |-> Enable(session.cap)], "given")
    BY GivenHandler DEF Enable
  <2>4. "enable" \notin Saved
    BY DEF Saved
  <2>5. /\ DOMAIN consent' = Actors /\ consent'["telegram"] = "given"
        /\ \A b \in Actors \ {"telegram"} : consent'[b] = consent[b]
    BY <1>0, <2>2 DEF Actors
  <2> QED BY <1>0, <2>2, <2>3, <2>4, <2>5, StartKeeps DEF Actors
<1>2. CASE RequestEnable
  <2>1. PICK c \in Caps : Start("web", "webEnable", WebEnable(c))
    BY <1>2 DEF RequestEnable
  <2>2. /\ consent' = [consent EXCEPT !["web"] = "given"] /\ Asked' /\ db' = db
        /\ Free("web") /\ run' = [run EXCEPT !["web"] = [op |-> "webEnable", todo |-> WebEnable(c)]]
    BY <1>2, <2>1 DEF RequestEnable, Start, Asked, ConsoleInv, chat
  <2>3. Handler([op |-> "webEnable", todo |-> WebEnable(c)], "given")
    BY GivenHandler DEF WebEnable
  <2>4. /\ DOMAIN consent' = Actors /\ consent'["web"] = "given"
        /\ \A b \in Actors \ {"web"} : consent'[b] = consent[b]
    BY <1>0, <2>2 DEF Actors
  <2> QED BY <1>0, <2>2, <2>3, <2>4, StartKeeps DEF Actors
<1>3. CASE AnswerMode
  <2>1. prompted /\ Asked' /\ db' = db
    BY <1>3 DEF AnswerMode, ConsoleInv, Asked
  <2>2. CASE Start("telegram", "confirmMode", ConfirmMode) /\ Consent
    <3>1. /\ consent' = [consent EXCEPT !["telegram"] = "given"] /\ Free("telegram")
          /\ run' = [run EXCEPT !["telegram"] = [op |-> "confirmMode", todo |-> ConfirmMode]]
      BY <2>1, <2>2 DEF Start, Consent
    <3>2. Handler([op |-> "confirmMode", todo |-> ConfirmMode], "given")
      BY GivenHandler DEF ConfirmMode
    <3>3. "confirmMode" \notin Saved
      BY DEF Saved
    <3>4. /\ DOMAIN consent' = Actors /\ consent'["telegram"] = "given"
          /\ \A b \in Actors \ {"telegram"} : consent'[b] = consent[b]
      BY <1>0, <3>1 DEF Actors
    <3> QED BY <1>0, <2>1, <3>1, <3>2, <3>3, <3>4, StartKeeps DEF Actors
  <2>3. CASE UNCHANGED <<run, consent>>
    BY <1>0, <2>1, <2>3, ChatKeeps
  <2> QED BY <1>3, <2>2, <2>3 DEF AnswerMode
<1> QED BY <1>1, <1>2, <1>3

-----------------------------------------------------------------------------
(* The steps of a wizard.                                                  *)

\* A wizard goes to another of its states; nothing else moves.
LEMMA TurnKeeps ==
  ASSUME ConsoleInv, Free("telegram"), UNCHANGED vars,
         \E f \in Flows : \E s, d : Goto(f, s, d)
  PROVE  ConsoleInv'
<1>1. UNCHANGED <<db, awaiting, prompted, run, consent>>
  BY DEF vars, chat
<1> QED BY <1>1, GotoKeeps

LEMMA EnterKeeps ==
  ASSUME ConsoleInv,
         EnterPreset \/ EnterEdit \/ EnterP5 \/ EnterCopy \/ EnterEditTask \/ EditCustom \/ EditBack
  PROVE  ConsoleInv'
<1>1. Free("telegram") /\ UNCHANGED vars
  BY DEF EnterPreset, EnterEdit, EnterP5, EnterCopy, EnterEditTask, EditCustom, EditBack, CanTap, Still
<1>2. \E f \in Flows : \E s, d : Goto(f, s, d)
  <2>1. ASSUME NEW f \in Flows, NEW s, NEW d, Goto(f, s, d)
        PROVE  \E g \in Flows : \E x, e : Goto(g, x, e)
    BY <2>1
  <2>2. "preset" \in Flows /\ "p5" \in Flows /\ "copyNew" \in Flows /\ "copyEdit" \in Flows
    BY DEF Flows
  <2>3. CASE EnterPreset \/ EnterEdit
    BY <2>1, <2>2, <2>3, Zenon DEF EnterPreset, EnterEdit
  <2>4. CASE EnterP5
    BY <2>1, <2>2, <2>4, Zenon DEF EnterP5
  <2>5. CASE EnterCopy \/ EnterEditTask \/ EditCustom \/ EditBack
    BY <2>1, <2>2, <2>5, Zenon DEF EnterCopy, EnterEditTask, EditCustom, EditBack
  <2> QED BY <2>3, <2>4, <2>5
<1> QED BY <1>1, <1>2, TurnKeeps

LEMMA StepKeeps ==
  ASSUME ConsoleInv, NEW f \in Flows,
         Pick(f) \/ AskCustom(f) \/ Back(f) \/ Cancel(f) \/ TypeValue(f) \/ TypeElse(f)
  PROVE  ConsoleInv'
<1>1. Free("telegram") /\ UNCHANGED vars
  BY DEF Pick, AskCustom, Back, Cancel, TypeValue, TypeElse, Still
<1>2. \E s, d : Goto(f, s, d)
  <2>1. CASE Pick(f)
    BY <2>1, Zenon DEF Pick, Set
  <2>2. CASE AskCustom(f) \/ Back(f)
    BY <2>2, Zenon DEF AskCustom, Back
  <2>3. CASE Cancel(f)
    BY <2>3, Zenon DEF Cancel, End
  <2>4. CASE TypeValue(f)
    BY <2>4, Zenon DEF TypeValue, Set
  <2>5. CASE TypeElse(f)
    BY <2>5, Zenon DEF TypeElse
  <2> QED BY <2>1, <2>2, <2>3, <2>4, <2>5
<1> QED BY <1>1, <1>2, TurnKeeps

LEMMA LabelKeeps ==
  ASSUME ConsoleInv, NEW f \in Flows, LabelTap(f)
  PROVE  ConsoleInv'
<1>1. Free("telegram") /\ UNCHANGED vars
  BY DEF LabelTap
<1>2. CASE UNCHANGED <<conv, draft, shown>>
  BY <1>1, <1>2, ChatKeeps DEF vars, chat, ConsoleInv, Asked
<1>3. CASE \E s, d : Goto(f, s, d)
  BY <1>1, <1>3, TurnKeeps
<1>4. UNCHANGED <<conv, draft, shown>> \/ \E s, d : Goto(f, s, d)
  BY Zenon DEF LabelTap, Set, End
<1> QED BY <1>2, <1>3, <1>4

-----------------------------------------------------------------------------
(* The steps of the chat and of the row.                                   *)

LEMMA AnswerKeeps ==
  ASSUME ConsoleInv, UNCHANGED convs,
         \/ MenuTap \/ OtherQuestion \/ EnableCommand \/ AnswerStep1 \/ AnswerCap
         \/ WindowEnds \/ NotYes \/ ListLive \/ SwitchFails \/ Drift
  PROVE  ConsoleInv'
<1>1. UNCHANGED <<db, run, consent, conv, draft, shown>>
  BY DEF convs, MenuTap, OtherQuestion, EnableCommand, AnswerStep1, AnswerCap, WindowEnds, NotYes,
     ListLive, SwitchFails, Drift
<1>2. Asked'
  BY DEF ConsoleInv, Asked, MenuTap, OtherQuestion, EnableCommand, AnswerStep1, AnswerCap,
     WindowEnds, NotYes, ListLive, SwitchFails, Drift, Clear, chat
<1> QED BY <1>1, <1>2, ChatKeeps

LEMMA NumberKeeps ==
  ASSUME ConsoleInv,
         \/ \E k \in DOMAIN InRange : AskNumber(k)
         \/ \E v \in Percents : TapTp(v) \/ AnswerStep(v)
  PROVE  ConsoleInv'
<1>1. UNCHANGED <<db, run, consent, conv, draft, shown>>
  BY DEF AskNumber, TapTp, AnswerStep, vars, convs
<1>2. Asked'
  BY DEF ConsoleInv, Asked, AskNumber, TapTp, AnswerStep, vars, chat
<1> QED BY <1>1, <1>2, ChatKeeps

\* The operator and the fallbacks write the row, and never the live mode.
LEMMA OutsideIs ==
  ASSUME RowOK,
         \/ Unlock \/ KillPause \/ KillResume \/ KillLock \/ AdminPause
         \/ Fallback \/ SwitchToPaper
  PROVE  /\ RowOK' /\ db'.mode \in {db.mode, "paper"} /\ db'.tasks = db.tasks
         /\ OfDb' = OfDb
         /\ UNCHANGED <<awaiting, prompted, run, consent>>
<1>1. ASSUME NEW row, NEW kill, Operator(row, kill), "tasks" \notin DOMAIN row,
             Fields \intersect DOMAIN row = {},
             "mode" \notin DOMAIN row \/ row.mode = "paper"
      PROVE  /\ RowOK' /\ db'.mode \in {db.mode, "paper"} /\ db'.tasks = db.tasks
             /\ OfDb' = OfDb /\ UNCHANGED <<awaiting, prompted, run, consent>>
  <2>1. db' = Over(row, db) /\ UNCHANGED <<awaiting, prompted, run, consent>>
    BY <1>1 DEF Operator, chat
  <2>2. RowOK' /\ db'.tasks = db.tasks
    BY <1>1, <2>1, RowOver
  <2>0. /\ \A f \in DOMAIN row : Over(row, db)[f] = row[f]
        /\ \A f \in DOMAIN db \ DOMAIN row : Over(row, db)[f] = db[f]
    BY OverIs
  <2>3. /\ \A f \in DOMAIN row : db'[f] = row[f]
        /\ \A f \in DOMAIN db \ DOMAIN row : db'[f] = db[f]
    BY <2>0, <2>1
  <2>4. {"mode", "capital", "tp", "sl"} \subseteq DOMAIN db
    BY DEF RowOK
  <2>5. db'.mode \in {db.mode, "paper"}
    BY <1>1, <2>3, <2>4
  <2>6. db'.capital = db.capital /\ db'.tp = db.tp /\ db'.sl = db.sl
    BY <1>1, <2>3, <2>4 DEF Fields
  <2> QED BY <2>1, <2>2, <2>5, <2>6 DEF OfDb
<1>2. CASE Fallback \/ SwitchToPaper
  <2>1. db' = [db EXCEPT !.mode = "paper"] /\ UNCHANGED <<awaiting, prompted, run, consent>>
    BY <1>2 DEF Fallback, SwitchToPaper, chat
  <2> QED BY <2>1 DEF RowOK, OfDb
<1>3. CASE Unlock
  <2>1. Operator([locked |-> FALSE], killed)
    BY <1>3 DEF Unlock
  <2> QED BY <1>1, <2>1 DEF Fields
<1>4. CASE KillPause \/ KillResume
  <2>1. PICK kill \in BOOLEAN : Operator(<< >>, kill)
    BY <1>4 DEF KillPause, KillResume
  <2>2. DOMAIN << >> = {}
    OBVIOUS
  <2>3. "tasks" \notin DOMAIN << >> /\ Fields \intersect DOMAIN << >> = {} /\ "mode" \notin DOMAIN << >>
    BY <2>2
  <2> QED BY <1>1, <2>1, <2>3
<1>5. CASE KillLock
  <2>1. Operator([auto |-> FALSE, mode |-> "paper"], TRUE)
    BY <1>5 DEF KillLock
  <2> QED BY <1>1, <2>1 DEF Fields
<1>6. CASE AdminPause
  <2>1. PICK p \in BOOLEAN : Operator([paused |-> p], killed)
    BY <1>6 DEF AdminPause
  <2> QED BY <1>1, <2>1 DEF Fields
<1> QED BY <1>2, <1>3, <1>4, <1>5, <1>6

LEMMA OutsideKeeps ==
  ASSUME ConsoleInv, UNCHANGED convs,
         \/ Unlock \/ KillPause \/ KillResume \/ KillLock \/ AdminPause
         \/ Fallback \/ SwitchToPaper
  PROVE  ConsoleInv'
<1>1. RowOK' /\ UNCHANGED <<awaiting, prompted, run, consent>>
  BY OutsideIs DEF ConsoleInv
<1>2. UNCHANGED <<conv, draft, shown>>
  BY DEF convs
<1> QED BY <1>1, <1>2, RowKeeps

-----------------------------------------------------------------------------
(* Saves.                                                                  *)

\* The UPDATEs and the INSERT of a save hold the draft.
LEMMA DraftShown ==
  ASSUME NEW d
  PROVE  /\ \A f, v : Shows(Need(f, v), d)
         /\ \A b : Shows(Put([auto |-> b]), d) /\ Shows(Put([paused |-> b]), d)
         /\ Shows(Put(OfDraft(d)), d)
         /\ Shows(Put(Over([preset |-> TRUE], OfDraft(d))), d)
         /\ Shows(Insert(d), d)
<1>1. \A f, v : Shows(Need(f, v), d)
  BY DEF Shows, Need
<1>2. \A b : Shows(Put([auto |-> b]), d) /\ Shows(Put([paused |-> b]), d)
  BY DEF Shows, Put, Fields
<1>3. Shows(Put(OfDraft(d)), d)
  BY DEF Shows, Put, Fields, OfDraft, Values
<1>4. Shows(Put(Over([preset |-> TRUE], OfDraft(d))), d)
  <2> DEFINE r == Over([preset |-> TRUE], OfDraft(d))
  <2>1. DOMAIN [preset |-> TRUE] = {"preset"} /\ DOMAIN OfDraft(d) = Fields
    BY DEF OfDraft, Values, Fields
  <2>2. /\ DOMAIN r = DOMAIN [preset |-> TRUE] \union DOMAIN OfDraft(d)
        /\ \A f \in DOMAIN OfDraft(d) \ DOMAIN [preset |-> TRUE] : r[f] = OfDraft(d)[f]
    BY OverIs
  <2> HIDE DEF r
  <2>3. Fields \subseteq DOMAIN r /\ \A f \in Fields : r[f] = OfDraft(d)[f]
    BY <2>1, <2>2 DEF Fields
  <2>4. OfDraft(r) = OfDraft(d)
    BY <2>3 DEF OfDraft, Values, Fields
  <2>5. Shows(Put(r), d)
    BY <2>3, <2>4 DEF Shows, Put
  <2> QED BY <2>5 DEF r
<1>5. Shows(Insert(d), d)
  BY DEF Shows, Insert
<1> QED BY <1>1, <1>2, <1>3, <1>4, <1>5

LEMMA SaveShows ==
  ASSUME NEW f \in Flows
  PROVE  /\ Harmless(SaveProgram(f))
         /\ \A i \in DOMAIN SaveProgram(f) : Shows(SaveProgram(f)[i], draft[f])
<1> DEFINE d == draft[f]
<1>1. CASE f = "preset" /\ d.new
  <2>1. SaveProgram(f) = << Need("locked", FALSE), Need("mode", "paper"),
                            Put(Over([preset |-> TRUE], OfDraft(d))), Put([auto |-> TRUE]),
                            Put([paused |-> FALSE]) >>
    BY <1>1 DEF SaveProgram, SavePreset
  <2>2. Calm(Put(Over([preset |-> TRUE], OfDraft(d))))
    BY CalmPreset DEF OfDraft
  <2>3. Harmless(SaveProgram(f))
    BY <2>1, <2>2, CalmReads, CalmSwitches, Program5
  <2>4. \A i \in 1 .. 5 : Shows(SaveProgram(f)[i], d)
    <3>1. /\ SaveProgram(f)[1] = Need("locked", FALSE)
          /\ SaveProgram(f)[2] = Need("mode", "paper")
          /\ SaveProgram(f)[3] = Put(Over([preset |-> TRUE], OfDraft(d)))
          /\ SaveProgram(f)[4] = Put([auto |-> TRUE])
          /\ SaveProgram(f)[5] = Put([paused |-> FALSE])
      BY <2>1
    <3>2. /\ Shows(SaveProgram(f)[1], d) /\ Shows(SaveProgram(f)[2], d)
          /\ Shows(SaveProgram(f)[3], d) /\ Shows(SaveProgram(f)[4], d)
          /\ Shows(SaveProgram(f)[5], d)
      BY <3>1, DraftShown
    <3> QED BY <3>2
  <2>5. DOMAIN SaveProgram(f) = 1 .. 5
    BY <2>1
  <2> QED BY <2>3, <2>4, <2>5
<1>2. CASE (f = "preset" /\ ~d.new) \/ f = "p5"
  <2>1. SaveProgram(f) = << Put(OfDraft(d)) >>
    BY <1>2 DEF SaveProgram, SavePreset
  <2>2. Calm(Put(OfDraft(d)))
    BY CalmPreset DEF OfDraft
  <2> QED BY <2>1, <2>2, Program1, DraftShown
<1>3. CASE f \notin {"preset", "p5"}
  <2>1. SaveProgram(f) = << Insert(d) >>
    BY <1>3 DEF SaveProgram
  <2> QED BY <2>1, CalmReads, Program1, DraftShown
<1> QED BY <1>1, <1>2, <1>3

LEMMA SaveKeeps ==
  ASSUME ConsoleInv, NEW f \in Flows, Save(f)
  PROVE  ConsoleInv'
<1>1. /\ conv[f] = "review" /\ conv' = [conv EXCEPT ![f] = "off"] /\ Free("telegram")
      /\ run' = [run EXCEPT !["telegram"] = [op |-> f, todo |-> SaveProgram(f)]]
      /\ UNCHANGED <<db, consent, draft, shown>>
  BY DEF Save, Start
<1>2. DOMAIN conv = Flows /\ DOMAIN run = Actors /\ DOMAIN conv' = Flows
  BY <1>1 DEF ConsoleInv, Domains
<1>3. Asked'
  BY DEF Save, chat, Asked, ConsoleInv
<1>4. /\ Harmless(SaveProgram(f))
      /\ \A i \in DOMAIN SaveProgram(f) : Shows(SaveProgram(f)[i], draft[f])
  BY SaveShows
<1>5. CASE f \in Saved
  <2>1. Handler([op |-> f, todo |-> SaveProgram(f)], consent["telegram"])
    BY <1>4, HarmlessHandler
  <2>2. Handlers'
    BY <1>1, <1>2, <2>1 DEF ConsoleInv, Handlers, Actors
  <2>3. RowOK' /\ Domains'
    BY <1>1, <1>2 DEF ConsoleInv, RowOK, Domains
  <2>4. Reviewed'
    BY <1>1, <1>2 DEF ConsoleInv, Reviewed, Saved, Flows
  <2>5. run'["telegram"] = [op |-> f, todo |-> SaveProgram(f)] /\ conv'[f] = "off"
    BY <1>1, <1>2 DEF Actors
  <2>6. shown[f] = draft[f]
    BY <1>1, <1>5 DEF ConsoleInv, Reviewed
  <2>7. Saving'
    BY <1>1, <1>4, <2>5, <2>6 DEF Saving
  <2> QED BY <1>3, <2>2, <2>3, <2>4, <2>7 DEF ConsoleInv
<1>6. CASE f \notin Saved
  <2>1. \A g \in Saved : conv'[g] = conv[g]
    BY <1>1, <1>2, <1>6 DEF Saved, Flows
  <2>2. "telegram" \in Actors
    BY DEF Actors
  <2> QED BY <1>1, <1>2, <1>3, <1>4, <1>6, <2>1, <2>2, HarmlessStart
<1> QED BY <1>5, <1>6

\* Numbers saved outside a conversation, and statements on the copy tasks.
LEMMA NumberSaveKeeps ==
  ASSUME ConsoleInv,
         \/ \E v \in Percents : TapSl(v) \/ TapCapital(v) \/ AnswerSave(v)
         \/ WebValues
  PROVE  ConsoleInv'
<1>0. DOMAIN conv = Flows
  BY DEF ConsoleInv, Domains
<1>1. ASSUME NEW a \in Actors, NEW op, NEW t, Free(a), Harmless(t), op \notin Saved,
             run' = [run EXCEPT ![a] = [op |-> op, todo |-> t]],
             UNCHANGED <<db, chat, consent, wizard>>
      PROVE  ConsoleInv'
  <2>1. Asked' /\ UNCHANGED <<conv, draft, shown>>
    BY <1>1 DEF chat, wizard, convs, Asked, ConsoleInv
  <2> QED BY <1>0, <1>1, <2>1, HarmlessStart
<1>2. \A v : Harmless(SetSl(v)) /\ Harmless(<< Put([capital |-> v]) >>) /\ Harmless(<< Put([tp |-> v]) >>)
  BY CalmSwitches, Program1 DEF SetSl
<1>3. \A c, t, s : Harmless(<< Put(Values(c, t, s)) >>)
  BY CalmPreset, Program1
<1>4. "telegram" \in Actors /\ "web" \in Actors
  BY DEF Actors
<1>5. ASSUME NEW v \in Percents, TapSl(v) \/ TapCapital(v) PROVE ConsoleInv'
  <2>1. /\ Free("telegram") /\ UNCHANGED <<db, chat, consent, wizard>>
        /\ \/ run' = [run EXCEPT !["telegram"] = [op |-> "tapSl", todo |-> SetSl(v)]]
           \/ run' = [run EXCEPT !["telegram"] = [op |-> "tapCapital", todo |-> << Put([capital |-> v]) >>]]
    BY <1>5 DEF TapSl, TapCapital, TapSave
  <2>2. "tapSl" \notin Saved /\ "tapCapital" \notin Saved
    BY DEF Saved
  <2> QED BY <1>1, <1>2, <1>4, <2>1, <2>2
<1>6. ASSUME NEW v \in Percents, AnswerSave(v) PROVE ConsoleInv'
  <2>1. PICK t : /\ t \in {<< Put([capital |-> v]) >>, SetSl(v), << Put(Values(risk.capital, risk.tp, v)) >>}
                 /\ run' = [run EXCEPT !["telegram"] = [op |-> awaiting, todo |-> t]]
    BY <1>6 DEF AnswerSave
  <2>2. Free("telegram") /\ UNCHANGED <<db, chat, consent, wizard>> /\ awaiting \notin Saved
    BY <1>6 DEF AnswerSave, Saved
  <2>3. Harmless(t)
    BY <1>2, <1>3, <2>1
  <2> QED BY <1>1, <1>4, <2>1, <2>2, <2>3
<1>7. CASE WebValues
  <2>1. PICK c, t, s \in Percents :
          \/ Start("web", "webValues", << Put([capital |-> c]) >>)
          \/ Start("web", "webValues", << Put([tp |-> t]) >>)
          \/ Start("web", "webValues", << Put(Values(c, t, s)) >>)
    BY <1>7, Zenon DEF WebValues
  <2>2. UNCHANGED <<db, chat, consent, wizard>> /\ "webValues" \notin Saved
    BY <1>7 DEF WebValues, Saved
  <2> QED BY <1>1, <1>2, <1>3, <1>4, <2>1, <2>2 DEF Start
<1> QED BY <1>5, <1>6, <1>7

LEMMA DeskKeeps ==
  ASSUME ConsoleInv, DeskTap \/ EditValue \/ WebTask
  PROVE  ConsoleInv'
<1>0. DOMAIN conv = Flows /\ \A v : DOMAIN [conv EXCEPT !["copyEdit"] = v] = Flows
  BY DEF ConsoleInv, Domains
<1>1. ASSUME NEW a \in Actors, NEW op, NEW s, Start(a, op, << s >>), Calm(s), op \notin Saved
      PROVE  ConsoleInv'
  <2>1. /\ Asked' /\ UNCHANGED <<db, consent, draft, shown>>
        /\ conv' = conv \/ \E v : conv' = [conv EXCEPT !["copyEdit"] = v]
    BY DEF DeskTap, EditValue, WebTask, chat, wizard, convs, Asked, ConsoleInv
  <2>2. DOMAIN conv' = Flows /\ \A f \in Saved : conv'[f] = conv[f]
    BY <1>0, <2>1 DEF Saved, Flows
  <2>3. Harmless(<< s >>)
    BY <1>1, Program1
  <2> QED BY <1>1, <2>1, <2>2, <2>3, HarmlessStart DEF Start
<1>2. "task" \notin Saved /\ "webTask" \notin Saved /\ "telegram" \in Actors /\ "web" \in Actors
  BY DEF Saved, Actors
<1>3. \/ \E s : Calm(s) /\ Start("telegram", "task", << s >>)
      \/ \E s : Calm(s) /\ Start("web", "webTask", << s >>)
  <2>1. CASE EditValue
    <3>1. PICK i \in DOMAIN db.tasks : Start("telegram", "task", << Patch(i, [terms |-> SomeTerms]) >>)
      BY <2>1 DEF EditValue
    <3> QED BY <3>1, CalmReads
  <2>2. CASE WebTask
    <3>1. \/ Start("web", "webTask", << Insert(SomeTerms) >>)
          \/ \E i \in Ids : \E s \in {Patch(i, [status |-> "active"]), Patch(i, [status |-> "paused"]),
               Remove(i)} : Start("web", "webTask", << s >>)
      BY <2>2, Zenon DEF WebTask
    <3> QED BY <3>1, CalmReads
  <2>3. CASE DeskTap
    <3>1. \/ \E i \in DOMAIN db.tasks : \E s \in {Toggle(i), Flip(i, "reverse"), Remove(i)} :
               Start("telegram", "task", << s >>)
          \/ \E s \in {Flip(i, "status") : i \in Ids} \union {PauseAll}
                        \union (IF Room THEN {Upsert(SomeTerms)} ELSE {}) :
               Start("telegram", "task", << s >>)
      BY <2>3, Zenon DEF DeskTap
    <3> QED BY <3>1, CalmReads
  <2> QED BY <2>1, <2>2, <2>3
<1> QED BY <1>1, <1>2, <1>3

-----------------------------------------------------------------------------
(* The whole.                                                              *)

\* The operator and the fallbacks, which write the row on their own.
Outside == \/ Unlock \/ KillPause \/ KillResume \/ KillLock \/ AdminPause
           \/ Fallback \/ SwitchToPaper

LEMMA ComposedKeeps ==
  ASSUME ConsoleInv, Composed \/ Routed
  PROVE  ConsoleInv'
<1>1. UNCHANGED convs
  BY DEF Composed, Routed, wizard
<1>2. CASE Composed
  <2>1. OtherStep
    BY <1>2 DEF Composed
  <2>2. CASE \E a \in Actors : Read(a) \/ Question(a)
    BY <1>1, <2>2, ReadKeeps, QuestionKeeps
  <2>3. CASE \/ \E op \in DOMAIN Taps : Tap(op)
             \/ \E op \in DOMAIN Requests : Request(op)
             \/ DisableCommand
    BY <1>1, <2>3, TapKeeps
  <2>4. CASE Yes \/ RequestEnable
    BY <1>1, <2>4, ConfirmKeeps
  <2>5. CASE \/ OtherQuestion \/ EnableCommand \/ WindowEnds \/ NotYes
             \/ ListLive \/ SwitchFails \/ Drift
    BY <1>1, <2>5, AnswerKeeps
  <2>6. CASE Outside
    BY <1>1, <2>6, OutsideKeeps DEF Outside
  <2> QED BY <2>1, <2>2, <2>3, <2>4, <2>5, <2>6 DEF OtherStep, AutoFallback, Outside
<1>3. CASE Routed
  <2>1. MenuTap \/ AnswerMode \/ AnswerStep1 \/ AnswerCap
    BY <1>3 DEF Routed
  <2> QED BY <1>1, <2>1, AnswerKeeps, ConfirmKeeps
<1> QED BY <1>2, <1>3

LEMMA NextKeeps ==
  ASSUME ConsoleInv, [Next]_all
  PROVE  ConsoleInv'
<1>1. CASE UNCHANGED all
  <2>1. UNCHANGED <<db, awaiting, prompted, run, consent, conv, draft, shown>>
    BY <1>1 DEF all, vars, wizard, convs, chat
  <2> QED BY <2>1, ChatKeeps DEF ConsoleInv, Asked
<1>2. CASE Composed \/ Routed
  BY <1>2, ComposedKeeps
<1>3. CASE \E a \in Actors : Wrote(a) \/ WroteNot(a) \/ TaskWrite(a) \/ TaskRead(a)
  BY <1>3, WroteKeeps, WroteNotKeeps, TaskWriteKeeps, TaskReadKeeps
<1>4. CASE EnterPreset \/ EnterEdit \/ EnterP5 \/ EnterCopy \/ EnterEditTask \/ EditCustom \/ EditBack
  BY <1>4, EnterKeeps
<1>5. CASE \E f \in Flows : Pick(f) \/ AskCustom(f) \/ Back(f) \/ Cancel(f) \/ TypeValue(f)
                            \/ TypeElse(f) \/ LabelTap(f) \/ Save(f)
  BY <1>5, StepKeeps, LabelKeeps, SaveKeeps
<1>6. CASE \/ \E k \in DOMAIN InRange : AskNumber(k)
           \/ \E v \in Percents : TapTp(v) \/ AnswerStep(v)
  BY <1>6, NumberKeeps
<1>7. CASE (\E v \in Percents : TapSl(v) \/ TapCapital(v) \/ AnswerSave(v)) \/ WebValues
  BY <1>7, NumberSaveKeeps
<1>8. CASE DeskTap \/ EditValue \/ WebTask
  BY <1>8, DeskKeeps
<1> QED BY <1>1, <1>2, <1>3, <1>4, <1>5, <1>6, <1>7, <1>8 DEF Next

\* Only a statement, the operator or a fallback writes the row.
LEMMA WhoWrites ==
  ASSUME [Next]_all
  PROVE  \/ db' = db
         \/ \E a \in Actors : Wrote(a) \/ TaskWrite(a)
         \/ Outside
<1>1. CASE UNCHANGED all
  BY <1>1 DEF all, vars
<1>2. CASE Composed
  <2>1. OtherStep
    BY <1>2 DEF Composed
  <2>2. CASE \E a \in Actors : Read(a) \/ Question(a)
    BY <2>2 DEF Read, Question
  <2>3. CASE \/ \E op \in DOMAIN Taps : Tap(op)
             \/ \E op \in DOMAIN Requests : Request(op)
             \/ DisableCommand \/ Yes \/ RequestEnable
    BY <2>3 DEF Tap, Request, DisableCommand, Yes, RequestEnable
  <2>4. CASE \/ OtherQuestion \/ EnableCommand \/ WindowEnds \/ NotYes
             \/ ListLive \/ SwitchFails \/ Drift
    BY <2>4 DEF OtherQuestion, EnableCommand, WindowEnds, NotYes, ListLive, SwitchFails, Drift
  <2> QED BY <2>1, <2>2, <2>3, <2>4 DEF OtherStep, AutoFallback, Outside
<1>3. CASE Routed
  BY <1>3 DEF Routed, MenuTap, AnswerMode, AnswerStep1, AnswerCap
<1>4. CASE \E a \in Actors : Wrote(a) \/ WroteNot(a) \/ TaskWrite(a) \/ TaskRead(a)
  BY <1>4 DEF WroteNot, WriteFails, TaskRead
<1>5. CASE EnterPreset \/ EnterEdit \/ EnterP5 \/ EnterCopy \/ EnterEditTask \/ EditCustom \/ EditBack
  BY <1>5 DEF EnterPreset, EnterEdit, EnterP5, EnterCopy, EnterEditTask, EditCustom, EditBack,
     Still, vars
<1>6. CASE \E f \in Flows : Pick(f) \/ AskCustom(f) \/ Back(f) \/ Cancel(f) \/ TypeValue(f)
                            \/ TypeElse(f) \/ LabelTap(f) \/ Save(f)
  BY <1>6 DEF Pick, AskCustom, Back, Cancel, TypeValue, TypeElse, LabelTap, Save, Still, vars
<1>7. CASE \/ \E k \in DOMAIN InRange : AskNumber(k)
           \/ \E v \in Percents : TapTp(v) \/ AnswerStep(v)
           \/ \E v \in Percents : TapSl(v) \/ TapCapital(v) \/ AnswerSave(v)
           \/ WebValues \/ DeskTap \/ EditValue \/ WebTask
  BY <1>7 DEF AskNumber, TapTp, AnswerStep, TapSl, TapCapital, TapSave, AnswerSave, WebValues,
     DeskTap, EditValue, WebTask, vars
<1> QED BY <1>1, <1>2, <1>3, <1>4, <1>5, <1>6, <1>7 DEF Next

\* ConsoleInv is an inductive invariant of the console.
THEOREM ConsoleInvariant == Spec => []ConsoleInv
<1>1. WizardsInit => ConsoleInv
  BY InitConsole
<1>2. ConsoleInv /\ [Next]_all => ConsoleInv'
  BY NextKeeps
<1> QED BY <1>1, <1>2, PTL DEF Spec

-----------------------------------------------------------------------------
(* Live mode is confirmed.                                                 *)

Confirmed == (db.mode = "paper" /\ db'.mode = "live") => \E a \in Actors : consent[a] = "checked"

LEMMA OnlyConfirmed ==
  ASSUME ConsoleInv, [Next]_all
  PROVE  Confirmed
<1> SUFFICES ASSUME db.mode = "paper", db'.mode = "live"
             PROVE  \E a \in Actors : consent[a] = "checked"
  BY DEF Confirmed
<1>1. RowOK
  BY DEF ConsoleInv
<1>2. CASE db' = db
  BY <1>2
<1>3. ASSUME NEW a \in Actors, Wrote(a) PROVE consent[a] = "checked"
  <2> DEFINE s == Head(run[a].todo)
  <2>1. ~Free(a) /\ s.kind = "put" /\ db' = Over(s.row, db)
    BY <1>3 DEF Wrote, Write, Statement
  <2>2. Lives(s) => consent[a] = "checked"
    BY <2>1, HeadIs
  <2>3. /\ \A f \in DOMAIN s.row : Over(s.row, db)[f] = s.row[f]
        /\ \A f \in DOMAIN db \ DOMAIN s.row : Over(s.row, db)[f] = db[f]
    BY OverIs
  <2>4. "mode" \in DOMAIN s.row /\ s.row.mode = "live"
    BY <1>1, <2>1, <2>3 DEF RowOK
  <2> QED BY <2>1, <2>2, <2>4 DEF Lives
<1>4. ASSUME NEW a \in Actors, TaskWrite(a) PROVE FALSE
  BY <1>1, <1>4, TasksAre
<1>5. CASE Outside
  BY <1>1, <1>5, OutsideIs DEF Outside
<1> QED BY <1>2, <1>3, <1>4, <1>5, WhoWrites

\* A user's mode becomes live only by the UPDATE of a handler whose question
\* still stood when it was answered yes and whose checklist passed after that,
\* whatever the two surfaces, the operator and the fallbacks do meanwhile and
\* whatever number of percents, options, tasks and faults there is.
THEOREM LiveConfirmed == Spec => LiveIsConfirmed
<1>1. ConsoleInv /\ [Next]_all => [(db.mode = "paper" /\ db'.mode = "live")
                                     => \E a \in Actors : consent[a] = "checked"]_vars
  BY OnlyConfirmed DEF Confirmed
<1> QED BY <1>1, ConsoleInvariant, PTL DEF Spec, LiveIsConfirmed

-----------------------------------------------------------------------------
(* A save writes what the review showed.                                   *)

ShownSaved(f) ==
  (run["telegram"].op = f /\ run'["telegram"] # run["telegram"]) =>
    /\ Values(db'.capital, db'.tp, db'.sl) # OfDb =>
         Values(db'.capital, db'.tp, db'.sl) = OfDraft(shown[f])
    /\ Len(db'.tasks) > Len(db.tasks) => db'.tasks[Len(db'.tasks)].terms = shown[f]

LEMMA OnlyShown ==
  ASSUME ConsoleInv, [Next]_all, NEW f \in Saved
  PROVE  ShownSaved(f)
<1> SUFFICES ASSUME run["telegram"].op = f, run'["telegram"] # run["telegram"]
             PROVE  /\ Values(db'.capital, db'.tp, db'.sl) # OfDb =>
                         Values(db'.capital, db'.tp, db'.sl) = OfDraft(shown[f])
                    /\ Len(db'.tasks) > Len(db.tasks) => db'.tasks[Len(db'.tasks)].terms = shown[f]
  BY DEF ShownSaved
<1>0. RowOK
  BY DEF ConsoleInv
<1>1. Len(db.tasks) \in Nat
  <2>1. PICK S : db.tasks \in Seq(S)
    BY <1>0 DEF RowOK, Finite
  <2> QED BY <2>1
<1>2. CASE db' = db
  BY <1>1, <1>2 DEF OfDb
<1>3. Shows(Head(run["telegram"].todo), shown[f])
  BY RestShows
<1>4. ASSUME NEW a \in Actors, Leave(a, Rest(a)) PROVE a = "telegram"
  <2>1. run' = [run EXCEPT ![a] = Rest(a)]
    BY <1>4 DEF Leave
  <2> QED BY <2>1 DEF ConsoleInv, Domains
<1>5. ASSUME NEW a \in Actors, Wrote(a)
      PROVE  /\ db'.tasks = db.tasks
             /\ OfDb' = OfDb \/ OfDb' = OfDraft(shown[f])
  <2> DEFINE s == Head(run[a].todo)
  <2>1. ~Free(a) /\ s.kind = "put" /\ db' = Over(s.row, db) /\ a = "telegram"
    BY <1>4, <1>5 DEF Wrote, Write, Statement
  <2>2. db'.tasks = db.tasks
    BY <1>0, <2>1, HeadIs, RowOver
  <2>3. /\ \A x \in DOMAIN s.row : Over(s.row, db)[x] = s.row[x]
        /\ \A x \in DOMAIN db \ DOMAIN s.row : Over(s.row, db)[x] = db[x]
    BY OverIs
  <2>4. CASE Fields \intersect DOMAIN s.row = {}
    <3>1. db'.capital = db.capital /\ db'.tp = db.tp /\ db'.sl = db.sl
      BY <1>0, <2>1, <2>3, <2>4 DEF RowOK, Fields
    <3> QED BY <2>2, <3>1 DEF OfDb
  <2>5. CASE Fields \subseteq DOMAIN s.row /\ OfDraft(s.row) = OfDraft(shown[f])
    <3>1. db'.capital = s.row.capital /\ db'.tp = s.row.tp /\ db'.sl = s.row.sl
      BY <2>1, <2>3, <2>5 DEF Fields
    <3>2. OfDb' = OfDraft(s.row)
      BY <3>1 DEF OfDb, OfDraft
    <3> QED BY <2>2, <2>5, <3>2
  <2> QED BY <1>3, <2>1, <2>4, <2>5 DEF Shows
<1>6. CASE \E a \in Actors : Wrote(a)
  <2>1. Values(db'.capital, db'.tp, db'.sl) = OfDb'
    BY DEF OfDb
  <2> QED BY <1>1, <1>5, <1>6, <2>1
<1>7. ASSUME NEW a \in Actors, TaskWrite(a)
      PROVE  /\ Values(db'.capital, db'.tp, db'.sl) = OfDb
             /\ Len(db'.tasks) > Len(db.tasks) => db'.tasks[Len(db'.tasks)].terms = shown[f]
  <2>1. a = "telegram"
    BY <1>4, <1>7 DEF TaskWrite
  <2>2. /\ \A x \in {"mode", "capital", "tp", "sl"} : db'[x] = db[x]
        /\ \/ /\ Head(run[a].todo).kind = "insert"
              /\ db'.tasks[Len(db'.tasks)] = Head(run[a].todo).row
           \/ Len(db'.tasks) = Len(db.tasks)
    BY <1>0, <1>7, TasksAre
  <2>3. Values(db'.capital, db'.tp, db'.sl) = OfDb
    BY <2>2 DEF OfDb
  <2> QED BY <1>1, <1>3, <2>1, <2>2, <2>3 DEF Shows
<1>8. CASE Outside
  <2>1. UNCHANGED run
    BY <1>0, <1>8, OutsideIs DEF Outside
  <2> QED BY <2>1
<1> QED BY <1>2, <1>6, <1>7, <1>8, WhoWrites

\* What a wizard saves, the three numbers of a preset or the terms of a copy
\* task, is what its last review showed: no old button, typed value, web
\* request or failed UPDATE between the review and the last statement of the
\* save gets another value into the row.
THEOREM ShownIsSaved == Spec => SavedAsShown
<1>1. ConsoleInv /\ [Next]_all =>
        [\A f \in {"preset", "p5", "copyNew"} :
           (run["telegram"].op = f /\ run'["telegram"] # run["telegram"]) =>
             /\ Values(db'.capital, db'.tp, db'.sl) # OfDb =>
                  Values(db'.capital, db'.tp, db'.sl) = OfDraft(shown[f])
             /\ Len(db'.tasks) > Len(db.tasks) => db'.tasks[Len(db'.tasks)].terms = shown[f]]_all
  BY OnlyShown DEF ShownSaved, Saved
<1> QED BY <1>1, ConsoleInvariant, PTL DEF Spec, SavedAsShown
=============================================================================
