------------------------------ MODULE Accounts ------------------------------
(***************************************************************************)
(* One person, one account.  A row of users is created by the first        *)
(* message to the bot or the Telegram login of the web page (users.py:     *)
(* upsert_user), or by the registration of an email (webtrader/backend/    *)
(* auth.py), and what belongs to it is created afterwards, statement by    *)
(* statement.  A one-time code joins the Telegram identity to a row that   *)
(* has an email (domain/activation/account_link.py); the row the Telegram  *)
(* id had is tombstoned, if nothing was traded on it.                      *)
(*                                                                         *)
(* A handler is a task that one worker runs; a row is named by its place   *)
(* in users.  Passwords, user names and the age of tokens are left out.    *)
(***************************************************************************)
EXTENDS Integers, Sequences

CONSTANTS
  Telegrams, Emails,     \* identities
  BotTasks, WebTasks,    \* bound: handlers that run at a time
  MaxRows, MaxCodes,     \* bounds: rows of users, of account_link_codes
  AccountFaults,         \* bound: statements that fail, restarts of the process
  Plans                  \* bound: what a behaviour may start, and who

Tasks  == BotTasks \cup WebTasks
Pieces == {"settings", "wallet", "seed", "defaults", "feed", "history"}
Ops    == {"upsert", "register", "login", "linkEmail", "generate", "redeem", "trade"}
Places == {"none", "find", "insert", "look", "insertEmail", "provide", "conflict", "own", "putEmail",
           "linked", "drop", "mint", "code", "primary", "dup", "fresh", "attach"}
NoOne  == "none"         \* NULL
Merged == "merged"       \* merged-<id>@telegram.local

ASSUME AccountsAssumption ==
  /\ {NoOne, Merged} \cap (Telegrams \cup Emails) = {} /\ BotTasks \cap WebTasks = {}
  /\ MaxRows \in Nat /\ MaxCodes \in Nat /\ AccountFaults \in Nat
  /\ Plans \subseteq [serial : BOOLEAN, ops : SUBSET Ops, staff : SUBSET Tasks,
                      ids : SUBSET (Telegrams \cup Emails), troubled : BOOLEAN, codes : 0 .. MaxCodes]

VARIABLES
  users,   \* rows of users, with what other tables hold for each
  codes,   \* rows of account_link_codes; a deleted one is "gone"
  task,    \* what each worker runs
  tokens,  \* rows somebody holds a web token of
  linked,  \* the row each Telegram id was last told it is linked to, or 0 (history)
  twice,   \* rows that had two usable codes at once (history)
  spared,  \* rows whose wallet or seed failed or was cut short (history)
  plan, mishaps

accountVars == <<users, codes, task, tokens, linked, twice, spared, plan, mishaps>>
tables  == <<users, codes>>
history == <<linked, twice, spared>>
limits  == <<plan, mishaps>>

Rows  == DOMAIN users
Idler == [op |-> "none", at |-> "none", row |-> 0, tg |-> NoOne, email |-> NoOne,
          code |-> 0, dup |-> 0, todo |-> << >>]

AccountsTypeOK ==
  /\ users \in Seq([tg : Telegrams \cup {NoOne}, email : Emails \cup {NoOne, Merged},
                    merged : 0 .. MaxRows, has : SUBSET Pieces])
  /\ codes \in Seq([row : Rows, state : {"fresh", "expired", "used", "gone"}])
  /\ task \in [Tasks -> [op : Ops \cup {"none"}, at : Places, row : Rows \cup {0},
                         tg : Telegrams \cup {NoOne}, email : Emails \cup {NoOne},
                         code : DOMAIN codes \cup {0}, dup : Rows \cup {0}, todo : Seq(Pieces)]]
  /\ linked \in [Telegrams -> Rows \cup {0}]
  /\ tokens \cup twice \cup spared \subseteq Rows
  /\ plan \in Plans /\ mishaps \in 0 .. AccountFaults

AccountsInit ==
  /\ users = << >> /\ codes = << >>
  /\ task = [w \in Tasks |-> Idler]
  /\ tokens = {} /\ linked = [t \in Telegrams |-> 0] /\ twice = {} /\ spared = {}
  /\ plan \in Plans /\ mishaps = 0

-----------------------------------------------------------------------------
(* Tasks.                                                                  *)

OfTelegram(t) == {r \in Rows : users[r].tg = t}
OfEmail(e)    == {r \in Rows : users[r].email = e}
The(S)        == CHOOSE r \in S : TRUE

\* A polling bot handles one update at a time; with a webhook each is a request.
MayRun(w) ==
  /\ task[w] = Idler /\ w \in plan.staff
  /\ w \in BotTasks /\ plan.serial => \A b \in BotTasks : task[b] = Idler

Begin(w, new) ==
  /\ MayRun(w) /\ new.op \in plan.ops /\ {new.tg, new.email} \subseteq plan.ids \cup {NoOne}
  /\ task' = [task EXCEPT ![w] = new]
  /\ UNCHANGED <<tables, tokens, history, limits>>

IsAt(w, place)  == task[w].at = place
Then(w, place)  == task' = [task EXCEPT ![w].at = place]
Finish(w)       == task' = [task EXCEPT ![w] = Idler]
Raises(w)       == Finish(w) /\ UNCHANGED <<tables, tokens, history, limits>>

\* The row is written; what belongs to it comes after the commit.
Added(w, row, todo) ==
  /\ Len(users) < MaxRows /\ users' = Append(users, row)
  /\ task' = [task EXCEPT ![w].at = "provide", ![w].row = Len(users) + 1, ![w].todo = todo]

-----------------------------------------------------------------------------
(* users.upsert_user, from the bot and from authenticate_telegram.         *)

Upsert(w, t) == Begin(w, [Idler EXCEPT !.op = "upsert", !.at = "find", !.tg = t])

\* Mutant of Bootstrap: the seed comes before the wallet it is put in.
Bootstrap_SeedFirst == <<"seed", "wallet", "defaults", "feed">>
\* _bootstrap_new_user.
Bootstrap == <<"wallet", "seed", "defaults", "feed">>

FindTelegram(w) ==
  /\ IsAt(w, "find")
  /\ LET found == OfTelegram(task[w].tg) IN
       IF found = {} THEN Then(w, "insert")
       ELSE task' = [task EXCEPT ![w].at = "provide", ![w].row = The(found), ![w].todo = <<"feed">>]
  /\ UNCHANGED <<tables, tokens, history, limits>>

\* The row and its settings in one transaction.
InsertTelegram(w) ==
  /\ IsAt(w, "insert") /\ OfTelegram(task[w].tg) = {}
  /\ Added(w, [tg |-> task[w].tg, email |-> NoOne, merged |-> 0, has |-> {"settings"}],
           Append(Bootstrap, "feed"))
  /\ UNCHANGED <<codes, tokens, history, limits>>

\* UNIQUE (telegram_user_id): another task was first.
InsertTelegramTaken(w) == IsAt(w, "insert") /\ OfTelegram(task[w].tg) # {} /\ Raises(w)

-----------------------------------------------------------------------------
(* auth.register_email.                                                    *)

Register(w, e) == Begin(w, [Idler EXCEPT !.op = "register", !.at = "look", !.email = e])

LookForEmail(w) ==
  /\ IsAt(w, "look")
  /\ IF OfEmail(task[w].email) = {} THEN Then(w, "insertEmail") ELSE Finish(w)
  /\ UNCHANGED <<tables, tokens, history, limits>>

InsertEmail(w) ==
  /\ IsAt(w, "insertEmail") /\ OfEmail(task[w].email) = {}
  /\ Added(w, [tg |-> NoOne, email |-> task[w].email, merged |-> 0, has |-> {}],
           <<"settings">> \o Bootstrap)
  /\ UNCHANGED <<codes, tokens, history, limits>>

\* users_email_unique: another task was first.
InsertEmailTaken(w) == IsAt(w, "insertEmail") /\ OfEmail(task[w].email) # {} /\ Raises(w)

-----------------------------------------------------------------------------
(* What belongs to a row, one statement after the other.                   *)

\* After the last one the web page gets its token.
Provided(w) ==
  LET rest == Tail(task[w].todo) IN
  IF rest # << >>
  THEN task' = [task EXCEPT ![w].todo = rest] /\ UNCHANGED tokens
  ELSE /\ Finish(w)
       /\ tokens' = tokens \cup (IF w \in WebTasks THEN {task[w].row} ELSE {})

Put(w, piece, needs) ==
  /\ IsAt(w, "provide") /\ Head(task[w].todo) = piece
  /\ users' = [users EXCEPT ![task[w].row].has = IF needs \subseteq @ THEN @ \cup {piece} ELSE @]
  /\ Provided(w)
  /\ UNCHANGED <<codes, history, limits>>

PutSettings(w) == Put(w, "settings", {})
PutWallet(w)   == Put(w, "wallet", {})
\* seed_paper_capital has no effect while there is no wallet.
PutSeed(w)     == Put(w, "seed", {"wallet"})
\* An UPDATE of the settings.
PutDefaults(w) == Put(w, "defaults", {"settings"})
\* _enroll_signal_following.
PutFeed(w)     == Put(w, "feed", {})

\* Each failure of the bootstrap is logged; the settings of register_email
\* raise.
ProvideFails(w) ==
  /\ IsAt(w, "provide") /\ plan.troubled
  /\ mishaps < AccountFaults /\ mishaps' = mishaps + 1
  /\ IF Head(task[w].todo) = "settings" THEN Finish(w) /\ UNCHANGED tokens ELSE Provided(w)
  /\ spared' = IF Head(task[w].todo) \in {"settings", "wallet", "seed"}
               THEN spared \cup {task[w].row} ELSE spared
  /\ UNCHANGED <<tables, linked, twice, plan>>

-----------------------------------------------------------------------------
(* auth.login_email and link_email.                                        *)

Login(w, e) ==
  /\ MayRun(w) /\ w \in WebTasks /\ "login" \in plan.ops
  /\ tokens' = tokens \cup OfEmail(e) /\ tokens # tokens'
  /\ UNCHANGED <<tables, task, history, limits>>

LinkEmail(w, r, e) ==
  /\ r \in tokens
  /\ Begin(w, [Idler EXCEPT !.op = "linkEmail", !.at = "conflict", !.row = r, !.email = e])

EmailConflict(w) ==
  /\ IsAt(w, "conflict")
  /\ IF OfEmail(task[w].email) \subseteq {task[w].row} THEN Then(w, "own") ELSE Finish(w)
  /\ UNCHANGED <<tables, tokens, history, limits>>

OwnEmail(w) ==
  /\ IsAt(w, "own")
  /\ IF users[task[w].row].email = NoOne THEN Then(w, "putEmail") ELSE Finish(w)
  /\ UNCHANGED <<tables, tokens, history, limits>>

PutEmail(w) ==
  /\ IsAt(w, "putEmail") /\ OfEmail(task[w].email) \subseteq {task[w].row}
  /\ users' = [users EXCEPT ![task[w].row].email = task[w].email]
  /\ Finish(w) /\ UNCHANGED <<codes, tokens, history, limits>>

PutEmailTaken(w) ==
  IsAt(w, "putEmail") /\ ~(OfEmail(task[w].email) \subseteq {task[w].row}) /\ Raises(w)

-----------------------------------------------------------------------------
(* account_link.generate_link_code: three statements of their own.         *)

Generate(w, r) ==
  /\ r \in tokens
  /\ Begin(w, [Idler EXCEPT !.op = "generate", !.at = "linked", !.row = r])

LinkedAlready(w) ==
  /\ IsAt(w, "linked")
  /\ IF users[task[w].row].tg = NoOne THEN Then(w, "drop") ELSE Finish(w)
  /\ UNCHANGED <<tables, tokens, history, limits>>

\* The row lock that a redemption holds from its first SELECT to its commit.
Locked(c) == \E w \in Tasks : task[w].code = c /\ task[w].at # "code"
Usable(c) == codes[c].state \in {"fresh", "expired"}
OfRow(r)  == {c \in DOMAIN codes : codes[c].row = r /\ Usable(c)}

DropCodes(w) ==
  /\ IsAt(w, "drop") /\ \A c \in OfRow(task[w].row) : ~Locked(c)
  /\ codes' = [c \in DOMAIN codes |->
                 IF c \in OfRow(task[w].row) THEN [codes[c] EXCEPT !.state = "gone"] ELSE codes[c]]
  /\ Then(w, "mint")
  /\ UNCHANGED <<users, tokens, history, limits>>

Mint(w) ==
  /\ IsAt(w, "mint") /\ Len(codes) < plan.codes
  /\ codes' = Append(codes, [row |-> task[w].row, state |-> "fresh"])
  /\ twice' = IF OfRow(task[w].row) # {} THEN twice \cup {task[w].row} ELSE twice
  /\ Finish(w)
  /\ UNCHANGED <<users, tokens, linked, spared, limits>>

Expire(c) ==
  /\ c \in DOMAIN codes /\ codes[c].state = "fresh" /\ ~Locked(c)
  /\ codes' = [codes EXCEPT ![c].state = "expired"]
  /\ UNCHANGED <<users, task, tokens, history, limits>>

-----------------------------------------------------------------------------
(* account_link.redeem_link_code: one transaction, whose reads see what    *)
(* others have committed.                                                  *)

Redeem(w, c, t) ==
  /\ c \in DOMAIN codes
  /\ Begin(w, [Idler EXCEPT !.op = "redeem", !.at = "code", !.code = c, !.tg = t])

\* SELECT ... FOR UPDATE.
ReadCode(w) ==
  /\ IsAt(w, "code") /\ ~Locked(task[w].code)
  /\ IF codes[task[w].code].state = "fresh"
     THEN task' = [task EXCEPT ![w].at = "primary", ![w].row = codes[task[w].code].row]
     ELSE Finish(w)
  /\ UNCHANGED <<tables, tokens, history, limits>>

Consumed(w) == codes' = [codes EXCEPT ![task[w].code].state = "used"]
Told(w)     == linked' = [linked EXCEPT ![task[w].tg] = task[w].row]

\* OK_ALREADY
Already(w) == Consumed(w) /\ Told(w) /\ Finish(w)
Proceed(w, place) == Then(w, place) /\ UNCHANGED <<codes, linked>>
Refuse(w)  == Finish(w) /\ UNCHANGED <<codes, linked>>

\* Mutant of ReadPrimary: the account may have another Telegram.
ReadPrimary_Trusting(w) ==
  /\ IsAt(w, "primary")
  /\ IF users[task[w].row].tg = task[w].tg THEN Already(w) ELSE Proceed(w, "dup")
  /\ UNCHANGED <<users, tokens, twice, spared, limits>>
ReadPrimary(w) ==
  /\ IsAt(w, "primary")
  /\ CASE users[task[w].row].tg = NoOne      -> Proceed(w, "dup")
       [] users[task[w].row].tg = task[w].tg -> Already(w)
       [] OTHER                              -> Refuse(w)
  /\ UNCHANGED <<users, tokens, twice, spared, limits>>

\* The duplicate, and whether it is fresh.
ReadDuplicate(w) ==
  /\ IsAt(w, "dup")
  /\ LET dup == OfTelegram(task[w].tg) IN
       CASE dup = {task[w].row} -> Already(w)
         [] dup = {}            -> Proceed(w, "attach")
         [] OTHER               -> /\ task' = [task EXCEPT ![w].at = "fresh", ![w].dup = The(dup)]
                                   /\ UNCHANGED <<codes, linked>>
  /\ UNCHANGED <<users, tokens, twice, spared, limits>>

IsFresh(w) ==
  /\ IsAt(w, "fresh")
  /\ IF "history" \in users[task[w].dup].has THEN Finish(w) ELSE Then(w, "attach")
  /\ UNCHANGED <<tables, tokens, history, limits>>

\* The rows as the transaction leaves them: COALESCE keeps an email the
\* duplicate has.
Unified(w) ==
  [r \in Rows |->
     IF r = task[w].row THEN [users[r] EXCEPT !.tg = task[w].tg]
     ELSE IF r = task[w].dup
     THEN [users[r] EXCEPT !.tg = NoOne, !.merged = task[w].row,
                           !.email = IF @ = NoOne THEN Merged ELSE @]
     ELSE users[r]]

Clash(w) == \E r \in OfTelegram(task[w].tg) : r \notin {task[w].row, task[w].dup}

Attach(w) ==
  /\ IsAt(w, "attach") /\ ~Clash(w)
  /\ users' = Unified(w) /\ Consumed(w) /\ Told(w) /\ Finish(w)
  /\ UNCHANGED <<tokens, twice, spared, limits>>

AttachClashes(w) == IsAt(w, "attach") /\ Clash(w) /\ Raises(w)

-----------------------------------------------------------------------------
(* The rest of the program.                                                *)

\* A position, an order, a deposit or a withdrawal, or the switch to live:
\* nothing looks at merged_into.
TradeOn(r) ==
  /\ "trade" \in plan.ops /\ "wallet" \in users[r].has /\ "history" \notin users[r].has
  /\ users' = [users EXCEPT ![r].has = @ \cup {"history"}]
  /\ UNCHANGED <<codes, task, tokens, history, limits>>

\* The process ends and with it every task: backfill_missing_wallets, which
\* would look for rows without a wallet, has no caller.
RestartAll ==
  /\ plan.troubled /\ mishaps < AccountFaults /\ mishaps' = mishaps + 1
  /\ task' = [w \in Tasks |-> Idler]
  /\ spared' = spared \cup {task[w].row : w \in {v \in Tasks : IsAt(v, "provide")}}
  /\ UNCHANGED <<tables, tokens, linked, twice, plan>>

TaskSteps(w) ==
  \/ FindTelegram(w) \/ InsertTelegram(w) \/ InsertTelegramTaken(w)
  \/ LookForEmail(w) \/ InsertEmail(w) \/ InsertEmailTaken(w)
  \/ PutSettings(w) \/ PutWallet(w) \/ PutSeed(w) \/ PutDefaults(w) \/ PutFeed(w)
  \/ EmailConflict(w) \/ OwnEmail(w) \/ PutEmail(w) \/ PutEmailTaken(w)
  \/ LinkedAlready(w) \/ DropCodes(w) \/ Mint(w)
  \/ ReadCode(w) \/ ReadPrimary(w) \/ ReadDuplicate(w) \/ IsFresh(w)
  \/ Attach(w) \/ AttachClashes(w)

AccountsNext ==
  \/ \E w \in Tasks : TaskSteps(w) \/ ProvideFails(w)
  \/ \E w \in Tasks, t \in Telegrams : Upsert(w, t)
  \/ \E w \in WebTasks, e \in Emails : Register(w, e) \/ Login(w, e)
  \/ \E w \in WebTasks, r \in Rows, e \in Emails : LinkEmail(w, r, e)
  \/ \E w \in WebTasks, r \in Rows : Generate(w, r)
  \/ \E w \in BotTasks, c \in DOMAIN codes, t \in Telegrams : Redeem(w, c, t)
  \/ \E c \in DOMAIN codes : Expire(c)
  \/ \E r \in Rows : TradeOn(r)
  \/ RestartAll

AccountsSpec == AccountsInit /\ [][AccountsNext]_accountVars

-----------------------------------------------------------------------------
(* Correctness.                                                            *)

\* redeem_link_code: a Telegram id that was told it is linked to an account
\* still resolves to that account, whoever else uses a code of it; with a
\* webhook, unless some account had two usable codes at once, which
\* generate_link_code lets happen: then a redemption that was held up clears the
\* duplicate it once read, whoever is linked to that row by now
\* (account_link.py:213).
LinkIsKept ==
  \A t \in Telegrams :
    linked[t] # 0 /\ (plan.serial \/ twice = {}) => users[linked[t]].tg = t

\* _bootstrap_new_user: an account, however it was made and whatever it is
\* joined with meanwhile, has its paper capital or a task that will put it in
\* its wallet, unless a statement of its own failed or the process stopped.
SeedLands ==
  \A r \in Rows :
    \/ "seed" \in users[r].has \/ r \in spared
    \/ \E w \in Tasks : task[w].row = r /\ \E i \in DOMAIN task[w].todo : task[w].todo[i] = "seed"
=============================================================================
