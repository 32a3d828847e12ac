----------------------------- MODULE Broadcasts -----------------------------
(***************************************************************************)
(* Broadcasts (handlers/admin.py, broadcast_tasks.py): an admin is asked   *)
(* for a text, and the next message of the admin goes to whoever is not    *)
(* banned, in the session of that message and with the admin's row locked. *)
(* Bans and roles change as in Accounts.                                   *)
(*                                                                         *)
(* Which text is awaited is read from Redis before the session has any     *)
(* lock; the job and its count are written by the commit.                  *)
(***************************************************************************)
EXTENDS Integers, FiniteSets

CONSTANTS
  User,         \* Telegram ids, all with a row
  Active,       \* those whose updates, roles and bans are looked at
  Session,
  Job,          \* the ids that broadcast_jobs gives out
  Nobody        \* no value

ASSUME NobodyAssumption == Nobody \notin User \cup Session \cup Job

ASSUME UserAssumption == IsFiniteSet(User) /\ Active \subseteq User

VARIABLES
  banned,       \* users.is_banned
  manager,      \* who can_manage_settings
  awaiting,     \* Redis: who was asked for a text
  job,          \* broadcast_jobs
  got,          \* Telegram: who was sent the text of a job
  told,         \* the reports of finished jobs that admins were shown
  credit,       \* history: the questions to an admin less the texts sent on them
  lock,         \* who holds the lock of a user's row
  shared,       \* history: the users that were in two sessions at a time
  tx            \* the state of every session

accounts == <<banned, manager>>
outside == <<awaiting, got, told, credit>>
vars == <<accounts, outside, job, lock, shared, tx>>

Jobs == [by : User \cup {Nobody}, sent : Nat]
NoJob == [by |-> Nobody, sent |-> 0]

Report == [job : Job, sent : Nat, failed : Nat, total : Nat]

Answer == {"yes", "no"}

Tx == [pc : {"idle", "read", "ready", "sending", "done"},
       actor : User \cup {Nobody},
       asked : Answer,               \* the state that chooses the handler
       barred : Answer,              \* is_banned, as the row was read
       manages : Answer,             \* the role, as it was read
       job : Job \cup {Nobody},
       todo : SUBSET User,           \* recipients it has not come to
       sent : Nat, failed : Nat,     \* send_broadcast_now: sent and failed
       total : Nat]                  \* ... and len(user_ids)
IdleTx == [pc |-> "idle", actor |-> Nobody, asked |-> "no", barred |-> "no", manages |-> "no",
           job |-> Nobody, todo |-> {}, sent |-> 0, failed |-> 0, total |-> 0]

Init ==
  /\ banned = {} /\ manager = {}
  /\ awaiting = {} /\ got = [j \in Job |-> {}] /\ told = {} /\ credit = [u \in User |-> 0]
  /\ job = [j \in Job |-> NoJob]
  /\ lock = [u \in User |-> Nobody] /\ shared = {}
  /\ tx = [s \in Session |-> IdleTx]

(***************************************************************************)
(* Sessions                                                                *)
(***************************************************************************)
YesIf(p) == IF p THEN "yes" ELSE "no"

\* The dispatcher reads the state, UserMiddleware the row.
Receive(s, u) ==
  /\ tx[s].pc = "idle"
  /\ tx' = [tx EXCEPT ![s] = [IdleTx EXCEPT !.pc = "read", !.actor = u,
              !.asked = YesIf(u \in awaiting), !.barred = YesIf(u \in banned)]]
  /\ shared' = IF \E t \in Session : tx[t].actor = u THEN shared \cup {u} ELSE shared
  /\ UNCHANGED <<accounts, outside, job, lock>>

\* UserMiddleware writes last_active_at, then reads the role.
TakeRow(s) ==
  LET u == tx[s].actor
  IN  /\ tx[s].pc = "read"
      /\ lock[u] = Nobody
      /\ lock' = [lock EXCEPT ![u] = s]
      /\ tx' = [tx EXCEPT ![s].pc = "ready", ![s].manages = YesIf(u \in manager)]
      /\ UNCHANGED <<accounts, outside, job, shared>>

\* BanMiddleware lets the update through.
Admitted(s) == tx[s].pc = "ready" /\ (tx[s].manages = "yes" \/ tx[s].barred = "no")

\* can_manage_settings: a role that was not found is read again.
Manages(s) == Admitted(s) /\ (tx[s].manages = "yes" \/ tx[s].actor \in manager)

(***************************************************************************)
(* The handlers                                                            *)
(***************************************************************************)
\* The button "broadcast".
Ask(s) ==
  LET u == tx[s].actor
  IN  /\ Manages(s)
      /\ awaiting' = awaiting \cup {u}
      /\ credit' = [credit EXCEPT ![u] = 1]
      /\ tx' = [tx EXCEPT ![s].pc = "done"]
      /\ UNCHANGED <<accounts, got, told, job, lock, shared>>

\* "cancel", or another dialog.
Leave(s) ==
  LET u == tx[s].actor
  IN  /\ Admitted(s)
      /\ awaiting' = awaiting \ {u}
      /\ credit' = [credit EXCEPT ![u] = IF u \in awaiting THEN 0 ELSE @]
      /\ tx' = [tx EXCEPT ![s].pc = "done"]
      /\ UNCHANGED <<accounts, got, told, job, lock, shared>>

\* Mutant of Cleared: the state is left as it is.
NotCleared(u) == awaiting

Cleared(u) == awaiting \ {u}

\* broadcast_jobs has not given out the id yet.
Fresh(j) ==
  /\ job[j] = NoJob /\ got[j] = {} /\ \A t \in Session : tx[t].job # j
  /\ \A r \in told : r.job # j

\* The next message of who was asked, whatever it says and whoever they are now.
Text(s, j) ==
  LET u == tx[s].actor
  IN  /\ Admitted(s) /\ tx[s].asked = "yes" /\ Fresh(j)
      /\ awaiting' = Cleared(u)
      /\ credit' = [credit EXCEPT ![u] = @ - 1]
      /\ tx' = [tx EXCEPT ![s].pc = "sending", ![s].job = j, ![s].todo = User \ banned,
                        ![s].total = Cardinality(User \ banned)]
      /\ UNCHANGED <<accounts, got, told, job, lock, shared>>

\* Mutant of Left: the first to be sent the text stays on the list.
LeftTwice(t, v) == IF t.sent = 0 THEN t.todo ELSE t.todo \ {v}

\* Who is left when v was tried.
Left(t, v) == t.todo \ {v}

\* Mutant of Failed: a failure is also taken off the successes.
FailedTaken(t, v) ==
  [t EXCEPT !.todo = Left(t, v), !.sent = @ - 1, !.failed = @ + 1]

\* What the session has counted once v was sent the text, and once the call
\* raised: no exception is one of the session, it goes on with the next user.
Sent(t, v) == [t EXCEPT !.todo = Left(t, v), !.sent = @ + 1]
Failed(t, v) == [t EXCEPT !.todo = Left(t, v), !.failed = @ + 1]
Skipped(t, v) == [t EXCEPT !.todo = Left(t, v)]

\* The users of R are sent the text, and the session goes on as t.
Delivers(s, R, t) ==
  /\ got' = [got EXCEPT ![tx[s].job] = @ \cup R]
  /\ tx' = [tx EXCEPT ![s] = t]
  /\ UNCHANGED <<accounts, awaiting, told, credit, job, lock, shared>>

Sending(s, v) == tx[s].pc = "sending" /\ v \in tx[s].todo

Send(s, v) == Sending(s, v) /\ Delivers(s, {v}, Sent(tx[s], v))

\* TelegramForbiddenError, or any other exception: also a timeout of a call that
\* Telegram has carried out.
SendFails(s, v) ==
  /\ Sending(s, v)
  /\ \E R \in {{}, {v}} : Delivers(s, R, Failed(tx[s], v))

\* TelegramRetryAfter: the bot waits and goes on with the next user.
SendSkipped(s, v) == Sending(s, v) /\ Delivers(s, {}, Skipped(tx[s], v))

ReportOf(t) == [job |-> t.job, sent |-> t.sent, failed |-> t.failed, total |-> t.total]

\* The job is flushed and the admin told.
Tell(s) ==
  /\ tx[s].pc = "sending" /\ tx[s].todo = {}
  /\ told' = told \cup {ReportOf(tx[s])}
  /\ tx' = [tx EXCEPT ![s].pc = "done"]
  /\ UNCHANGED <<accounts, awaiting, got, credit, job, lock, shared>>

(***************************************************************************)
(* The end of a session                                                    *)
(***************************************************************************)
\* Mutant of Freed: the session is not closed.
KeptOpen(s) == lock

Freed(s) == [u \in User |-> IF lock[u] = s THEN Nobody ELSE lock[u]]

Ends(s) ==
  /\ tx' = [tx EXCEPT ![s] = IdleTx]
  /\ lock' = Freed(s)
  /\ UNCHANGED <<accounts, outside, shared>>

Commit(s) ==
  /\ tx[s].pc \in {"ready", "done"}
  /\ job' = [j \in Job |-> IF j = tx[s].job
                           THEN [by |-> tx[s].actor, sent |-> tx[s].sent] ELSE job[j]]
  /\ Ends(s)

\* An exception or a crash: what was sent stays sent, and Redis as it is.
Abort(s) ==
  /\ tx[s].pc # "idle"
  /\ Ends(s)
  /\ UNCHANGED job

\* Another admin bans u or lifts the ban, which needs the row.
Moderate(u) ==
  /\ lock[u] = Nobody
  /\ banned' = IF u \in banned THEN banned \ {u} ELSE banned \cup {u}
  /\ UNCHANGED <<manager, outside, job, lock, shared, tx>>

\* The owner makes u an admin or no longer one.
Appoint(u) ==
  /\ manager' = IF u \in manager THEN manager \ {u} ELSE manager \cup {u}
  /\ UNCHANGED <<banned, outside, job, lock, shared, tx>>

Handler(s) == Ask(s) \/ Leave(s) \/ \E j \in Job : Text(s, j)

\* A session that has begun goes on.
Proceed(s) ==
  \/ TakeRow(s)
  \/ \E v \in User : Send(s, v) \/ SendFails(s, v) \/ SendSkipped(s, v)
  \/ Tell(s) \/ Commit(s)

Next ==
  \/ \E s \in Session : \/ \E u \in Active : Receive(s, u)
                        \/ Handler(s) \/ Proceed(s) \/ Abort(s)
  \/ \E u \in Active : Moderate(u) \/ Appoint(u)

Spec == Init /\ [][Next]_vars

\* A session runs on, and gets a row that is free again and again.
FairSpec == Spec /\ \A s \in Session : SF_vars(Proceed(s))

(***************************************************************************)
(* Properties                                                              *)
(***************************************************************************)

\* The tables and the sessions have the values the columns and objects allow.
TypeOK ==
  /\ banned \subseteq User /\ manager \subseteq User
  /\ awaiting \subseteq User /\ got \in [Job -> SUBSET User] /\ told \subseteq Report
  /\ credit \in [User -> Int]
  /\ job \in [Job -> Jobs]
  /\ lock \in [User -> Session \cup {Nobody}] /\ shared \subseteq User
  /\ tx \in [Session -> Tx]

\* The report of a broadcast claims no one it has not reached and no one twice;
\* whom it has reached without knowing it is among the failures; and it counts
\* nobody beyond its recipients.  The job has the count that was reported
\* (send_broadcast_now).
BroadcastReport ==
  /\ \A r \in told : /\ r.sent <= Cardinality(got[r.job])
                     /\ Cardinality(got[r.job]) <= r.sent + r.failed
                     /\ r.sent + r.failed <= r.total
  /\ \A j \in Job : job[j] # NoJob => \E r \in told : r.job = j /\ r.sent = job[j].sent

\* The button is good for one broadcast: no two messages of an admin who was
\* never in two sessions at a time go out on one question
\* (admin_broadcast_text).
OneTextPerAskUnlessShared == \A u \in User \ shared : credit[u] >= 0

\* Whoever writes to the bot is answered in the end: no session waits for ever
\* behind the broadcast of another one.
UpdatesHandled == \A s \in Session : tx[s].pc # "idle" ~> tx[s].pc = "idle"
=============================================================================
