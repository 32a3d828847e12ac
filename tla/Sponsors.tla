------------------------------ MODULE Sponsors ------------------------------
(***************************************************************************)
(* Sponsor channels (force_sub_service.py): a user's messages reach no     *)
(* handler until they are a member of every active sponsor channel, the    *)
(* gate records their joins, and leaving a channel soon costs a penalty.   *)
(*                                                                         *)
(* Every update is handled in a session of its own, which holds the row of *)
(* the user who caused it (UserMiddleware).  That is the user who wrote    *)
(* the message or left, but the administrator of the channel if a member   *)
(* was removed.  Members are asked for at Telegram, when they are needed.  *)
(***************************************************************************)
EXTENDS Integers, FiniteSets

CONSTANTS
  User, Session,
  Sponsor,          \* the channels that may be made obligatory
  Join,             \* the ids the table force_sub_joins may give out
  Admin,            \* admins of the bot, whom the gate lets pass
  Keeper,           \* administrators of the channels, who may remove members
  Nobody            \* no row

Rows == User \cup Sponsor \cup Join

ASSUME RowAssumption ==
  /\ Nobody \notin Rows \cup Session \cup (Sponsor \X User)
  /\ User \cap Sponsor = {} /\ User \cap Join = {} /\ Sponsor \cap Join = {}
  /\ Admin \subseteq User /\ Keeper \subseteq User

VARIABLES
  sponsor,      \* force_sub_channels: absent, on or off
  join,         \* force_sub_joins
  fines,        \* history: how often the user was charged for leaving
  member,       \* who is in each channel
  events,       \* updates of leaves not received yet: <<channel, user, by whom>>
  missed,       \* history: leaves whose update was lost or caused by another user
  lock,         \* who holds the lock of a row
  overwritten,  \* history: the joins that were ended twice, from an old copy
  tx            \* the state of every session

tables == <<sponsor, join, fines>>
telegram == <<member, events>>
vars == <<tables, telegram, missed, lock, overwritten, tx>>

Row == [status : {"absent", "open", "left"}, user : User \cup {Nobody},
        channel : Sponsor \cup {Nobody}, early : BOOLEAN, penalized : BOOLEAN]
NoRow == [status |-> "absent", user |-> Nobody, channel |-> Nobody,
          early |-> FALSE, penalized |-> FALSE]

Tx == [pc : {"idle", "read", "ready", "gate", "left", "done"},
       actor : User \cup {Nobody},
       leave : (Sponsor \X User) \cup {Nobody},     \* the leave it handles
       todo : SUBSET Sponsor,           \* channels the gate has still to ask for
       new : [Join -> Row],             \* the joins it has recorded
       item : Join \cup {Nobody},       \* the join that is over
       fine : BOOLEAN,                  \* the user is charged for that
       switch : [Sponsor -> {"absent", "on", "off"}]]   \* channels it changed

IdleTx == [pc |-> "idle", actor |-> Nobody, leave |-> Nobody, todo |-> {},
           new |-> [j \in Join |-> NoRow], item |-> Nobody, fine |-> FALSE,
           switch |-> [c \in Sponsor |-> "absent"]]

Init ==
  /\ sponsor = [c \in Sponsor |-> "absent"]
  /\ join = [j \in Join |-> NoRow]
  /\ fines = [j \in Join |-> 0]
  /\ member = [c \in Sponsor |-> {}]
  /\ events = {} /\ missed = {}
  /\ lock = [k \in Rows |-> Nobody]
  /\ overwritten = {}
  /\ tx = [s \in Session |-> IdleTx]

(***************************************************************************)
(* Telegram and time                                                       *)
(***************************************************************************)
\* Admins are never asked for: their joins and leaves change nothing here.
Enter(c, u) ==
  /\ u \notin member[c] \cup Admin
  /\ member' = [member EXCEPT ![c] = @ \cup {u}]
  /\ UNCHANGED <<tables, events, missed, lock, overwritten, tx>>

\* u leaves, or is removed by b.
Leave(c, u, b) ==
  /\ u \in member[c]
  /\ b = u \/ b \in Keeper
  /\ member' = [member EXCEPT ![c] = @ \ {u}]
  /\ events' = events \cup {<<c, u, b>>}
  /\ missed' = IF b = u THEN missed ELSE missed \cup {<<c, u>>}
  /\ UNCHANGED <<tables, lock, overwritten, tx>>

\* delete_webhook(drop_pending_updates=True) when the bot starts again.
DropPendingUpdates ==
  /\ events # {}
  /\ events' = {}
  /\ missed' = missed \cup {<<e[1], e[2]>> : e \in events}
  /\ UNCHANGED <<tables, member, lock, overwritten, tx>>

\* leave_penalty_days have passed.
JoinAges(j) ==
  /\ join[j].status = "open" /\ join[j].early
  /\ join' = [join EXCEPT ![j].early = FALSE]
  /\ UNCHANGED <<sponsor, fines, telegram, missed, lock, overwritten, tx>>

(***************************************************************************)
(* Sessions                                                                *)
(***************************************************************************)
\* Take the locks of the rows of K, or wait for who holds one of them.
Lock(s, K) ==
  /\ \A k \in K : lock[k] \in {s, Nobody}
  /\ lock' = [k \in Rows |-> IF k \in K THEN s ELSE lock[k]]

Goes(s, t) == tx' = [tx EXCEPT ![s] = t]

\* UserMiddleware: read the user who sent a message or pressed a button ...
Receive(s, u) ==
  /\ tx[s].pc = "idle"
  /\ Goes(s, [IdleTx EXCEPT !.pc = "read", !.actor = u])
  /\ UNCHANGED <<tables, telegram, missed, lock, overwritten>>

\* ... or caused the update of a leave ...
ReceiveLeave(s, e) ==
  /\ tx[s].pc = "idle"
  /\ events' = events \ {e}
  /\ Goes(s, [IdleTx EXCEPT !.pc = "read", !.actor = e[3], !.leave = <<e[1], e[2]>>])
  /\ UNCHANGED <<tables, member, missed, lock, overwritten>>

\* Mutant of OwnRow: last_active_at is not written before the gate.
NoOwnRow(s) == {}

OwnRow(s) == {tx[s].actor}

\* ... and write last_active_at.
TakeRow(s) ==
  /\ tx[s].pc = "read"
  /\ Lock(s, OwnRow(s))
  /\ Goes(s, [tx[s] EXCEPT !.pc = "ready"])
  /\ UNCHANGED <<tables, telegram, missed, overwritten>>

(***************************************************************************)
(* The gate                                                                *)
(***************************************************************************)
\* Mutant of OpenJoin: no open join is found.
NoJoin(c, u) == {}

\* The open joins that a query finds.
OpenJoin(c, u) ==
  {j \in Join : join[j].status = "open" /\ join[j].channel = c /\ join[j].user = u}

\* ForceSubMiddleware: get_active_channels, for who is no admin.
GateStart(s) ==
  /\ tx[s].pc = "ready" /\ tx[s].leave = Nobody /\ tx[s].actor \notin Admin
  /\ Goes(s, [tx[s] EXCEPT !.pc = "gate", !.todo = {c \in Sponsor : sponsor[c] = "on"}])
  /\ UNCHANGED <<tables, telegram, missed, lock, overwritten>>

\* Mutant of Recorded: the columns are exchanged.
RecordedSwapped(c, u) ==
  [status |-> "open", user |-> c, channel |-> u, early |-> TRUE, penalized |-> FALSE]

Recorded(c, u) ==
  [status |-> "open", user |-> u, channel |-> c, early |-> TRUE, penalized |-> FALSE]

\* get_missing_channels, for one channel: a member's join is recorded ...
GateMember(s, c, j) ==
  LET u == tx[s].actor
  IN  /\ tx[s].pc = "gate" /\ c \in tx[s].todo
      /\ u \in member[c]
      /\ OpenJoin(c, u) = {}
      /\ join[j].status = "absent" /\ lock[j] = Nobody     \* a new id
      /\ Lock(s, {j})
      /\ Goes(s, [tx[s] EXCEPT !.todo = @ \ {c}, !.new[j] = Recorded(c, u)])
      /\ UNCHANGED <<tables, telegram, missed, overwritten>>

\* ... unless it is already; who is no member, or cannot be asked for, is told
\* that the channel is missing.
GateOther(s, c) ==
  /\ tx[s].pc = "gate" /\ c \in tx[s].todo
  /\ Cardinality(OpenJoin(c, tx[s].actor)) <= 1
  /\ Goes(s, [tx[s] EXCEPT !.todo = @ \ {c}])
  /\ UNCHANGED <<tables, telegram, missed, lock, overwritten>>

\* The list of the missing channels is sent, or the handler is called.
GateEnd(s) ==
  /\ tx[s].pc = "gate" /\ tx[s].todo = {}
  /\ Goes(s, [tx[s] EXCEPT !.pc = "done"])
  /\ UNCHANGED <<tables, telegram, missed, lock, overwritten>>

\* /addforcesub and /delforcesub.
Switch(s, c, to) ==
  /\ tx[s].pc = "ready" /\ tx[s].leave = Nobody /\ tx[s].actor \in Admin
  /\ to = "on" \/ sponsor[c] # "absent"
  /\ Lock(s, {c})
  /\ Goes(s, [tx[s] EXCEPT !.pc = "done", !.switch[c] = to])
  /\ UNCHANGED <<tables, telegram, missed, overwritten>>

(***************************************************************************)
(* Leaves                                                                  *)
(***************************************************************************)
\* Who leaves early is charged, once.
Charged(row) == row.early /\ ~row.penalized

\* handle_force_sub_left up to its first flush, for a channel it knows.
LeftLook(s, j) ==
  LET c == tx[s].leave[1]
      u == tx[s].leave[2]
  IN  /\ tx[s].pc = "ready" /\ tx[s].leave # Nobody
      /\ sponsor[c] # "absent" /\ OpenJoin(c, u) = {j}
      /\ Goes(s, [tx[s] EXCEPT !.pc = "left", !.item = j, !.fine = Charged(join[j])])
      /\ UNCHANGED <<tables, telegram, missed, lock, overwritten>>

\* ... and its flush of left_at, before it charges the user (see Wallets).
LeftWrite(s) ==
  /\ tx[s].pc = "left"
  /\ Lock(s, {tx[s].item})
  /\ Goes(s, [tx[s] EXCEPT !.pc = "done"])
  /\ UNCHANGED <<tables, telegram, missed, overwritten>>

\* The channel is not known, or no open join is found.
LeftNone(s) ==
  /\ tx[s].pc = "ready" /\ tx[s].leave # Nobody
  /\ sponsor[tx[s].leave[1]] = "absent" \/ OpenJoin(tx[s].leave[1], tx[s].leave[2]) = {}
  /\ Goes(s, [tx[s] EXCEPT !.pc = "done"])
  /\ UNCHANGED <<tables, telegram, missed, lock, overwritten>>

(***************************************************************************)
(* The end of a session                                                    *)
(***************************************************************************)
Ends(s) ==
  /\ Goes(s, IdleTx)
  /\ lock' = [k \in Rows |-> IF lock[k] = s THEN Nobody ELSE lock[k]]

\* Mutant of Closed: left_at is not written.
ClosedNot(row, fine) == [row EXCEPT !.penalized = @ \/ fine]

Closed(row, fine) == [row EXCEPT !.status = "left", !.penalized = @ \/ fine]

\* The join that s ends, and found open, if another session has ended it since.
Outdated(s) == {j \in Join : j = tx[s].item /\ join[j].status # "open"}

Commit(s) ==
  LET t == tx[s]
  IN  /\ t.pc = "done"
      /\ sponsor' = [c \in Sponsor |-> IF t.switch[c] = "absent" THEN sponsor[c] ELSE t.switch[c]]
      /\ join' = [j \in Join |-> IF t.new[j].status = "open" THEN t.new[j]
                                 ELSE IF j = t.item THEN Closed(join[j], t.fine)
                                 ELSE join[j]]
      /\ fines' = [j \in Join |-> IF j = t.item /\ t.fine THEN fines[j] + 1 ELSE fines[j]]
      /\ overwritten' = overwritten \cup Outdated(s)
      /\ Ends(s)
      /\ UNCHANGED <<telegram, missed>>

\* An exception, a crash, a deadlock of row locks.
Abort(s) ==
  /\ tx[s].pc # "idle"
  /\ missed' = IF tx[s].leave = Nobody THEN missed ELSE missed \cup {tx[s].leave}
  /\ Ends(s)
  /\ UNCHANGED <<tables, telegram, overwritten>>

Environment ==
  \/ \E c \in Sponsor, u \in User : Enter(c, u) \/ \E b \in User : Leave(c, u, b)
  \/ DropPendingUpdates
  \/ \E j \in Join : JoinAges(j)

Step(s) ==
  \/ \E u \in User : Receive(s, u)
  \/ \E e \in events : ReceiveLeave(s, e)
  \/ TakeRow(s)
  \/ GateStart(s)
  \/ \E c \in Sponsor : GateOther(s, c) \/ (\E j \in Join : GateMember(s, c, j))
                          \/ Switch(s, c, "on") \/ Switch(s, c, "off")
  \/ GateEnd(s)
  \/ \E j \in Join : LeftLook(s, j)
  \/ LeftWrite(s) \/ LeftNone(s) \/ Commit(s) \/ Abort(s)

Next == Environment \/ \E s \in Session : Step(s)

Spec == Init /\ [][Next]_vars

(***************************************************************************)
(* Properties                                                              *)
(***************************************************************************)

\* The tables and the sessions have the values the columns and objects allow.
TypeOK ==
  /\ sponsor \in [Sponsor -> {"absent", "on", "off"}]
  /\ join \in [Join -> Row]
  /\ fines \in [Join -> Nat]
  /\ member \in [Sponsor -> SUBSET User]
  /\ events \subseteq Sponsor \X User \X User
  /\ missed \subseteq Sponsor \X User
  /\ lock \in [Rows -> Session \cup {Nobody}]
  /\ overwritten \subseteq Join
  /\ tx \in [Session -> Tx]

\* A user has at most one open join of a channel, however many of their messages
\* are handled at a time: scalar_one_or_none, in _record_join_if_new, would raise
\* an exception for every message of the user if there were two.
OneOpenJoin ==
  \A j, k \in Join :
    /\ join[j].status = "open" /\ join[k].status = "open"
    /\ join[j].user = join[k].user /\ join[j].channel = join[k].channel
    => j = k

\* The leaves a session has received or will receive, not yet committed.
Pending(c, u) ==
  \/ \E b \in User : <<c, u, b>> \in events
  \/ \E s \in Session : tx[s].leave = <<c, u>>

\* An open join belongs to a member, or to somebody whose leave is still to be
\* handled: a leave is not handled before the join it ends is recorded, unless its
\* update is lost or caused by an administrator of the channel.
LeaversFound ==
  \A j \in Join :
    LET c == join[j].channel
        u == join[j].user
    IN  join[j].status = "open" =>
          u \in member[c] \/ Pending(c, u) \/ <<c, u>> \in missed

\* A join costs at most one penalty, and only when it is over, unless a session
\* has ended it with a copy from before another did (handle_force_sub_left,
\* join_row.penalized).
PenalisedOnceUnlessOverwritten ==
  \A j \in Join \ overwritten :
    /\ fines[j] <= (IF join[j].status = "left" THEN 1 ELSE 0)
    /\ join[j].penalized <=> fines[j] = 1
=============================================================================
