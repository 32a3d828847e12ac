------------------------------ MODULE Accounts ------------------------------
(***************************************************************************)
(* The row of a user: how it is made (UserMiddleware), what invitations    *)
(* (referral_service.py), warnings and bans (handlers/admin.py) and lost   *)
(* trust (vip_trust_service.py) write into it, and the admins who may do   *)
(* so (admin_service.py).                                                  *)
(*                                                                         *)
(* A session holds the row of the acting user before its handler starts;   *)
(* other rows are read without a lock and locked when they are written,    *)
(* at the commit.  SQLAlchemy writes the columns that a session changed.   *)
(***************************************************************************)
EXTENDS Integers

CONSTANTS
  User,             \* Telegram ids
  Session,
  Active,           \* whose updates are looked at; the others have a row
  Subject,          \* whose standing, trust, role and referrer change
  Owner,            \* settings.OWNER_ID
  Grants,           \* the roles that the owner gives
  FullTrust,        \* the default of trust_score
  Penalty,          \* what trust is lost at a time
  MaxWarnings,      \* bound on the warnings given
  MaxLost,          \* bound on the trust lost
  Nobody            \* no value

ASSUME NobodyAssumption == Nobody \notin User \cup Session

ASSUME UserAssumption == Owner \in User /\ Active \subseteq User /\ Subject \subseteq User

ASSUME BoundsAssumption ==
  /\ Grants \subseteq {"support", "full"}
  /\ FullTrust \in Nat /\ Penalty \subseteq Nat
  /\ MaxWarnings \in Nat /\ MaxLost \in Nat

VARIABLES
  known,        \* who has a row in users
  user,         \* the rows
  role,         \* admin_users
  referral,     \* referrals: the referrer of a referee
  log,          \* admin_logs: warnings less the ones taken back
  lost,         \* history: the trust that was taken
  pardoned,     \* history: who was unbanned since their last warning
  lock,         \* who holds the lock of a row
  overwritten,  \* history: the rows that a session wrote from an old copy
  tx            \* the state of every session

tables == <<known, user, role, referral, log, lost, pardoned>>
vars == <<tables, lock, overwritten, tx>>

Row == [standing : {"active", "banned"}, warnings : Nat,
        referrer : User \cup {Nobody}, trust : 0..FullTrust]
NewRow == [standing |-> "active", warnings |-> 0, referrer |-> Nobody, trust |-> FullTrust]

Roles == {"none", "support", "full"}

Tx == [pc : {"idle", "read", "ready", "done"},
       actor : User \cup {Nobody},
       new : {"yes", "no"},           \* it has found no row
       role : Roles,                  \* the actor's, as it has read it
       has : SUBSET User,             \* the rows it has loaded
       seen : [User -> Row],          \* those rows as they were
       mine : [User -> Row],          \* and as they are in the session
       note : {"none", "warn", "unwarn", "unban", "referral", "trust"},
       about : User \cup {Nobody},    \* whose row it changes
       cost : Nat,                    \* the trust it takes
       grant : User \cup {Nobody},    \* whose role it writes
       grants : Roles]

IdleTx == [pc |-> "idle", actor |-> Nobody, new |-> "no", role |-> "none",
           has |-> {}, seen |-> [u \in User |-> NewRow], mine |-> [u \in User |-> NewRow],
           note |-> "none", about |-> Nobody, cost |-> 0,
           grant |-> Nobody, grants |-> "none"]

Init ==
  /\ known = User \ Active /\ user = [u \in User |-> NewRow]
  /\ role = [u \in User |-> "none"]
  /\ referral = [u \in User |-> Nobody]
  /\ log = [u \in User |-> 0] /\ lost = [u \in User |-> 0] /\ pardoned = {}
  /\ lock = [u \in User |-> Nobody] /\ overwritten = {}
  /\ tx = [s \in Session |-> IdleTx]

(***************************************************************************)
(* Sessions                                                                *)
(***************************************************************************)
\* The state t of a session with the row of u loaded; a row is read once.
Loaded(t, u) ==
  IF u \in t.has THEN t
  ELSE [t EXCEPT !.has = @ \cup {u}, !.seen[u] = user[u], !.mine[u] = user[u]]

Lock(s, K) ==
  /\ \A k \in K : lock[k] \in {s, Nobody}
  /\ lock' = [k \in User |-> IF k \in K THEN s ELSE lock[k]]

\* UserMiddleware reads the row, if there is one.
Receive(s, u) ==
  LET t == [IdleTx EXCEPT !.pc = "read", !.actor = u,
                          !.new = IF u \in known THEN "no" ELSE "yes"]
  IN  /\ tx[s].pc = "idle"
      /\ tx' = [tx EXCEPT ![s] = Loaded(t, u)]
      /\ UNCHANGED <<tables, lock, overwritten>>

\* UserMiddleware for a user without a row: the INSERT waits for who inserts
\* the same key, and fails when that one has committed.
Register(s) ==
  LET u == tx[s].actor
  IN  /\ tx[s].pc = "read" /\ tx[s].new = "yes"
      /\ u \notin known
      /\ Lock(s, {u})
      /\ tx' = [tx EXCEPT ![s].pc = "ready", ![s].role = role[u]]
      /\ UNCHANGED <<tables, overwritten>>

\* UserMiddleware for the others: last_active_at is written, then the role is
\* read.
TakeRow(s) ==
  LET u == tx[s].actor
  IN  /\ tx[s].pc = "read" /\ tx[s].new = "no"
      /\ Lock(s, {u})
      /\ tx' = [tx EXCEPT ![s].pc = "ready", ![s].role = role[u]]
      /\ UNCHANGED <<tables, overwritten>>

\* BanMiddleware lets the update through.
Admitted(s) ==
  LET t == tx[s]
  IN  /\ t.pc = "ready"
      /\ t.actor = Owner \/ t.role # "none" \/ t.seen[t.actor].standing = "active"

\* can_manage_settings: an admin that was found is not read again.
Manages(s) ==
  LET t == tx[s]
  IN  /\ Admitted(s)
      /\ t.actor = Owner \/ (IF t.role = "none" THEN role[t.actor] ELSE t.role) = "full"

\* The row of u in the session s, once it is loaded.
Copy(s, u) == Loaded(tx[s], u).mine[u]

\* The session goes on in the state t, with the row of u loaded and made r.
Changes(s, t, u, r, note, cost) ==
  /\ tx' = [tx EXCEPT ![s] = [Loaded(t, u) EXCEPT
              !.pc = "done", !.mine[u] = r, !.note = note, !.about = u, !.cost = cost]]
  /\ UNCHANGED <<tables, lock, overwritten>>

(***************************************************************************)
(* Invitations                                                             *)
(***************************************************************************)
\* Mutant of Unreferred: the table is not asked.
UnreferredCopy(s, u) == tx[s].seen[u].referrer = Nobody

\* cmd_start asks the copy, register_referral the table.
Unreferred(s, u) == tx[s].seen[u].referrer = Nobody /\ referral[u] = Nobody

\* /start ref_r
Start(s, r) ==
  LET u == tx[s].actor
      t == Loaded(tx[s], r)
  IN  /\ Admitted(s)
      /\ r # u /\ r \in known
      /\ t.mine[r].standing = "active"
      /\ Unreferred(s, u)
      /\ tx' = [tx EXCEPT ![s] = [t EXCEPT !.pc = "done", !.mine[u].referrer = r,
                                           !.note = "referral", !.about = u]]
      /\ UNCHANGED <<tables, lock, overwritten>>

(***************************************************************************)
(* Warnings, bans and trust                                                *)
(***************************************************************************)
\* Mutant of Warned: the third warning does not ban.
WarnedLate(c) ==
  [c EXCEPT !.warnings = @ + 1, !.standing = IF c.warnings >= 3 THEN "banned" ELSE @]

\* Mutant of Warned: a warning is not counted against who is banned.
WarnedOnce(c) ==
  IF c.standing = "banned" THEN c
  ELSE [c EXCEPT !.warnings = @ + 1, !.standing = IF c.warnings >= 2 THEN "banned" ELSE @]

Warned(c) ==
  [c EXCEPT !.warnings = @ + 1, !.standing = IF c.warnings >= 2 THEN "banned" ELSE @]

Warn(s, u) ==
  /\ Manages(s) /\ u \in known
  /\ Copy(s, u).warnings < MaxWarnings
  /\ Changes(s, tx[s], u, Warned(Copy(s, u)), "warn", 0)

\* Mutant of Warnings: warnings are taken back that nobody gave.
AnyWarnings(c) == TRUE

Warnings(c) == c.warnings > 0

Unwarn(s, u) ==
  /\ Manages(s) /\ u \in known
  /\ Warnings(Copy(s, u))
  /\ Changes(s, tx[s], u, [Copy(s, u) EXCEPT !.warnings = @ - 1], "unwarn", 0)

Ban(s, u) ==
  /\ Manages(s) /\ u \in known
  /\ Changes(s, tx[s], u, [Copy(s, u) EXCEPT !.standing = "banned"], "none", 0)

\* The warnings stay.
Unban(s, u) ==
  /\ Manages(s) /\ u \in known
  /\ Changes(s, tx[s], u, [Copy(s, u) EXCEPT !.standing = "active"], "unban", 0)

Floor(n) == IF n < 0 THEN 0 ELSE n

\* clamp_trust: the trust never rises, so only the floor matters.
Clamped(n) == Floor(n)

\* Mutant of LoseTrust: a penalty that the trust does not cover takes nothing.
LoseCovered(s, t, u, d) ==
  LET c == Loaded(t, u).mine[u]
  IN  /\ lost[u] + d <= MaxLost
      /\ Changes(s, t, u, [c EXCEPT !.trust = IF @ >= d THEN @ - d ELSE @], "trust", d)

\* adjust_trust on the row of u, in the session that goes on in the state t.
LoseTrust(s, t, u, d) ==
  LET c == Loaded(t, u).mine[u]
  IN  /\ lost[u] + d <= MaxLost
      /\ Changes(s, t, u, [c EXCEPT !.trust = Clamped(@ - d)], "trust", d)

\* handle_collector_click: flag_fraud against the member who clicks.
Flagged(s, d) == Admitted(s) /\ LoseTrust(s, tx[s], tx[s].actor, d)

\* handle_member_left: the recheck's session, which belongs to no user.
Recheck(s, u, d) ==
  /\ tx[s].pc = "idle" /\ u \in known
  /\ LoseTrust(s, IdleTx, u, d)

(***************************************************************************)
(* Admins, only for the owner                                              *)
(***************************************************************************)
\* /addadmin; the new admin must have a row.
AddAdmin(s, u, r) ==
  /\ Admitted(s) /\ tx[s].actor = Owner /\ u \in known
  /\ tx' = [tx EXCEPT ![s].pc = "done", ![s].grant = u, ![s].grants = r]
  /\ UNCHANGED <<tables, lock, overwritten>>

RemoveAdmin(s, u) ==
  /\ Admitted(s) /\ tx[s].actor = Owner /\ role[u] # "none"
  /\ tx' = [tx EXCEPT ![s].pc = "done", ![s].grant = u, ![s].grants = "none"]
  /\ UNCHANGED <<tables, lock, overwritten>>

(***************************************************************************)
(* The end of a session                                                    *)
(***************************************************************************)
Ends(s) ==
  /\ tx' = [tx EXCEPT ![s] = IdleTx]
  /\ lock' = [k \in User |-> IF lock[k] = s THEN Nobody ELSE lock[k]]

\* The rows that the flush writes.
Dirty(s) == {u \in tx[s].has : tx[s].mine[u] # tx[s].seen[u]}

\* The rows it writes that others have written since it read them.
Outdated(s) == {u \in Dirty(s) : user[u] # tx[s].seen[u]}

\* Mutant of Written: the whole row is written.
WrittenWhole(old, mine, seen) == mine

\* A column is written when the session has changed it.
Column(old, mine, seen) == IF mine # seen THEN mine ELSE old

\* The row old, once the session that has made mine of seen has written it.
Written(old, mine, seen) ==
  [standing |-> Column(old.standing, mine.standing, seen.standing),
   warnings |-> Column(old.warnings, mine.warnings, seen.warnings),
   referrer |-> Column(old.referrer, mine.referrer, seen.referrer),
   trust |-> Column(old.trust, mine.trust, seen.trust)]

\* A log of the rows that are not overwritten, once n is added for u.
Added(sum, u, n) ==
  [v \in User |-> IF v \in overwritten' THEN 0 ELSE IF v = u THEN sum[v] + n ELSE sum[v]]

\* What the session state t leaves in the logs.
Logged(t) ==
  LET u == t.about
  IN  /\ referral' = IF t.note = "referral"
                     THEN [referral EXCEPT ![u] = t.mine[u].referrer] ELSE referral
      /\ log' = Added(log, u, CASE t.note = "warn" -> 1 [] t.note = "unwarn" -> -1 [] OTHER -> 0)
      /\ lost' = Added(lost, u, t.cost)
      /\ pardoned' = (CASE t.note = "unban" -> pardoned \cup {u}
                        [] t.note = "warn" -> pardoned \ {u}
                        [] OTHER -> pardoned) \ overwritten'

Commit(s) ==
  LET t == tx[s]
  IN  /\ t.pc \in {"ready", "done"}
      /\ \A u \in Dirty(s) : lock[u] \in {s, Nobody}
      /\ known' = IF t.new = "yes" THEN known \cup {t.actor} ELSE known
      /\ user' = [u \in User |-> IF u \in Dirty(s)
                                 THEN Written(user[u], t.mine[u], t.seen[u]) ELSE user[u]]
      /\ role' = [u \in User |-> IF u = t.grant THEN t.grants ELSE role[u]]
      /\ overwritten' = overwritten \cup Outdated(s)
      /\ Logged(t)
      /\ Ends(s)

\* The INSERT fails: another session has made the row.
RegisterFails(s) ==
  LET u == tx[s].actor
  IN  /\ tx[s].pc = "read" /\ tx[s].new = "yes"
      /\ u \in known /\ lock[u] = Nobody
      /\ Ends(s)
      /\ UNCHANGED <<tables, overwritten>>

\* An exception, a crash or a deadlock.
Abort(s) ==
  /\ tx[s].pc # "idle"
  /\ Ends(s)
  /\ UNCHANGED <<tables, overwritten>>

\* The handlers that change rows, those of Subject.
Handler(s) ==
  \/ tx[s].actor \in Subject /\ \E d \in Penalty : Flagged(s, d)
  \/ tx[s].actor \in Subject /\ \E u \in User : Start(s, u)
  \/ \E u \in Subject : \/ Warn(s, u) \/ Unwarn(s, u) \/ Ban(s, u) \/ Unban(s, u)
                        \/ RemoveAdmin(s, u) \/ \E r \in Grants : AddAdmin(s, u, r)

Step(s) ==
  \/ \E u \in Active : Receive(s, u)
  \/ \E u \in Subject, d \in Penalty : Recheck(s, u, d)
  \/ Register(s) \/ RegisterFails(s) \/ TakeRow(s)
  \/ Handler(s) \/ Commit(s) \/ Abort(s)

Next == \E s \in Session : Step(s)

Spec == Init /\ [][Next]_vars

(***************************************************************************)
(* Properties                                                              *)
(***************************************************************************)

\* The tables and the sessions have the values the columns and objects allow.
TypeOK ==
  /\ known \subseteq User /\ user \in [User -> Row] /\ role \in [User -> Roles]
  /\ referral \in [User -> User \cup {Nobody}]
  /\ log \in [User -> Int] /\ lost \in [User -> Nat] /\ pardoned \subseteq User
  /\ lock \in [User -> Session \cup {Nobody}] /\ overwritten \subseteq User
  /\ tx \in [Session -> Tx]

\* Who invited a member is settled by the first /start with a link, and the row
\* of the member and the table referrals go on naming the same referrer, however
\* many /start run at a time (cmd_start, register_referral).
ReferralKept ==
  [][\A u \in User :
       /\ user'[u].referrer = referral'[u]
       /\ referral[u] # Nobody => referral'[u] = referral[u]]_vars

\* The warnings of a user are those that were given less those that were taken
\* back, unless a session has written the row from a copy that another had made
\* outdated (cmd_warn, cmd_unwarn).
WarningsLoggedUnlessOverwritten == \A u \in User \ overwritten : user[u].warnings = log[u]

\* A user with three warnings is banned, unless an admin has lifted the ban
\* since the last one, or the row was overwritten (cmd_warn).
BannedAtThreeUnlessOverwritten ==
  \A u \in User \ (overwritten \cup pardoned) :
    user[u].warnings >= 3 => user[u].standing = "banned"

\* The trust of a user is what the penalties leave of it, unless the row was
\* overwritten (clamp_trust).
TrustExactUnlessOverwritten ==
  \A u \in User \ overwritten : user[u].trust = Floor(FullTrust - lost[u])

\* Only /unban lifts a ban: no session that has read the row before the ban
\* and writes it after puts the old standing back.
BansLiftedByUnban ==
  [][\A u \in User :
       user[u].standing = "banned" /\ user'[u].standing = "active"
         => \E s \in Session : tx[s].note = "unban" /\ tx[s].about = u]_vars
=============================================================================
