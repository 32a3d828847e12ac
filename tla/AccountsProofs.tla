--------------------------- MODULE AccountsProofs ---------------------------
(***************************************************************************)
(* What Accounts promises for any number of users and sessions.            *)
(*                                                                         *)
(* A session knows what it has changed of one row (Noted); when it writes  *)
(* the row, its copy is that of the table, or the row is overwritten.  A   *)
(* copy has at least the trust of its row, as trust only falls (Falls).    *)
(* Who holds the lock of a row from the first write on is the only one to  *)
(* write a referrer into it (Keeps).                                       *)
(***************************************************************************)
EXTENDS Accounts, TLAPS

\* What a session that changes a row has made of it, m of n.
Turned(t, m, n) ==
  /\ m.warnings = n.warnings + (CASE t.note = "warn" -> 1 [] t.note = "unwarn" -> -1 [] OTHER -> 0)
  /\ t.note = "warn" /\ m.warnings >= 3 => m.standing = "banned"
  /\ n.standing = "banned" /\ t.note # "unban" => m.standing = "banned"
  /\ m.trust = Floor(n.trust - t.cost)
  /\ m.referrer # n.referrer => t.note = "referral"
  /\ t.note = "referral" => n.referrer = Nobody /\ m.referrer # Nobody

\* A session changes the row it says, and no other.
Noted(t) ==
  /\ t.about = Nobody => t.note = "none" /\ t.cost = 0
  /\ t.about \in User => t.about \in t.has /\ Turned(t, t.mine[t.about], t.seen[t.about])
  /\ \A v \in User : v # t.about => t.mine[v] = t.seen[v]

\* Before its handler a session has loaded the actor's row and changed nothing.
Clean(t) ==
  /\ t.actor \in User /\ t.has = {t.actor}
  /\ t.about = Nobody /\ t.grant = Nobody

Phase(t) ==
  /\ t.new = "yes" => t.actor \in User
  /\ t.pc = "idle" => t = IdleTx
  /\ t.pc \in {"read", "ready"} => Clean(t)

\* The locks a session holds, and what they keep.
Keeps(s) ==
  /\ tx[s].pc = "ready" => lock[tx[s].actor] = s
  /\ tx[s].note = "referral" => lock[tx[s].about] = s /\ referral[tx[s].about] = Nobody

\* The trust of a row has not risen since a session read it.
Falls(s) == \A v \in tx[s].has : v \notin overwritten => user[v].trust <= tx[s].seen[v].trust

Sound(s) == Noted(tx[s]) /\ Phase(tx[s]) /\ Keeps(s) /\ Falls(s)

ReferralRecorded == \A u \in User : user[u].referrer = referral[u]

Inv ==
  /\ TypeOK
  /\ ReferralRecorded
  /\ WarningsLoggedUnlessOverwritten /\ BannedAtThreeUnlessOverwritten
  /\ TrustExactUnlessOverwritten
  /\ \A s \in Session : Sound(s)

(***************************************************************************)
(* Sessions and rows                                                       *)
(***************************************************************************)
LEMMA NobodyIsNoUser == Nobody \notin User /\ Nobody \notin Session
BY NobodyAssumption

LEMMA NewRowOK == NewRow \in Row
BY BoundsAssumption DEF NewRow, Row

LEMMA IdleOK == IdleTx \in Tx /\ Noted(IdleTx)
<1>1. [u \in User |-> NewRow] \in [User -> Row]
  BY NewRowOK
<1>2. IdleTx \in Tx
  BY <1>1 DEF IdleTx, Tx, Roles
<1>3. Noted(IdleTx)
  BY NobodyIsNoUser DEF Noted, IdleTx
<1> QED BY <1>2, <1>3

\* A session that loads a row: what it knew it still knows.
LEMMA LoadedFacts ==
  ASSUME TypeOK, NEW t \in Tx, NEW u \in User
  PROVE  /\ Loaded(t, u) \in Tx
         /\ Loaded(t, u).has = t.has \cup {u}
         /\ Loaded(t, u).pc = t.pc /\ Loaded(t, u).actor = t.actor
         /\ Loaded(t, u).note = t.note /\ Loaded(t, u).about = t.about
         /\ Loaded(t, u).cost = t.cost /\ Loaded(t, u).grant = t.grant
         /\ Loaded(t, u).new = t.new
         /\ \A v \in User :
              /\ Loaded(t, u).seen[v] = IF v = u /\ u \notin t.has THEN user[v] ELSE t.seen[v]
              /\ Loaded(t, u).mine[v] = IF v = u /\ u \notin t.has THEN user[v] ELSE t.mine[v]
<1>1. CASE u \in t.has
  BY <1>1 DEF Loaded
<1>2. CASE u \notin t.has
  <2>1. /\ t.seen \in [User -> Row] /\ t.mine \in [User -> Row] /\ t.has \in SUBSET User
        /\ user[u] \in Row
    BY DEF Tx, TypeOK
  <2>2. Loaded(t, u) = [t EXCEPT !.has = t.has \cup {u},
                                 !.seen = [t.seen EXCEPT ![u] = user[u]],
                                 !.mine = [t.mine EXCEPT ![u] = user[u]]]
    BY <1>2 DEF Loaded, Tx
  <2>3. /\ [t.seen EXCEPT ![u] = user[u]] \in [User -> Row]
        /\ [t.mine EXCEPT ![u] = user[u]] \in [User -> Row]
        /\ t.has \cup {u} \in SUBSET User
    BY <2>1
  <2>4. Loaded(t, u) \in Tx
    BY <2>2, <2>3 DEF Tx
  <2>5. /\ Loaded(t, u).has = t.has \cup {u}
        /\ Loaded(t, u).seen = [t.seen EXCEPT ![u] = user[u]]
        /\ Loaded(t, u).mine = [t.mine EXCEPT ![u] = user[u]]
        /\ Loaded(t, u).pc = t.pc /\ Loaded(t, u).actor = t.actor
        /\ Loaded(t, u).note = t.note /\ Loaded(t, u).about = t.about
        /\ Loaded(t, u).cost = t.cost /\ Loaded(t, u).grant = t.grant
        /\ Loaded(t, u).new = t.new
    BY <2>2 DEF Tx
  <2>6. \A v \in User :
          /\ [t.seen EXCEPT ![u] = user[u]][v] = IF v = u THEN user[v] ELSE t.seen[v]
          /\ [t.mine EXCEPT ![u] = user[u]][v] = IF v = u THEN user[v] ELSE t.mine[v]
    BY <2>1
  <2> QED BY <1>2, <2>4, <2>5, <2>6
<1> QED BY <1>1, <1>2

LEMMA TrustIsInt == Inv => \A u \in User : user[u].trust \in Int
BY BoundsAssumption DEF Inv, TypeOK, Row

(***************************************************************************)
(* Steps                                                                   *)
(***************************************************************************)
\* A session that goes on, with the rows of K loaded, and writes no table.
LEMMA Local ==
  ASSUME Inv, NEW s \in Session, NEW t \in Tx,
         tx' = [tx EXCEPT ![s] = t],
         UNCHANGED <<tables, overwritten>>,
         lock' \in [User -> Session \cup {Nobody}],
         \A k \in User : lock[k] \in Session => lock'[k] = lock[k],
         Noted(t), Phase(t),
         t.pc = "ready" => lock'[t.actor] = s,
         t.note = "referral" => lock'[t.about] = s /\ referral[t.about] = Nobody,
         \A v \in t.has : v \notin overwritten => user[v].trust <= t.seen[v].trust
  PROVE  Inv'
<1> USE DEF Inv, tables
<1>1. TypeOK'
  BY DEF TypeOK
<1>2. ReferralRecorded'
  BY DEF ReferralRecorded
<1>3. (/\ WarningsLoggedUnlessOverwritten /\ BannedAtThreeUnlessOverwritten
      /\ TrustExactUnlessOverwritten)'
  BY DEF WarningsLoggedUnlessOverwritten, BannedAtThreeUnlessOverwritten,
         TrustExactUnlessOverwritten
<1>4. ASSUME NEW r \in Session PROVE Sound(r)'
  <2>1. CASE r = s
    <3>1. tx'[r] = t
      BY <2>1 DEF TypeOK
    <3> QED BY <2>1, <3>1 DEF Sound, Keeps, Falls
  <2>2. CASE r # s
    <3>1. tx'[r] = tx[r] /\ Sound(r) /\ tx[r] \in Tx
      BY <2>2 DEF TypeOK
    <3>2. tx[r].pc = "ready" => lock'[tx[r].actor] = r
      BY <3>1 DEF Sound, Keeps, Phase, Clean
    <3>3. tx[r].note = "referral" => tx[r].about \in User
      BY <3>1, NobodyIsNoUser DEF Sound, Noted, Tx
    <3>4. tx[r].note = "referral" => lock'[tx[r].about] = r /\ referral[tx[r].about] = Nobody
      BY <3>1, <3>3 DEF Sound, Keeps
    <3> QED BY <3>1, <3>2, <3>4 DEF Sound, Keeps, Falls
  <2> QED BY <2>1, <2>2
<1> QED BY <1>1, <1>2, <1>3, <1>4

\* A session that ends has no row and no lock left; the others keep theirs.
LEMMA EndsFacts ==
  ASSUME Inv, NEW s \in Session, Ends(s)
  PROVE  /\ tx'[s] = IdleTx /\ \A r \in Session : r # s => tx'[r] = tx[r]
         /\ lock' \in [User -> Session \cup {Nobody}] /\ tx' \in [Session -> Tx]
         /\ \A k \in User : lock[k] # s => lock'[k] = lock[k]
<1>1. /\ tx'[s] = IdleTx /\ \A r \in Session : r # s => tx'[r] = tx[r]
      /\ tx' \in [Session -> Tx]
  BY IdleOK DEF Inv, TypeOK, Ends
<1>2. /\ lock' \in [User -> Session \cup {Nobody}]
      /\ \A k \in User : lock[k] # s => lock'[k] = lock[k]
  BY DEF Inv, TypeOK, Ends
<1> QED BY <1>1, <1>2

\* An idle session is sound whatever the tables say.
LEMMA IdleSound ==
  ASSUME NEW s \in Session, tx'[s] = IdleTx
  PROVE  Sound(s)'
<1>1. /\ IdleTx.pc = "idle" /\ IdleTx.note = "none" /\ IdleTx.has = {} /\ IdleTx.new = "no"
  BY DEF IdleTx
<1> QED BY <1>1, IdleOK DEF Sound, Phase, Keeps, Falls

\* A session that rolls back.
LEMMA RollsBack ==
  ASSUME Inv, NEW s \in Session, Ends(s), UNCHANGED <<tables, overwritten>>
  PROVE  Inv'
<1>1. TypeOK'
  BY EndsFacts DEF Inv, TypeOK, tables
<1>2. ASSUME NEW r \in Session PROVE Sound(r)'
  <2>1. CASE r = s
    BY <2>1, EndsFacts, IdleSound
  <2>2. CASE r # s
    <3>1. tx'[r] = tx[r] /\ Sound(r) /\ tx[r] \in Tx
      BY <2>2, EndsFacts DEF Inv, TypeOK
    <3>2. tx[r].pc = "ready" => lock'[tx[r].actor] = r
      BY <2>2, <3>1, EndsFacts DEF Sound, Keeps, Phase, Clean
    <3>3. tx[r].note = "referral" => tx[r].about \in User
      BY <3>1, NobodyIsNoUser DEF Sound, Noted, Tx
    <3>4. tx[r].note = "referral" => lock'[tx[r].about] = r /\ referral[tx[r].about] = Nobody
      BY <2>2, <3>1, <3>3, EndsFacts DEF Sound, Keeps
    <3> QED BY <3>1, <3>2, <3>4, EndsFacts DEF Sound, Keeps, Falls, tables
  <2> QED BY <2>1, <2>2
<1> QED
  BY <1>1, <1>2, EndsFacts
  DEF Inv, tables, ReferralRecorded, WarningsLoggedUnlessOverwritten,
      BannedAtThreeUnlessOverwritten, TrustExactUnlessOverwritten

(***************************************************************************)
(* Before the handler                                                      *)
(***************************************************************************)
LEMMA ReceiveInv ==
  ASSUME Inv, NEW s \in Session, NEW u \in User, Receive(s, u)
  PROVE  Inv'
<1> DEFINE i == [IdleTx EXCEPT !.pc = "read", !.actor = u,
                               !.new = IF u \in known THEN "no" ELSE "yes"]
           t == Loaded(i, u)
<1>1. i \in Tx /\ i.has = {} /\ i.pc = "read" /\ i.actor = u /\ i.note = "none"
      /\ i.about = Nobody /\ i.cost = 0 /\ i.grant = Nobody /\ i.mine = i.seen
  BY IdleOK DEF Tx, IdleTx
<1>2. t \in Tx /\ t.has = {u} /\ t.pc = "read" /\ t.actor = u /\ t.note = "none"
      /\ t.about = Nobody /\ t.cost = 0 /\ t.grant = Nobody
      /\ \A v \in User : t.mine[v] = t.seen[v] /\ (v = u => t.seen[v] = user[v])
  <2> HIDE DEF i
  <2> QED BY <1>1, LoadedFacts DEF Inv
<1>3. tx' = [tx EXCEPT ![s] = t] /\ UNCHANGED <<tables, lock, overwritten>>
  BY DEF Receive
<1> HIDE DEF t
<1>4. Noted(t) /\ Phase(t)
  BY <1>2, NobodyIsNoUser DEF Noted, Phase, Clean
<1>5. \A v \in t.has : user[v].trust <= t.seen[v].trust
  <2> SUFFICES user[u].trust <= t.seen[u].trust
    BY <1>2
  <2>1. t.seen[u] = user[u] /\ user[u].trust \in Int
    BY <1>2, TrustIsInt
  <2> QED BY <2>1
<1>6. lock' \in [User -> Session \cup {Nobody}]
      /\ \A k \in User : lock[k] \in Session => lock'[k] = lock[k]
  BY <1>3 DEF Inv, TypeOK
<1>7. t.pc # "ready" /\ t.note # "referral"
  BY <1>2
<1> QED BY <1>2, <1>3, <1>4, <1>5, <1>6, <1>7, Local

\* UserMiddleware has the lock of the actor's row when the handler starts.
LEMMA EnterInv ==
  ASSUME Inv, NEW s \in Session, Register(s) \/ TakeRow(s)
  PROVE  Inv'
<1> DEFINE u == tx[s].actor
           t == [tx[s] EXCEPT !.pc = "ready", !.role = role[u]]
<1>1. tx[s] \in Tx /\ tx[s].pc = "read" /\ Sound(s)
  BY DEF Inv, TypeOK, Register, TakeRow
<1>2. Clean(tx[s]) /\ u \in User
  BY <1>1 DEF Sound, Phase, Clean
<1>3. t \in Tx /\ t.has = tx[s].has /\ t.pc = "ready" /\ t.actor = u /\ t.note = tx[s].note
      /\ t.about = tx[s].about /\ t.cost = tx[s].cost /\ t.grant = tx[s].grant
      /\ t.mine = tx[s].mine /\ t.seen = tx[s].seen /\ t.new = tx[s].new
  BY <1>1, <1>2 DEF Inv, TypeOK, Tx
<1>4. tx' = [tx EXCEPT ![s] = t] /\ UNCHANGED <<tables, overwritten>> /\ Lock(s, {u})
  BY DEF Register, TakeRow, Inv, TypeOK
<1> HIDE DEF t
<1>5. Noted(t) /\ Phase(t) /\ t.note # "referral"
  BY <1>1, <1>2, <1>3, NobodyIsNoUser DEF Sound, Noted, Phase, Clean, Turned
<1>6. /\ lock' \in [User -> Session \cup {Nobody}] /\ lock'[u] = s
      /\ \A k \in User : lock[k] \in Session => lock'[k] = lock[k]
  BY <1>2, <1>4, NobodyIsNoUser DEF Inv, TypeOK, Lock
<1>7. \A v \in t.has : v \notin overwritten => user[v].trust <= t.seen[v].trust
  BY <1>1, <1>3 DEF Sound, Falls
<1> QED BY <1>3, <1>4, <1>5, <1>6, <1>7, Local

\* A session that has changed nothing yet.
LEMMA FirstFacts ==
  ASSUME Inv, NEW s \in Session, tx[s].pc \in {"idle", "ready"}
  PROVE  /\ tx[s] \in Tx /\ tx[s].note = "none" /\ tx[s].about = Nobody /\ tx[s].cost = 0
         /\ tx[s].grant = Nobody /\ (tx[s].new = "yes" => tx[s].actor \in User)
         /\ \A v \in User : tx[s].mine[v] = tx[s].seen[v]
         /\ \A v \in tx[s].has : v \notin overwritten => user[v].trust <= tx[s].seen[v].trust
         /\ tx[s].pc = "ready" => /\ tx[s].actor \in User /\ tx[s].has = {tx[s].actor}
                                  /\ lock[tx[s].actor] = s
<1>1. tx[s] \in Tx /\ Sound(s)
  BY DEF Inv, TypeOK
<1>2. tx[s].about = Nobody /\ tx[s].grant = Nobody
  BY <1>1 DEF Sound, Phase, Clean, IdleTx
<1> QED BY <1>1, <1>2, NobodyIsNoUser DEF Sound, Noted, Phase, Clean, Keeps, Falls

(***************************************************************************)
(* The handlers                                                            *)
(***************************************************************************)
\* A handler that makes r of the row of u.
LEMMA ChangesInv ==
  ASSUME Inv, NEW s \in Session, tx[s].pc \in {"idle", "ready"},
         NEW u \in User, NEW r \in Row, NEW cost \in Nat,
         NEW note \in {"none", "warn", "unwarn", "unban", "trust"},
         Turned([note |-> note, cost |-> cost], r, Copy(s, u)),
         Changes(s, tx[s], u, r, note, cost)
  PROVE  Inv'
<1> DEFINE l == Loaded(tx[s], u)
           t == [l EXCEPT !.pc = "done", !.mine[u] = r, !.note = note, !.about = u, !.cost = cost]
<1>1. /\ tx[s] \in Tx /\ l \in Tx /\ l.has = tx[s].has \cup {u} /\ l.grant = Nobody
      /\ l.new = "yes" => l.actor \in User
      /\ \A v \in User : l.mine[v] = l.seen[v]
      /\ \A v \in l.has : v \notin overwritten => user[v].trust <= l.seen[v].trust
      /\ Copy(s, u) = l.mine[u]
  <2>1. /\ tx[s] \in Tx /\ TypeOK /\ tx[s].grant = Nobody
        /\ \A v \in User : tx[s].mine[v] = tx[s].seen[v]
        /\ \A v \in tx[s].has : v \notin overwritten => user[v].trust <= tx[s].seen[v].trust
        /\ tx[s].new = "yes" => tx[s].actor \in User
    BY FirstFacts DEF Inv
  <2>2. /\ l \in Tx /\ l.has = tx[s].has \cup {u} /\ l.grant = tx[s].grant
        /\ l.new = tx[s].new /\ l.actor = tx[s].actor
        /\ \A v \in User :
             /\ l.seen[v] = IF v = u /\ u \notin tx[s].has THEN user[v] ELSE tx[s].seen[v]
             /\ l.mine[v] = IF v = u /\ u \notin tx[s].has THEN user[v] ELSE tx[s].mine[v]
    BY <2>1, LoadedFacts
  <2> HIDE DEF l
  <2>3. \A v \in l.has : v \notin overwritten => user[v].trust <= l.seen[v].trust
    <3> SUFFICES ASSUME NEW v \in l.has, v \notin overwritten
                 PROVE  user[v].trust <= l.seen[v].trust
      OBVIOUS
    <3>1. v \in User /\ user[v].trust \in Int
      BY <2>2, TrustIsInt DEF Tx
    <3> QED BY <2>1, <2>2, <3>1
  <2> QED BY <2>1, <2>2, <2>3 DEF l, Copy
<1>2. tx' = [tx EXCEPT ![s] = t] /\ UNCHANGED <<tables, lock, overwritten>>
  BY DEF Changes
<1> HIDE DEF l
<1>3. /\ t \in Tx /\ t.has = l.has /\ t.pc = "done" /\ t.note = note /\ t.about = u
      /\ t.cost = cost /\ t.grant = Nobody /\ t.seen = l.seen
      /\ t.new = l.new /\ t.actor = l.actor
      /\ t.mine = [l.mine EXCEPT ![u] = r]
  <2>1. l.mine \in [User -> Row]
    BY <1>1 DEF Tx
  <2>2. [l.mine EXCEPT ![u] = r] \in [User -> Row]
    BY <2>1
  <2>3. t = [l EXCEPT !.pc = "done", !.mine = [l.mine EXCEPT ![u] = r], !.note = note,
                      !.about = u, !.cost = cost]
    BY <1>1 DEF Tx
  <2> QED BY <1>1, <2>2, <2>3 DEF Tx
<1>4. \A v \in User : t.mine[v] = IF v = u THEN r ELSE l.mine[v]
  <2>1. l.mine \in [User -> Row]
    BY <1>1 DEF Tx
  <2> QED BY <1>3, <2>1
<1> HIDE DEF t
<1>5. Noted(t) /\ Phase(t)
  <2>1. Turned(t, t.mine[u], t.seen[u])
    <3>1. t.mine[u] = r /\ t.seen[u] = Copy(s, u)
      BY <1>1, <1>3, <1>4
    <3> QED BY <1>3, <3>1 DEF Turned
  <2> QED BY <1>1, <1>3, <1>4, <2>1, NobodyIsNoUser DEF Noted, Phase
<1>6. \A v \in t.has : v \notin overwritten => user[v].trust <= t.seen[v].trust
  BY <1>1, <1>3
<1>7. /\ lock' \in [User -> Session \cup {Nobody}]
      /\ \A k \in User : lock[k] \in Session => lock'[k] = lock[k]
      /\ t.pc # "ready" /\ t.note # "referral"
  BY <1>1, <1>2, <1>3 DEF Inv, TypeOK
<1> QED BY <1>2, <1>3, <1>5, <1>6, <1>7, Local

LEMMA CopyFacts ==
  ASSUME Inv, NEW s \in Session, tx[s].pc \in {"idle", "ready"}, NEW u \in User
  PROVE  Copy(s, u) \in Row
<1>1. tx[s] \in Tx /\ user[u] \in Row
  BY DEF Inv, TypeOK
<1>2. tx[s].mine[u] \in Row
  BY <1>1 DEF Tx
<1> QED BY <1>1, <1>2, LoadedFacts DEF Inv, Copy

LEMMA AdmittedReady ==
  ASSUME NEW s \in Session, Admitted(s)
  PROVE  tx[s].pc = "ready"
BY DEF Admitted

LEMMA ModerateInv ==
  ASSUME Inv, NEW s \in Session, NEW u \in User,
         Warn(s, u) \/ Unwarn(s, u) \/ Ban(s, u) \/ Unban(s, u)
  PROVE  Inv'
<1>1. tx[s].pc \in {"idle", "ready"}
  BY AdmittedReady DEF Warn, Unwarn, Ban, Unban, Manages
<1>2. Copy(s, u) \in Row
  BY <1>1, CopyFacts
<1>3. Floor(Copy(s, u).trust) = Copy(s, u).trust
  BY <1>2, BoundsAssumption DEF Row, Floor
<1>4. CASE Warn(s, u)
  <2> DEFINE c == Copy(s, u)
             r == Warned(c)
  <2>1. /\ r \in Row /\ r.warnings = c.warnings + 1 /\ r.trust = c.trust
        /\ r.referrer = c.referrer
        /\ r.standing = IF c.warnings >= 2 THEN "banned" ELSE c.standing
    <3> DEFINE w == c.warnings + 1
               b == IF c.warnings >= 2 THEN "banned" ELSE c.standing
    <3>1. c \in Row /\ w \in Nat /\ b \in {"active", "banned"}
      BY <1>2 DEF Row
    <3>2. r = [c EXCEPT !.warnings = w, !.standing = b]
      BY <1>2 DEF Warned, Row
    <3> HIDE DEF w, b, c
    <3>3. /\ r \in Row /\ r.warnings = w /\ r.trust = c.trust
          /\ r.referrer = c.referrer /\ r.standing = b
      BY <3>1, <3>2 DEF Row
    <3> QED BY <3>3 DEF w, b
  <2>2. Turned([note |-> "warn", cost |-> 0], r, c)
    BY <1>2, <1>3, <2>1, BoundsAssumption DEF Turned, Row
  <2>3. Changes(s, tx[s], u, r, "warn", 0)
    BY <1>4 DEF Warn
  <2> QED BY <1>1, <2>1, <2>2, <2>3, ChangesInv
<1>5. CASE Unwarn(s, u)
  <2> DEFINE c == Copy(s, u)
             r == [c EXCEPT !.warnings = @ - 1]
  <2>1. c.warnings > 0
    BY <1>5 DEF Unwarn, Warnings
  <2>2. /\ r \in Row /\ r.warnings = c.warnings - 1 /\ r.trust = c.trust
        /\ r.referrer = c.referrer /\ r.standing = c.standing
    BY <1>2, <2>1 DEF Row
  <2>3. Turned([note |-> "unwarn", cost |-> 0], r, c)
    BY <1>2, <1>3, <2>2, BoundsAssumption DEF Turned, Row
  <2>4. Changes(s, tx[s], u, r, "unwarn", 0)
    BY <1>5 DEF Unwarn
  <2> QED BY <1>1, <2>2, <2>3, <2>4, ChangesInv
<1>6. CASE Ban(s, u)
  <2> DEFINE c == Copy(s, u)
             r == [c EXCEPT !.standing = "banned"]
  <2>1. /\ r \in Row /\ r.warnings = c.warnings /\ r.trust = c.trust
        /\ r.referrer = c.referrer /\ r.standing = "banned"
    BY <1>2 DEF Row
  <2>2. Turned([note |-> "none", cost |-> 0], r, c)
    BY <1>2, <1>3, <2>1, BoundsAssumption DEF Turned, Row
  <2>3. Changes(s, tx[s], u, r, "none", 0)
    BY <1>6 DEF Ban
  <2> QED BY <1>1, <2>1, <2>2, <2>3, ChangesInv
<1>7. CASE Unban(s, u)
  <2> DEFINE c == Copy(s, u)
             r == [c EXCEPT !.standing = "active"]
  <2>1. /\ r \in Row /\ r.warnings = c.warnings /\ r.trust = c.trust
        /\ r.referrer = c.referrer
    BY <1>2 DEF Row
  <2>2. Turned([note |-> "unban", cost |-> 0], r, c)
    BY <1>2, <1>3, <2>1, BoundsAssumption DEF Turned, Row
  <2>3. Changes(s, tx[s], u, r, "unban", 0)
    BY <1>7 DEF Unban
  <2> QED BY <1>1, <2>1, <2>2, <2>3, ChangesInv
<1> QED BY <1>4, <1>5, <1>6, <1>7

\* The trust that is lost, by the actor or, in a recheck, by another user.
LEMMA LoseTrustInv ==
  ASSUME Inv, NEW s \in Session, tx[s].pc \in {"idle", "ready"}, NEW u \in User,
         NEW d \in Penalty, LoseTrust(s, tx[s], u, d)
  PROVE  Inv'
<1> DEFINE c == Copy(s, u)
           r == [c EXCEPT !.trust = Clamped(@ - d)]
<1>1. c \in Row /\ d \in Nat
  BY CopyFacts, BoundsAssumption
<1>2. Floor(c.trust - d) \in 0..FullTrust
  BY <1>1, BoundsAssumption DEF Row, Floor
<1>3. /\ r \in Row /\ r.trust = Floor(c.trust - d) /\ r.warnings = c.warnings
      /\ r.referrer = c.referrer /\ r.standing = c.standing
  BY <1>1, <1>2 DEF Row, Clamped
<1>4. Turned([note |-> "trust", cost |-> d], r, c)
  BY <1>1, <1>3 DEF Turned, Row
<1>5. Changes(s, tx[s], u, r, "trust", d)
  BY DEF LoseTrust, Copy
<1> QED BY <1>1, <1>3, <1>4, <1>5, ChangesInv

LEMMA TrustInv ==
  ASSUME Inv, NEW s \in Session, NEW d \in Penalty,
         Flagged(s, d) \/ \E u \in User : Recheck(s, u, d)
  PROVE  Inv'
<1>1. CASE Flagged(s, d)
  BY <1>1, AdmittedReady, FirstFacts, LoseTrustInv DEF Flagged
<1>2. ASSUME NEW u \in User, Recheck(s, u, d) PROVE Inv'
  <2>1. tx[s].pc = "idle" /\ LoseTrust(s, IdleTx, u, d)
    BY <1>2 DEF Recheck
  <2>2. tx[s] = IdleTx
    BY <2>1 DEF Inv, Sound, Phase
  <2> QED BY <2>1, <2>2, LoseTrustInv
<1> QED BY <1>1, <1>2

\* A role that is given or taken; no row changes.
LEMMA RoleInv ==
  ASSUME Inv, NEW s \in Session, NEW u \in User, NEW r \in Roles, Admitted(s),
         tx' = [tx EXCEPT ![s].pc = "done", ![s].grant = u, ![s].grants = r],
         UNCHANGED <<tables, lock, overwritten>>
  PROVE  Inv'
<1> DEFINE t == [tx[s] EXCEPT !.pc = "done", !.grant = u, !.grants = r]
<1>1. tx[s] \in Tx /\ Sound(s) /\ tx[s].note = "none"
  BY AdmittedReady, FirstFacts DEF Inv
<1>2. /\ t \in Tx /\ t.has = tx[s].has /\ t.pc = "done" /\ t.note = tx[s].note
      /\ t.about = tx[s].about /\ t.cost = tx[s].cost
      /\ t.mine = tx[s].mine /\ t.seen = tx[s].seen
      /\ t.new = tx[s].new /\ t.actor = tx[s].actor
  BY <1>1 DEF Tx
<1>3. tx' = [tx EXCEPT ![s] = t]
  BY DEF Inv, TypeOK
<1> HIDE DEF t
<1>4. Noted(t) /\ Phase(t) /\ t.pc # "ready" /\ t.note # "referral"
  BY <1>1, <1>2 DEF Sound, Noted, Phase, Turned
<1>5. \A v \in t.has : v \notin overwritten => user[v].trust <= t.seen[v].trust
  BY <1>1, <1>2 DEF Sound, Falls
<1>6. /\ lock' \in [User -> Session \cup {Nobody}]
      /\ \A k \in User : lock[k] \in Session => lock'[k] = lock[k]
  BY DEF Inv, TypeOK
<1> QED BY <1>2, <1>3, <1>4, <1>5, <1>6, Local

LEMMA AdminsInv ==
  ASSUME Inv, NEW s \in Session, NEW u \in User,
         RemoveAdmin(s, u) \/ \E r \in Grants : AddAdmin(s, u, r)
  PROVE  Inv'
<1>1. Grants \subseteq Roles /\ "none" \in Roles
  BY BoundsAssumption DEF Roles
<1> QED BY <1>1, RoleInv DEF RemoveAdmin, AddAdmin

\* /start: the lock of the actor's row keeps the referral from others.
LEMMA StartInv ==
  ASSUME Inv, NEW s \in Session, NEW r \in User, Start(s, r)
  PROVE  Inv'
<1> DEFINE u == tx[s].actor
           l == Loaded(tx[s], r)
           t == [l EXCEPT !.pc = "done", !.mine[u].referrer = r, !.note = "referral", !.about = u]
<1>1. tx[s].pc = "ready"
  BY AdmittedReady DEF Start
<1>2. /\ tx[s] \in Tx /\ tx[s].cost = 0 /\ u \in User /\ tx[s].has = {u} /\ lock[u] = s
      /\ \A v \in User : tx[s].mine[v] = tx[s].seen[v]
      /\ \A v \in tx[s].has : v \notin overwritten => user[v].trust <= tx[s].seen[v].trust
      /\ r # u /\ tx[s].seen[u].referrer = Nobody /\ referral[u] = Nobody
  BY <1>1, FirstFacts DEF Start, Unreferred
<1>3. /\ l \in Tx /\ l.has = {u, r} /\ l.cost = 0 /\ l.actor = u
      /\ \A v \in User : l.mine[v] = l.seen[v]
      /\ \A v \in l.has : v \notin overwritten => user[v].trust <= l.seen[v].trust
      /\ l.seen[u].referrer = Nobody
  <2>1. /\ l \in Tx /\ l.has = tx[s].has \cup {r} /\ l.cost = tx[s].cost /\ l.actor = u
        /\ \A v \in User :
             /\ l.seen[v] = IF v = r /\ r \notin tx[s].has THEN user[v] ELSE tx[s].seen[v]
             /\ l.mine[v] = IF v = r /\ r \notin tx[s].has THEN user[v] ELSE tx[s].mine[v]
    BY <1>2, LoadedFacts DEF Inv
  <2> HIDE DEF l
  <2>2. l.has = {u, r} /\ l.seen[u] = tx[s].seen[u]
    BY <1>2, <2>1
  <2>3. \A v \in User : l.mine[v] = l.seen[v]
    BY <1>2, <2>1
  <2>4. \A v \in l.has : v \notin overwritten => user[v].trust <= l.seen[v].trust
    BY <1>2, <2>1, TrustIsInt
  <2> QED BY <1>2, <2>1, <2>2, <2>3, <2>4
<1>4. tx' = [tx EXCEPT ![s] = t] /\ UNCHANGED <<tables, lock, overwritten>>
  BY DEF Start
<1> HIDE DEF l
<1> DEFINE m == [l.mine[u] EXCEPT !.referrer = r]
<1>5. l.mine \in [User -> Row] /\ l.mine[u] \in Row /\ u \in User
  BY <1>2, <1>3 DEF Tx
<1>6. /\ m \in Row /\ m.referrer = r /\ m.standing = l.mine[u].standing
      /\ m.warnings = l.mine[u].warnings /\ m.trust = l.mine[u].trust
  BY <1>5 DEF Row
<1>7. /\ t \in Tx /\ t.has = l.has /\ t.pc = "done" /\ t.note = "referral" /\ t.about = u
      /\ t.cost = 0 /\ t.actor = u /\ t.seen = l.seen /\ t.mine = [l.mine EXCEPT ![u] = m]
  <2>1. [l.mine EXCEPT ![u] = m] \in [User -> Row]
    BY <1>5, <1>6
  <2>2. [l.mine EXCEPT ![u].referrer = r] = [l.mine EXCEPT ![u] = m]
    BY <1>5
  <2>3. t = [l EXCEPT !.pc = "done", !.mine = [l.mine EXCEPT ![u] = m], !.note = "referral",
                      !.about = u]
    BY <1>3, <2>2 DEF Tx
  <2> HIDE DEF m, t
  <2> QED BY <1>2, <1>3, <2>1, <2>3 DEF Tx
<1>8. \A v \in User : t.mine[v] = IF v = u THEN m ELSE l.mine[v]
  BY <1>5, <1>7
<1> HIDE DEF t, m, u
<1>9. Noted(t) /\ Phase(t)
  <2>1. Turned(t, m, l.seen[u])
    <3>1. l.seen[u] = l.mine[u] /\ Floor(l.mine[u].trust) = l.mine[u].trust
      BY <1>2, <1>3, <1>5, BoundsAssumption DEF Row, Floor
    <3> QED BY <1>3, <1>5, <1>6, <1>7, <3>1, NobodyIsNoUser, BoundsAssumption DEF Turned, Row
  <2> QED BY <1>2, <1>3, <1>7, <1>8, <2>1, NobodyIsNoUser DEF Noted, Phase
<1>10. \A v \in t.has : v \notin overwritten => user[v].trust <= t.seen[v].trust
  BY <1>3, <1>7
<1>11. /\ lock' \in [User -> Session \cup {Nobody}]
       /\ \A k \in User : lock[k] \in Session => lock'[k] = lock[k]
       /\ t.pc # "ready" /\ lock'[t.about] = s /\ referral[t.about] = Nobody
  BY <1>2, <1>3, <1>4, <1>7 DEF Inv, TypeOK
<1> QED BY <1>4, <1>7, <1>9, <1>10, <1>11, Local

(***************************************************************************)
(* The commit                                                              *)
(***************************************************************************)
\* Only the row that a session is about changes, and only in the columns that
\* the session has changed.
LEMMA CommitRows ==
  ASSUME Inv, NEW s \in Session, Commit(s)
  PROVE  /\ user' \in [User -> Row]
         /\ \A v \in User : v # tx[s].about => user'[v] = user[v]
         /\ \A v \in User : v = tx[s].about =>
              LET m == tx[s].mine[v]
                  n == tx[s].seen[v]
              IN  /\ user'[v].standing = Column(user[v].standing, m.standing, n.standing)
                  /\ user'[v].warnings = Column(user[v].warnings, m.warnings, n.warnings)
                  /\ user'[v].referrer = Column(user[v].referrer, m.referrer, n.referrer)
                  /\ user'[v].trust = Column(user[v].trust, m.trust, n.trust)
<1> DEFINE t == tx[s]
<1>1. t \in Tx /\ Noted(t) /\ user \in [User -> Row]
  BY DEF Inv, TypeOK, Sound
<1>2. \A v \in User : t.mine[v] \in Row /\ t.seen[v] \in Row /\ user[v] \in Row
  BY <1>1 DEF Tx
<1>3. user' = [v \in User |-> IF v \in Dirty(s)
                              THEN Written(user[v], t.mine[v], t.seen[v]) ELSE user[v]]
  BY DEF Commit
<1>4. \A v \in User : v \in Dirty(s) <=> v \in t.has /\ t.mine[v] # t.seen[v]
  BY DEF Dirty
<1> HIDE DEF t
<1>5. ASSUME NEW v \in User PROVE Written(user[v], t.mine[v], t.seen[v]) \in Row
  BY <1>2 DEF Written, Column, Row
<1>6. user' \in [User -> Row]
  BY <1>1, <1>2, <1>3, <1>5
<1>7. \A v \in User : v # t.about => user'[v] = user[v]
  BY <1>1, <1>3, <1>4 DEF Noted
<1>8. ASSUME NEW v \in User, v = t.about
      PROVE  /\ user'[v].standing = Column(user[v].standing, t.mine[v].standing, t.seen[v].standing)
             /\ user'[v].warnings = Column(user[v].warnings, t.mine[v].warnings, t.seen[v].warnings)
             /\ user'[v].referrer = Column(user[v].referrer, t.mine[v].referrer, t.seen[v].referrer)
             /\ user'[v].trust = Column(user[v].trust, t.mine[v].trust, t.seen[v].trust)
  <2>1. v \in t.has
    BY <1>1, <1>8 DEF Noted
  <2>2. CASE t.mine[v] = t.seen[v]
    BY <1>3, <1>4, <2>2 DEF Column
  <2>3. CASE t.mine[v] # t.seen[v]
    BY <1>3, <1>4, <2>1, <2>3 DEF Written
  <2> QED BY <2>2, <2>3
<1> QED BY <1>6, <1>7, <1>8 DEF t

LEMMA CommitLogs ==
  ASSUME Inv, NEW s \in Session, Commit(s)
  PROVE  /\ log' \in [User -> Int] /\ lost' \in [User -> Nat] /\ pardoned' \subseteq User
         /\ referral' \in [User -> User \cup {Nobody}]
         /\ \A v \in User \ overwritten' :
              /\ log'[v] = log[v] + IF v # tx[s].about THEN 0
                             ELSE CASE tx[s].note = "warn" -> 1
                                    [] tx[s].note = "unwarn" -> -1 [] OTHER -> 0
              /\ lost'[v] = lost[v] + IF v # tx[s].about THEN 0 ELSE tx[s].cost
              /\ v \in pardoned' <=> \/ v = tx[s].about /\ tx[s].note = "unban"
                                     \/ v \in pardoned /\ ~(v = tx[s].about /\ tx[s].note = "warn")
         /\ \A v \in User : referral'[v] = IF v = tx[s].about /\ tx[s].note = "referral"
                                           THEN tx[s].mine[v].referrer ELSE referral[v]
<1> DEFINE t == tx[s]
           n == CASE t.note = "warn" -> 1 [] t.note = "unwarn" -> -1 [] OTHER -> 0
<1>1. t \in Tx /\ Noted(t) /\ TypeOK
  BY DEF Inv, TypeOK, Sound
<1>2. /\ log' = Added(log, t.about, n) /\ lost' = Added(lost, t.about, t.cost)
      /\ pardoned' = (CASE t.note = "unban" -> pardoned \cup {t.about}
                        [] t.note = "warn" -> pardoned \ {t.about}
                        [] OTHER -> pardoned) \ overwritten'
      /\ referral' = IF t.note = "referral"
                     THEN [referral EXCEPT ![t.about] = t.mine[t.about].referrer] ELSE referral
  BY DEF Commit, Logged
<1>3. t.note # "none" => t.about \in User
  BY <1>1 DEF Noted, Tx
<1> HIDE DEF t
<1>4. n \in Int /\ t.cost \in Nat
  BY <1>1 DEF Tx
<1>5. /\ log' \in [User -> Int]
      /\ \A v \in User \ overwritten' : log'[v] = log[v] + IF v # t.about THEN 0 ELSE n
  <2> HIDE DEF n
  <2> QED BY <1>1, <1>2, <1>4 DEF Added, TypeOK
<1>6. /\ lost' \in [User -> Nat]
      /\ \A v \in User \ overwritten' : lost'[v] = lost[v] + IF v # t.about THEN 0 ELSE t.cost
  BY <1>1, <1>2, <1>4 DEF Added, TypeOK
<1>7. pardoned' \subseteq User
  <2>1. CASE t.note = "unban"
    BY <1>1, <1>2, <1>3, <2>1 DEF TypeOK
  <2>2. CASE t.note # "unban"
    BY <1>1, <1>2, <2>2 DEF TypeOK
  <2> QED BY <2>1, <2>2
<1>8. \A v \in User \ overwritten' :
        v \in pardoned' <=> \/ v = t.about /\ t.note = "unban"
                            \/ v \in pardoned /\ ~(v = t.about /\ t.note = "warn")
  BY <1>2
<1>9. /\ referral' \in [User -> User \cup {Nobody}]
      /\ \A v \in User : referral'[v] = IF v = t.about /\ t.note = "referral"
                                        THEN t.mine[v].referrer ELSE referral[v]
  <2>1. CASE t.note = "referral"
    <3>1. t.about \in User
      BY <1>3, <2>1
    <3>2. t.mine[t.about].referrer \in User \cup {Nobody}
      BY <1>1, <3>1 DEF Tx, Row
    <3> QED BY <1>1, <1>2, <2>1, <3>1, <3>2 DEF TypeOK
  <2>2. CASE t.note # "referral"
    BY <1>1, <1>2, <2>2 DEF TypeOK
  <2> QED BY <2>1, <2>2
<1> QED BY <1>5, <1>6, <1>7, <1>8, <1>9 DEF t

\* The copy of a row that a session changes and does not overwrite is that of
\* the table, or it leaves the row as it is.
LEMMA CommitOwn ==
  ASSUME Inv, NEW s \in Session, Commit(s), NEW v \in User \ overwritten', v = tx[s].about
  PROVE  /\ v \notin overwritten
         /\ Turned(tx[s], tx[s].mine[v], tx[s].seen[v])
         /\ \/ /\ tx[s].seen[v] = user[v]
               /\ user'[v].standing = tx[s].mine[v].standing
               /\ user'[v].warnings = tx[s].mine[v].warnings
               /\ user'[v].trust = tx[s].mine[v].trust
            \/ /\ tx[s].mine[v] = tx[s].seen[v]
               /\ user'[v].standing = user[v].standing
               /\ user'[v].warnings = user[v].warnings
               /\ user'[v].trust = user[v].trust
               /\ user[v].trust <= tx[s].seen[v].trust
<1>1. v \notin overwritten /\ v \notin Outdated(s)
  BY DEF Commit
<1>2. v \in tx[s].has /\ Turned(tx[s], tx[s].mine[v], tx[s].seen[v]) /\ Falls(s)
  BY DEF Inv, Sound, Noted
<1>3. tx[s].mine[v] = tx[s].seen[v] \/ tx[s].seen[v] = user[v]
  BY <1>1, <1>2 DEF Outdated, Dirty
<1> QED BY <1>1, <1>2, <1>3, CommitRows DEF Column, Falls

LEMMA CommitReferral ==
  ASSUME Inv, NEW s \in Session, Commit(s), NEW v \in User
  PROVE  /\ user'[v].referrer = referral'[v]
         /\ referral[v] # Nobody => referral'[v] = referral[v]
<1>1. user[v].referrer = referral[v] /\ Noted(tx[s]) /\ Keeps(s)
  BY DEF Inv, ReferralRecorded, Sound
<1>2. CASE v = tx[s].about /\ tx[s].note = "referral"
  BY <1>1, <1>2, CommitRows, CommitLogs DEF Noted, Turned, Column, Keeps
<1>3. CASE v = tx[s].about /\ tx[s].note # "referral"
  BY <1>1, <1>3, CommitRows, CommitLogs DEF Noted, Turned, Column
<1>4. CASE v # tx[s].about
  BY <1>1, <1>4, CommitRows, CommitLogs
<1> QED BY <1>2, <1>3, <1>4

LEMMA CommitInv ==
  ASSUME Inv, NEW s \in Session, Commit(s)
  PROVE  Inv'
<1>0. Ends(s) /\ overwritten \subseteq overwritten' /\ overwritten' \subseteq User
  BY DEF Commit, Outdated, Dirty, Inv, TypeOK, Tx
<1>1. TypeOK'
  <2>1. tx[s] \in Tx /\ known' \subseteq User /\ role' \in [User -> Roles]
    <3>1. tx[s] \in Tx /\ Sound(s) /\ TypeOK
      BY DEF Inv, TypeOK
    <3>2. tx[s].new = "yes" => tx[s].actor \in User \cup {Nobody}
      BY <3>1 DEF Tx
    <3>3. role' \in [User -> Roles]
      BY <3>1 DEF Commit, TypeOK, Tx
    <3>4. known' \subseteq User
      <4>1. known' = IF tx[s].new = "yes" THEN known \cup {tx[s].actor} ELSE known
        BY DEF Commit
      <4>2. tx[s].new = "yes" => tx[s].actor \in User
        BY <3>1 DEF Sound, Phase
      <4> QED BY <3>1, <4>1, <4>2 DEF TypeOK
    <3> QED BY <3>1, <3>3, <3>4
  <2> QED BY <1>0, <2>1, EndsFacts, CommitRows, CommitLogs DEF Inv, TypeOK
<1>2. ReferralRecorded'
  BY CommitReferral DEF ReferralRecorded
<1>3. ASSUME NEW v \in User \ overwritten'
      PROVE  /\ user'[v].warnings = log'[v]
             /\ user'[v].trust = Floor(FullTrust - lost'[v])
             /\ v \notin pardoned' => (user'[v].warnings >= 3 => user'[v].standing = "banned")
  <2> DEFINE m == tx[s].mine[v]
  <2>1. /\ user[v].warnings = log[v] /\ user[v].trust = Floor(FullTrust - lost[v])
        /\ v \notin pardoned => (user[v].warnings >= 3 => user[v].standing = "banned")
        /\ log[v] \in Int /\ lost[v] \in Nat /\ user[v] \in Row /\ tx[s] \in Tx
    BY <1>0 DEF Inv, TypeOK, WarningsLoggedUnlessOverwritten, TrustExactUnlessOverwritten,
           BannedAtThreeUnlessOverwritten
  <2>2. CASE v # tx[s].about
    BY <2>1, <2>2, CommitRows, CommitLogs DEF Row
  <2>3. CASE v = tx[s].about
    <3> DEFINE n == tx[s].seen[v]
    <3>1. /\ Turned(tx[s], m, n)
          /\ \/ /\ n = user[v] /\ user'[v].standing = m.standing
                /\ user'[v].warnings = m.warnings /\ user'[v].trust = m.trust
             \/ /\ m = n /\ user'[v].standing = user[v].standing
                /\ user'[v].warnings = user[v].warnings
                /\ user'[v].trust = user[v].trust /\ user[v].trust <= n.trust
      BY <2>3, CommitOwn
    <3>2. tx[s].cost \in Nat /\ m \in Row /\ n \in Row
      BY <2>1 DEF Tx
    <3> HIDE DEF m, n
    <3>3. user'[v].warnings = log'[v]
      BY <2>1, <2>3, <3>1, <3>2, CommitLogs DEF Turned, Row
    <3>4. user'[v].trust = Floor(FullTrust - lost'[v])
      <4>1. lost'[v] = lost[v] + tx[s].cost
        BY <2>3, CommitLogs
      <4>2. m.trust = Floor(n.trust - tx[s].cost)
        BY <3>1 DEF Turned
      <4>3. user[v].trust \in 0..FullTrust /\ n.trust \in 0..FullTrust
        BY <2>1, <3>2 DEF Row
      <4> QED BY <2>1, <3>1, <3>2, <4>1, <4>2, <4>3, BoundsAssumption DEF Floor
    <3>5. ASSUME v \notin pardoned', user'[v].warnings >= 3 PROVE user'[v].standing = "banned"
      <4>1. /\ tx[s].note # "unban"
            /\ v \in pardoned => tx[s].note = "warn"
        BY <2>3, <3>5, CommitLogs
      <4>2. CASE tx[s].note = "warn"
        BY <3>1, <3>2, <3>5, <4>2 DEF Turned, Row
      <4>3. CASE tx[s].note # "warn"
        BY <2>1, <3>1, <3>2, <3>5, <4>1, <4>3 DEF Turned, Row
      <4> QED BY <4>2, <4>3
    <3> QED BY <3>3, <3>4, <3>5
  <2> QED BY <2>2, <2>3
<1>4. (/\ WarningsLoggedUnlessOverwritten /\ BannedAtThreeUnlessOverwritten
      /\ TrustExactUnlessOverwritten)'
  BY <1>3
  DEF WarningsLoggedUnlessOverwritten, BannedAtThreeUnlessOverwritten, TrustExactUnlessOverwritten
<1>5. ASSUME NEW r \in Session PROVE Sound(r)'
  <2>1. CASE r = s
    BY <1>0, <2>1, EndsFacts, IdleSound
  <2>2. CASE r # s
    <3>1. tx'[r] = tx[r] /\ Sound(r) /\ tx[r] \in Tx
      BY <1>0, <2>2, EndsFacts DEF Inv, TypeOK
    <3>2. tx[r].pc = "ready" => lock'[tx[r].actor] = r
      BY <1>0, <2>2, <3>1, EndsFacts DEF Sound, Keeps, Phase, Clean
    <3>3. ASSUME tx[r].note = "referral"
          PROVE  lock'[tx[r].about] = r /\ referral'[tx[r].about] = Nobody
      <4>1. /\ tx[r].about \in User
            /\ lock[tx[r].about] = r /\ referral[tx[r].about] = Nobody
        BY <3>1, <3>3, NobodyIsNoUser DEF Sound, Noted, Tx, Keeps
      <4>2. ~(tx[s].about = tx[r].about /\ tx[s].note = "referral")
        BY <2>2, <4>1 DEF Inv, Sound, Keeps
      <4> QED BY <1>0, <2>2, <4>1, <4>2, CommitLogs, EndsFacts
    <3>4. Falls(r)'
      <4> SUFFICES ASSUME NEW v \in tx[r].has, v \notin overwritten'
                   PROVE  user'[v].trust <= tx[r].seen[v].trust
        BY <3>1 DEF Falls
      <4>1. /\ v \in User /\ user[v].trust <= tx[r].seen[v].trust /\ tx[r].seen[v] \in Row
            /\ user[v] \in Row /\ user'[v] \in Row /\ tx[s] \in Tx
        BY <1>0, <1>1, <3>1 DEF Sound, Falls, Tx, Inv, TypeOK
      <4>2. user'[v].trust <= user[v].trust
        <5>1. CASE v # tx[s].about
          BY <4>1, <5>1, CommitRows DEF Row
        <5>2. CASE v = tx[s].about
          <6>1. tx[s].mine[v].trust = Floor(tx[s].seen[v].trust - tx[s].cost)
                /\ tx[s].cost \in Nat
            BY <4>1, <5>2, CommitOwn DEF Turned, Tx
          <6> QED BY <4>1, <5>2, <6>1, CommitOwn, BoundsAssumption DEF Row, Floor
        <5> QED BY <5>1, <5>2
      <4> QED BY <4>1, <4>2, BoundsAssumption DEF Row
    <3> QED BY <3>1, <3>2, <3>3, <3>4 DEF Sound, Keeps
  <2> QED BY <2>1, <2>2
<1> QED BY <1>0, <1>1, <1>2, <1>4, <1>5, EndsFacts DEF Inv

(***************************************************************************)
(* Theorems                                                                *)
(***************************************************************************)
LEMMA InitInv == Init => Inv
<1> SUFFICES ASSUME Init PROVE Inv
  OBVIOUS
<1>1. \A s \in Session : tx[s] = IdleTx
  BY DEF Init
<1>2. IdleTx.pc = "idle" /\ IdleTx.note = "none" /\ IdleTx.has = {} /\ IdleTx.new = "no"
  BY DEF IdleTx
<1>3. TypeOK
  <2>1. tx \in [Session -> Tx] /\ user \in [User -> Row]
    BY IdleOK, NewRowOK DEF Init
  <2> QED BY <2>1, UserAssumption DEF Init, TypeOK, Roles
<1>4. \A s \in Session : Sound(s)
  BY <1>1, <1>2, IdleOK DEF Sound, Phase, Keeps, Falls
<1>5. ReferralRecorded /\ WarningsLoggedUnlessOverwritten /\ BannedAtThreeUnlessOverwritten
      /\ TrustExactUnlessOverwritten
  BY BoundsAssumption
  DEF Init, NewRow, ReferralRecorded, WarningsLoggedUnlessOverwritten,
      BannedAtThreeUnlessOverwritten, TrustExactUnlessOverwritten, Floor
<1> QED BY <1>3, <1>4, <1>5 DEF Inv

LEMMA StepInv ==
  ASSUME Inv, NEW s \in Session, Step(s)
  PROVE  Inv'
<1>1. CASE \E u \in Active : Receive(s, u)
  BY <1>1, ReceiveInv, UserAssumption
<1>2. CASE \E u \in Subject, d \in Penalty : Recheck(s, u, d)
  BY <1>2, TrustInv, UserAssumption
<1>3. CASE Register(s) \/ TakeRow(s)
  BY <1>3, EnterInv
<1>4. CASE RegisterFails(s) \/ Abort(s)
  BY <1>4, RollsBack DEF RegisterFails, Abort
<1>5. CASE Handler(s)
  <2>1. CASE \E d \in Penalty : Flagged(s, d)
    BY <2>1, TrustInv
  <2>2. CASE \E u \in User : Start(s, u)
    BY <2>2, StartInv
  <2>3. ASSUME NEW u \in Subject, Warn(s, u) \/ Unwarn(s, u) \/ Ban(s, u) \/ Unban(s, u)
        PROVE  Inv'
    BY <2>3, ModerateInv, UserAssumption
  <2>4. ASSUME NEW u \in Subject, RemoveAdmin(s, u) \/ \E r \in Grants : AddAdmin(s, u, r)
        PROVE  Inv'
    BY <2>4, AdminsInv, UserAssumption
  <2> QED BY <1>5, <2>1, <2>2, <2>3, <2>4 DEF Handler
<1>6. CASE Commit(s)
  BY <1>6, CommitInv
<1> QED BY <1>1, <1>2, <1>3, <1>4, <1>5, <1>6 DEF Step

LEMMA NextInv == Inv /\ [Next]_vars => Inv'
<1>1. Inv /\ Next => Inv'
  BY StepInv DEF Next
<1>2. ASSUME Inv, UNCHANGED vars PROVE Inv'
  BY <1>2
  DEF vars, tables, Inv, TypeOK, ReferralRecorded, WarningsLoggedUnlessOverwritten,
      BannedAtThreeUnlessOverwritten, TrustExactUnlessOverwritten, Sound, Keeps, Falls
<1> QED BY <1>1, <1>2

LEMMA SpecInv == Spec => []Inv
BY InitInv, NextInv, PTL DEF Spec

\* The tables and the sessions have the values their columns and objects allow.
THEOREM SpecTypeOK == Spec => []TypeOK
<1>1. Inv => TypeOK
  BY DEF Inv
<1> QED BY <1>1, SpecInv, PTL

\* The warnings of a row are those in the log, unless it was overwritten.
THEOREM SpecWarnings == Spec => []WarningsLoggedUnlessOverwritten
<1>1. Inv => WarningsLoggedUnlessOverwritten
  BY DEF Inv
<1> QED BY <1>1, SpecInv, PTL

\* Three warnings ban, unless the row was overwritten or an admin lifted the ban.
THEOREM SpecBanned == Spec => []BannedAtThreeUnlessOverwritten
<1>1. Inv => BannedAtThreeUnlessOverwritten
  BY DEF Inv
<1> QED BY <1>1, SpecInv, PTL

\* The trust of a row is what the penalties leave of it, unless it was overwritten.
THEOREM SpecTrust == Spec => []TrustExactUnlessOverwritten
<1>1. Inv => TrustExactUnlessOverwritten
  BY DEF Inv
<1> QED BY <1>1, SpecInv, PTL

\* What a step that is no commit leaves as it is.
LEMMA OnlyCommitWrites ==
  ASSUME Inv, [Next]_vars, ~ \E s \in Session : Commit(s)
  PROVE  UNCHANGED <<user, referral>>
<1>1. CASE UNCHANGED vars
  BY <1>1 DEF vars, tables
<1>2. ASSUME NEW s \in Session, Step(s), ~ Commit(s) PROVE UNCHANGED tables
  <2>1. CASE \E u \in Active : Receive(s, u)
    BY <2>1 DEF Receive
  <2>2. CASE \E u \in Subject, d \in Penalty : Recheck(s, u, d)
    BY <2>2 DEF Recheck, LoseTrust, Changes
  <2>3. CASE Register(s) \/ RegisterFails(s) \/ TakeRow(s) \/ Abort(s)
    BY <2>3 DEF Register, RegisterFails, TakeRow, Abort
  <2>4. CASE Handler(s)
    <3>1. CASE \E d \in Penalty : Flagged(s, d)
      BY <3>1 DEF Flagged, LoseTrust, Changes
    <3>2. CASE \E u \in User : Start(s, u)
      BY <3>2 DEF Start
    <3>3. CASE \E u \in Subject : Warn(s, u) \/ Unwarn(s, u) \/ Ban(s, u) \/ Unban(s, u)
      BY <3>3 DEF Warn, Unwarn, Ban, Unban, Changes
    <3>4. CASE \E u \in Subject : RemoveAdmin(s, u) \/ \E r \in Grants : AddAdmin(s, u, r)
      BY <3>4 DEF RemoveAdmin, AddAdmin
    <3> QED BY <2>4, <3>1, <3>2, <3>3, <3>4 DEF Handler
  <2> QED BY <1>2, <2>1, <2>2, <2>3, <2>4 DEF Step
<1> QED BY <1>1, <1>2 DEF Next, tables

\* However many /start run at a time, overwritten rows or not, a member keeps the
\* first referrer, and the row and the table agree on it.
THEOREM SpecReferralKept == Spec => ReferralKept
<1> DEFINE A == \A u \in User :
                  /\ user'[u].referrer = referral'[u]
                  /\ referral[u] # Nobody => referral'[u] = referral[u]
<1>1. Inv /\ [Next]_vars => A
  <2> SUFFICES ASSUME Inv, [Next]_vars PROVE A
    OBVIOUS
  <2>1. CASE \E s \in Session : Commit(s)
    BY <2>1, CommitReferral
  <2>2. CASE ~ \E s \in Session : Commit(s)
    BY <2>2, OnlyCommitWrites DEF Inv, ReferralRecorded
  <2> QED BY <2>1, <2>2
<1>2. A => [A]_vars
  OBVIOUS
<1> QED BY <1>1, <1>2, SpecInv, PTL DEF Spec, ReferralKept

\* However the sessions interleave, only an /unban lifts a ban.
THEOREM SpecBansLifted == Spec => BansLiftedByUnban
<1> DEFINE A == \A u \in User :
                  user[u].standing = "banned" /\ user'[u].standing = "active"
                    => \E s \in Session : tx[s].note = "unban" /\ tx[s].about = u
<1>1. Inv /\ [Next]_vars => A
  <2> SUFFICES ASSUME Inv, [Next]_vars, NEW u \in User,
                      user[u].standing = "banned", user'[u].standing = "active"
               PROVE  \E s \in Session : tx[s].note = "unban" /\ tx[s].about = u
    OBVIOUS
  <2>1. PICK s \in Session : Commit(s)
    BY OnlyCommitWrites
  <2>2. tx[s].about = u
    BY <2>1, CommitRows
  <2>3. /\ tx[s] \in Tx /\ Turned(tx[s], tx[s].mine[u], tx[s].seen[u])
        /\ user'[u].standing = Column(user[u].standing, tx[s].mine[u].standing,
                                      tx[s].seen[u].standing)
    BY <2>1, <2>2, CommitRows DEF Inv, TypeOK, Sound, Noted
  <2>4. tx[s].seen[u].standing \in {"active", "banned"}
    BY <2>3 DEF Tx, Row
  <2>5. tx[s].mine[u].standing = "active" /\ tx[s].seen[u].standing = "banned"
    BY <2>3, <2>4 DEF Column
  <2> QED BY <2>2, <2>3, <2>5 DEF Turned
<1> QED BY <1>1, SpecInv, PTL DEF Spec, BansLiftedByUnban
=============================================================================
