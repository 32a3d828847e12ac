--------------------------- MODULE WalletsProofs ---------------------------
(***************************************************************************)
(* Proofs about Wallets.  The inductive invariant says, besides the        *)
(* properties, what a session knows of the users it has loaded: its copy   *)
(* of a balance is bounded as the balance is (Sane), and it is the balance *)
(* with the session's own receipts while nobody else has written it        *)
(* (Faithful).                                                             *)
(***************************************************************************)
EXTENDS Wallets, TLAPS

\* What a session in the state t knows of a user u it has loaded, however old
\* that is.
Sane(t, u) ==
  /\ -(fined[u] + t.fine[u]) <= t.bal[u]
  /\ t.bal[u] <= credited[u] + t.credit[u]

\* What it knows of a user nobody else has written since.
Faithful(t, u) ==
  /\ t.bal[u] = balance[u] + t.credit[u] - t.debit[u] - t.fine[u]
  /\ t.earn[u] = earned[u] + t.credit[u]
  /\ u = t.actor => t.seen = last[u] /\ (t.claim # 0 => last[u] < t.claim)

\* A session writes receipts only of users it has loaded.
Own(t) ==
  /\ t.claim # 0 => t.actor # Nobody /\ t.claim <= day /\ t.credit[t.actor] > 0
  /\ \A u \in User \ t.has : t.credit[u] = 0 /\ t.debit[u] = 0 /\ t.fine[u] = 0

Good(s, t) ==
  /\ Own(t)
  /\ \A u \in t.has : Sane(t, u) /\ (<<s, u>> \notin stale => Faithful(t, u))

\* The users a session acts for and on are loaded.
Aimed(t) ==
  /\ t.pc = "idle" => t.has = {}
  /\ t.pc = "paid" => t.actor # Nobody
  /\ t.actor # Nobody => t.actor \in t.has
  /\ t.pc \in {"other", "adjust", "leave"} => t.target \in t.has

\* The days of the rewards a user got are over once the next is given.
DaysPast ==
  \A u \in User :
    /\ last[u] <= day
    /\ u \notin overwritten => \A d \in Day : daily[u][d] > 0 => d <= last[u]

Inv ==
  /\ TypeOK /\ BalanceBounded /\ ExactUnlessOverwritten /\ DailyOnceUnlessOverwritten
  /\ DaysPast
  /\ \A s \in Session : Good(s, tx[s]) /\ Aimed(tx[s])

LEMMA InitInv == Init => Inv
<1> SUFFICES ASSUME Init PROVE Inv
  OBVIOUS
<1> USE NobodyAssumption, UserAssumption, AmountAssumption DEF Init
<1>1. Zero \in [User -> Nat] /\ (\A u \in User : Zero[u] = 0)
  BY DEF Zero
<1>2. 1 \in Day /\ Day \subseteq Int
  BY DEF Day
<1>3. IdleTx \in Tx
  BY <1>1 DEF IdleTx, Tx
<1>4. TypeOK
  BY <1>1, <1>2, <1>3 DEF TypeOK
<1>5. BalanceBounded /\ ExactUnlessOverwritten
  BY <1>1 DEF BalanceBounded, ExactUnlessOverwritten
<1>6. DailyOnceUnlessOverwritten /\ DaysPast
  BY <1>1, <1>2 DEF DailyOnceUnlessOverwritten, DaysPast
<1>8. ASSUME NEW s \in Session PROVE Good(s, tx[s]) /\ Aimed(tx[s])
  BY <1>1 DEF Good, Own, Aimed, IdleTx
<1> QED
  BY <1>4, <1>5, <1>6, <1>8 DEF Inv

(***************************************************************************)
(* The steps of a session before its end                                   *)
(***************************************************************************)

\* Loading a user keeps a session good: the copy is the row.
LEMMA LoadGood ==
  ASSUME Inv, NEW s \in Session, NEW u \in User, NEW t \in Tx,
         t.has = tx[s].has, Good(s, t),
         u \notin t.has /\ u = t.actor => t.seen = last[u] /\ t.claim = 0
  PROVE  LET n == Load(s, t, u)
         IN  /\ n \in Tx /\ Good(s, n)
             /\ n.has = t.has \cup {u}
             /\ n.pc = t.pc /\ n.actor = t.actor /\ n.target = t.target
<1> DEFINE n == Load(s, t, u)
<1>1. CASE u \in t.has
  BY <1>1 DEF Load
<1>2. CASE u \notin t.has
  <2> DEFINE bal == [t.bal EXCEPT ![u] = balance[u]]
             earn == [t.earn EXCEPT ![u] = earned[u]]
             has == t.has \cup {u}
  <2>1. n = [t EXCEPT !.has = has, !.bal = bal, !.earn = earn]
    BY <1>2 DEF Load, Tx
  <2>2. bal \in [User -> Int] /\ earn \in [User -> Nat] /\ has \in SUBSET User
    BY DEF Inv, TypeOK, Tx
  <2>3. /\ bal[u] = balance[u] /\ earn[u] = earned[u]
        /\ \A v \in t.has : bal[v] = t.bal[v] /\ earn[v] = t.earn[v]
    BY <1>2 DEF Tx
  <2> HIDE DEF bal, earn, has
  <2>4. /\ n \in Tx
        /\ n.has = has /\ n.bal = bal /\ n.earn = earn
        /\ n.pc = t.pc /\ n.actor = t.actor /\ n.target = t.target
        /\ n.seen = t.seen /\ n.claim = t.claim
        /\ n.credit = t.credit /\ n.debit = t.debit /\ n.fine = t.fine
    BY <2>1, <2>2 DEF Tx
  <2> HIDE DEF n
  <2>5. t.credit[u] = 0 /\ t.debit[u] = 0 /\ t.fine[u] = 0
    BY <1>2 DEF Good, Own
  <2>6. Own(n)
    BY <2>4 DEF Good, Own, has
  <2>7. Sane(n, u) /\ (<<s, u>> \notin stale => Faithful(n, u))
    <3>1. /\ -fined[u] <= balance[u] /\ balance[u] <= credited[u]
          /\ balance[u] \in Int /\ earned[u] \in Nat
          /\ fined[u] \in Nat /\ credited[u] \in Nat
      BY DEF Inv, TypeOK, BalanceBounded
    <3> QED
      BY <1>2, <2>3, <2>4, <2>5, <3>1 DEF Sane, Faithful
  <2>8. ASSUME NEW v \in t.has
        PROVE Sane(n, v) /\ (<<s, v>> \notin stale => Faithful(n, v))
    BY <2>3, <2>4 DEF Good, Sane, Faithful
  <2>9. /\ n \in Tx /\ Good(s, n) /\ n.has = t.has \cup {u}
        /\ n.pc = t.pc /\ n.actor = t.actor /\ n.target = t.target
    BY <2>4, <2>6, <2>7, <2>8 DEF Good, has
  <2> QED
    BY <2>9 DEF n
<1> QED
  BY <1>1, <1>2

\* What a session does before it commits keeps the invariant, if it leaves the
\* session good.
LEMMA Inside ==
  ASSUME Inv, NEW s \in Session, NEW n \in Tx, Good(s, n), Aimed(n),
         tx' = [tx EXCEPT ![s] = n],
         UNCHANGED <<rows, day, overwritten>>,
         lock' \in [Lockable -> Session \cup {Nobody}],
         stale' = stale \/ (stale' = {p \in stale : p[1] # s} /\ n.has = {})
  PROVE  Inv'
<1>1. TypeOK'
  BY DEF Inv, TypeOK, rows, receipts
<1>2. /\ BalanceBounded' /\ ExactUnlessOverwritten' /\ DailyOnceUnlessOverwritten'
      /\ DaysPast'
  BY DEF Inv, BalanceBounded, ExactUnlessOverwritten, DailyOnceUnlessOverwritten, DaysPast,
         rows, receipts
<1>3. \A t \in Session : tx'[t] = IF t = s THEN n ELSE tx[t]
  BY DEF Inv, TypeOK
<1>4. \A t \in Session : \A u \in tx'[t].has : <<t, u>> \in stale' <=> <<t, u>> \in stale
  BY <1>3
<1>5. ASSUME NEW t \in Session PROVE (Good(t, tx[t]) /\ Aimed(tx[t]))'
  <2>0. PICK x : x = tx'[t]
    OBVIOUS
  <2>1. Good(t, x) /\ Aimed(x)
    BY <1>3, <2>0 DEF Inv
  <2>2. Own(x)' /\ Aimed(x)'
    BY <2>1 DEF Good, Own, Aimed
  <2>3. ASSUME NEW u \in x.has
        PROVE  Sane(x, u)' /\ (<<t, u>> \notin stale' => Faithful(x, u)')
    <3>1. Sane(x, u) /\ (<<t, u>> \notin stale => Faithful(x, u))
      BY <2>1 DEF Good
    <3> QED
      BY <1>4, <2>0, <3>1 DEF Sane, Faithful, rows, receipts
  <2> QED
    BY <2>0, <2>2, <2>3 DEF Good
<1> QED
  BY <1>1, <1>2, <1>5 DEF Inv

\* Lock hands out locks to sessions.
LEMMA LockType ==
  ASSUME TypeOK, NEW s \in Session, NEW K, Lock(s, K)
  PROVE  lock' \in [Lockable -> Session \cup {Nobody}]
BY DEF TypeOK, Lock

\* A credit keeps a session good: it raises balance and receipts alike.
LEMMA CreditGood ==
  ASSUME Inv, NEW s \in Session, NEW t \in Tx, Good(s, t), NEW u \in t.has, NEW a \in Nat
  PROVE  LET n == Credit(t, u, a)
         IN  /\ n \in Tx /\ Good(s, n)
             /\ n.has = t.has /\ n.pc = t.pc
             /\ n.actor = t.actor /\ n.target = t.target
<1> DEFINE n == Credit(t, u, a)
           bal == [t.bal EXCEPT ![u] = @ + a]
           earn == [t.earn EXCEPT ![u] = @ + a]
           credit == [t.credit EXCEPT ![u] = @ + a]
<1>1. n = [t EXCEPT !.bal = bal, !.earn = earn, !.credit = credit]
  BY DEF Credit, Tx
<1>2. u \in User
  BY DEF Tx
<1>3. bal \in [User -> Int] /\ earn \in [User -> Nat] /\ credit \in [User -> Nat]
  BY <1>2 DEF Tx
<1>4. /\ bal[u] = t.bal[u] + a /\ earn[u] = t.earn[u] + a
      /\ credit[u] = t.credit[u] + a
      /\ \A v \in User : v # u =>
           bal[v] = t.bal[v] /\ earn[v] = t.earn[v] /\ credit[v] = t.credit[v]
  BY <1>2 DEF Tx
<1> HIDE DEF bal, earn, credit
<1>5. /\ n \in Tx
      /\ n.bal = bal /\ n.earn = earn /\ n.credit = credit
      /\ n.has = t.has /\ n.pc = t.pc /\ n.actor = t.actor /\ n.target = t.target
      /\ n.seen = t.seen /\ n.claim = t.claim
      /\ n.debit = t.debit /\ n.fine = t.fine
  BY <1>1, <1>3 DEF Tx
<1> HIDE DEF n
<1>6. Own(n)
  <2>1. t.claim # 0 => t.actor \in User
    BY DEF Good, Own, Tx
  <2>2. t.claim # 0 => t.credit[t.actor] > 0 /\ credit[t.actor] > 0
    BY <1>2, <1>4, <2>1 DEF Good, Own, Tx
  <2> QED
    BY <1>4, <1>5, <2>2 DEF Good, Own
<1>7. ASSUME NEW v \in n.has
      PROVE Sane(n, v) /\ (<<s, v>> \notin stale => Faithful(n, v))
  <2>1. /\ v \in User /\ v \in t.has
        /\ t.bal[v] \in Int /\ t.earn[v] \in Nat
        /\ t.credit[v] \in Nat /\ t.debit[v] \in Nat /\ t.fine[v] \in Nat
        /\ balance[v] \in Int /\ earned[v] \in Nat
        /\ credited[v] \in Nat /\ fined[v] \in Nat
    BY <1>5 DEF Tx, Inv, TypeOK
  <2>2. Sane(t, v) /\ (<<s, v>> \notin stale => Faithful(t, v))
    BY <2>1 DEF Good
  <2>3. CASE v = u
    BY <1>4, <1>5, <2>1, <2>2, <2>3 DEF Sane, Faithful
  <2>4. CASE v # u
    BY <1>4, <1>5, <2>1, <2>2, <2>4 DEF Sane, Faithful
  <2> QED
    BY <2>3, <2>4
<1>8. /\ n \in Tx /\ Good(s, n) /\ n.has = t.has /\ n.pc = t.pc
      /\ n.actor = t.actor /\ n.target = t.target
  BY <1>5, <1>6, <1>7 DEF Good
<1> QED
  BY <1>8 DEF n

\* A payment that the balance covers keeps a session good: what is left is not
\* negative, so it is no debt beyond the penalties.
LEMMA DebitGood ==
  ASSUME Inv, NEW s \in Session, NEW t \in Tx, Good(s, t), NEW u \in t.has, NEW a \in Nat,
         t.bal[u] >= a
  PROVE  LET n == Debit(t, u, a)
         IN  /\ n \in Tx /\ Good(s, n)
             /\ n.has = t.has /\ n.pc = t.pc
             /\ n.actor = t.actor /\ n.target = t.target
<1> DEFINE n == Debit(t, u, a)
           bal == [t.bal EXCEPT ![u] = @ - a]
           debit == [t.debit EXCEPT ![u] = @ + a]
<1>1. n = [t EXCEPT !.bal = bal, !.debit = debit]
  BY DEF Debit, Tx
<1>2. u \in User
  BY DEF Tx
<1>3. bal \in [User -> Int] /\ debit \in [User -> Nat]
  BY <1>2 DEF Tx
<1>4. /\ bal[u] = t.bal[u] - a /\ debit[u] = t.debit[u] + a
      /\ \A v \in User : v # u => bal[v] = t.bal[v] /\ debit[v] = t.debit[v]
  BY <1>2 DEF Tx
<1> HIDE DEF bal, debit
<1>5. /\ n \in Tx
      /\ n.bal = bal /\ n.debit = debit
      /\ n.has = t.has /\ n.pc = t.pc /\ n.actor = t.actor /\ n.target = t.target
      /\ n.seen = t.seen /\ n.claim = t.claim
      /\ n.earn = t.earn /\ n.credit = t.credit /\ n.fine = t.fine
  BY <1>1, <1>3 DEF Tx
<1> HIDE DEF n
<1>6. Own(n)
  BY <1>4, <1>5 DEF Good, Own
<1>7. ASSUME NEW v \in n.has
      PROVE Sane(n, v) /\ (<<s, v>> \notin stale => Faithful(n, v))
  <2>1. /\ v \in User /\ v \in t.has
        /\ t.bal[v] \in Int /\ t.earn[v] \in Nat
        /\ t.credit[v] \in Nat /\ t.debit[v] \in Nat /\ t.fine[v] \in Nat
        /\ balance[v] \in Int /\ earned[v] \in Nat
        /\ credited[v] \in Nat /\ fined[v] \in Nat
    BY <1>5 DEF Tx, Inv, TypeOK
  <2>2. Sane(t, v) /\ (<<s, v>> \notin stale => Faithful(t, v))
    BY <2>1 DEF Good
  <2>3. CASE v = u
    BY <1>4, <1>5, <2>1, <2>2, <2>3 DEF Sane, Faithful
  <2>4. CASE v # u
    BY <1>4, <1>5, <2>1, <2>2, <2>4 DEF Sane, Faithful
  <2> QED
    BY <2>3, <2>4
<1>8. /\ n \in Tx /\ Good(s, n) /\ n.has = t.has /\ n.pc = t.pc
      /\ n.actor = t.actor /\ n.target = t.target
  BY <1>5, <1>6, <1>7 DEF Good
<1> QED
  BY <1>8 DEF n

\* A penalty keeps a session good: the debt grows by as much as the fines.
LEMMA FineGood ==
  ASSUME Inv, NEW s \in Session, NEW t \in Tx, Good(s, t), NEW u \in t.has, NEW a \in Nat
  PROVE  LET n == Fine(t, u, a)
         IN  /\ n \in Tx /\ Good(s, n)
             /\ n.has = t.has /\ n.pc = t.pc
             /\ n.actor = t.actor /\ n.target = t.target
<1> DEFINE n == Fine(t, u, a)
           bal == [t.bal EXCEPT ![u] = @ - a]
           fine == [t.fine EXCEPT ![u] = @ + a]
<1>1. n = [t EXCEPT !.bal = bal, !.fine = fine]
  BY DEF Fine, Tx
<1>2. u \in User
  BY DEF Tx
<1>3. bal \in [User -> Int] /\ fine \in [User -> Nat]
  BY <1>2 DEF Tx
<1>4. /\ bal[u] = t.bal[u] - a /\ fine[u] = t.fine[u] + a
      /\ \A v \in User : v # u => bal[v] = t.bal[v] /\ fine[v] = t.fine[v]
  BY <1>2 DEF Tx
<1> HIDE DEF bal, fine
<1>5. /\ n \in Tx
      /\ n.bal = bal /\ n.fine = fine
      /\ n.has = t.has /\ n.pc = t.pc /\ n.actor = t.actor /\ n.target = t.target
      /\ n.seen = t.seen /\ n.claim = t.claim
      /\ n.earn = t.earn /\ n.credit = t.credit /\ n.debit = t.debit
  BY <1>1, <1>3 DEF Tx
<1> HIDE DEF n
<1>6. Own(n)
  BY <1>4, <1>5 DEF Good, Own
<1>7. ASSUME NEW v \in n.has
      PROVE Sane(n, v) /\ (<<s, v>> \notin stale => Faithful(n, v))
  <2>1. /\ v \in User /\ v \in t.has
        /\ t.bal[v] \in Int /\ t.earn[v] \in Nat
        /\ t.credit[v] \in Nat /\ t.debit[v] \in Nat /\ t.fine[v] \in Nat
        /\ balance[v] \in Int /\ earned[v] \in Nat
        /\ credited[v] \in Nat /\ fined[v] \in Nat
    BY <1>5 DEF Tx, Inv, TypeOK
  <2>2. Sane(t, v) /\ (<<s, v>> \notin stale => Faithful(t, v))
    BY <2>1 DEF Good
  <2>3. CASE v = u
    BY <1>4, <1>5, <2>1, <2>2, <2>3 DEF Sane, Faithful
  <2>4. CASE v # u
    BY <1>4, <1>5, <2>1, <2>2, <2>4 DEF Sane, Faithful
  <2> QED
    BY <2>3, <2>4
<1>8. /\ n \in Tx /\ Good(s, n) /\ n.has = t.has /\ n.pc = t.pc
      /\ n.actor = t.actor /\ n.target = t.target
  BY <1>5, <1>6, <1>7 DEF Good
<1> QED
  BY <1>8 DEF n

\* Where a session is does not matter to what it knows.
LEMMA PcGood ==
  ASSUME NEW s \in Session, NEW t \in Tx, Good(s, t),
         NEW p \in {"ready", "paid", "other", "adjust", "leave", "done"},
         NEW n, n = [t EXCEPT !.pc = p]
  PROVE  /\ n \in Tx /\ Good(s, n)
         /\ n.has = t.has /\ n.pc = p /\ n.bal = t.bal
         /\ n.actor = t.actor /\ n.target = t.target
         /\ n.seen = t.seen
<1>1. /\ n \in Tx
      /\ n.pc = p /\ n.target = t.target
      /\ n.has = t.has /\ n.actor = t.actor
      /\ n.seen = t.seen /\ n.claim = t.claim
      /\ n.bal = t.bal /\ n.earn = t.earn
      /\ n.credit = t.credit /\ n.debit = t.debit /\ n.fine = t.fine
  BY DEF Tx
<1>2. Good(s, n)
  BY <1>1 DEF Good, Own, Sane, Faithful
<1> QED
  BY <1>1, <1>2

LEMMA IdleGood ==
  /\ IdleTx \in Tx /\ Aimed(IdleTx) /\ IdleTx.has = {}
  /\ \A s \in Session : Good(s, IdleTx)
<1>1. Zero \in [User -> Nat] /\ Zero \in [User -> Int] /\ (\A u \in User : Zero[u] = 0)
  BY DEF Zero
<1>2. 0 \in 0..MaxDay
  BY AmountAssumption
<1>3. IdleTx \in Tx
  BY <1>1, <1>2 DEF IdleTx, Tx
<1>4. Aimed(IdleTx) /\ IdleTx.has = {} /\ \A s \in Session : Good(s, IdleTx)
  BY <1>1 DEF Good, Own, Aimed, IdleTx
<1> QED
  BY <1>3, <1>4

LEMMA ReceiveInv ==
  ASSUME Inv, NEW s \in Session, NEW u \in User, Receive(s, u)
  PROVE  Inv'
<1> DEFINE t == [IdleTx EXCEPT !.pc = "read", !.actor = u, !.seen = last[u]]
           n == Load(s, t, u)
<1>1. tx[s].has = {} /\ u # Nobody
  BY NobodyAssumption DEF Receive, Inv, Aimed
<1>2. last[u] \in 0..MaxDay
  BY DEF Inv, TypeOK
<1>3. /\ t \in Tx /\ t.has = {} /\ t.pc = "read" /\ t.actor = u
      /\ t.seen = last[u] /\ t.claim = 0
  BY <1>2, IdleGood DEF IdleTx, Tx
<1>4. Good(s, t)
  <2>1. t.credit = Zero /\ t.debit = Zero /\ t.fine = Zero
    BY DEF IdleTx
  <2> HIDE DEF t
  <2> QED
    BY <1>3, <2>1 DEF Good, Own, Zero
<1>5. tx' = [tx EXCEPT ![s] = n]
  BY DEF Receive
<1> HIDE DEF t
<1>6. /\ n \in Tx /\ Good(s, n) /\ n.has = {u} /\ n.pc = "read" /\ n.actor = u
  <2>1. t.has = tx[s].has
    BY <1>1, <1>3
  <2>2. u \notin t.has /\ u = t.actor => t.seen = last[u] /\ t.claim = 0
    BY <1>3
  <2>3. /\ n \in Tx /\ Good(s, n) /\ n.has = t.has \cup {u}
        /\ n.pc = t.pc /\ n.actor = t.actor
    BY <1>3, <1>4, <2>1, <2>2, LoadGood
  <2> QED
    BY <1>3, <2>3
<1> HIDE DEF n
<1>7. Aimed(n)
  BY <1>6 DEF Aimed
<1>8. /\ UNCHANGED <<rows, day, overwritten>> /\ stale' = stale
      /\ lock' \in [Lockable -> Session \cup {Nobody}]
  BY DEF Receive, history, Inv, TypeOK
<1> QED
  BY <1>5, <1>6, <1>7, <1>8, Inside

LEMMA TakeRowInv ==
  ASSUME Inv, NEW s \in Session, TakeRow(s)
  PROVE  Inv'
<1> DEFINE n == [tx[s] EXCEPT !.pc = "ready"]
<1>1. tx[s] \in Tx /\ Good(s, tx[s]) /\ Aimed(tx[s])
  BY DEF Inv, TypeOK
<1>2. tx' = [tx EXCEPT ![s] = n]
  BY DEF TakeRow
<1>3. /\ n \in Tx /\ Good(s, n) /\ n.has = tx[s].has /\ n.pc = "ready"
      /\ n.actor = tx[s].actor
  BY <1>1, PcGood
<1> HIDE DEF n
<1>4. Aimed(n)
  BY <1>1, <1>3 DEF Aimed
<1>5. lock' \in [Lockable -> Session \cup {Nobody}]
  BY LockType DEF TakeRow, Inv
<1> QED
  BY <1>2, <1>3, <1>4, <1>5, Inside DEF TakeRow, history

\* The common part of the actions that credit u: the session turns to pc p.
LEMMA CreditInv ==
  ASSUME Inv, NEW s \in Session, NEW u \in tx[s].has, NEW a \in Reward,
         NEW p \in {"paid", "done"}, p = "paid" => tx[s].actor # Nobody,
         NEW K, Lock(s, K),
         tx' = [tx EXCEPT ![s] = Credit([tx[s] EXCEPT !.pc = p], u, a)],
         UNCHANGED <<rows, day, history>>
  PROVE  Inv'
<1> DEFINE t == [tx[s] EXCEPT !.pc = p]
           n == Credit(t, u, a)
<1>1. tx[s] \in Tx /\ Good(s, tx[s]) /\ Aimed(tx[s]) /\ a \in Nat
  BY AmountAssumption DEF Inv, TypeOK
<1>p. p \in {"ready", "paid", "other", "adjust", "leave", "done"}
  OBVIOUS
<1>2. /\ t \in Tx /\ Good(s, t) /\ t.has = tx[s].has /\ t.pc = p
      /\ t.actor = tx[s].actor
  BY <1>p, <1>1, PcGood
<1> HIDE DEF t
<1>3. /\ n \in Tx /\ Good(s, n) /\ n.has = tx[s].has /\ n.pc = p
      /\ n.actor = tx[s].actor
  BY <1>1, <1>2, CreditGood
<1>4. tx' = [tx EXCEPT ![s] = n]
  BY DEF t
<1> HIDE DEF n
<1>5. Aimed(n)
  BY <1>1, <1>3 DEF Aimed
<1>6. lock' \in [Lockable -> Session \cup {Nobody}]
  BY LockType DEF Inv
<1> QED
  BY <1>3, <1>4, <1>5, <1>6, Inside DEF history

\* The common part of the actions that make u pay.
LEMMA DebitInv ==
  ASSUME Inv, NEW s \in Session, NEW u \in tx[s].has, NEW a \in Price,
         NEW p \in {"paid", "done"}, p = "paid" => tx[s].actor # Nobody,
         NEW K, Lock(s, K), Affords(s, u, a),
         tx' = [tx EXCEPT ![s] = Debit([tx[s] EXCEPT !.pc = p], u, a)],
         UNCHANGED <<rows, day, history>>
  PROVE  Inv'
<1> DEFINE t == [tx[s] EXCEPT !.pc = p]
           n == Debit(t, u, a)
<1>1. tx[s] \in Tx /\ Good(s, tx[s]) /\ Aimed(tx[s]) /\ a \in Nat
  BY AmountAssumption DEF Inv, TypeOK
<1>p. p \in {"ready", "paid", "other", "adjust", "leave", "done"}
  OBVIOUS
<1>2. /\ t \in Tx /\ Good(s, t) /\ t.has = tx[s].has /\ t.pc = p
      /\ t.actor = tx[s].actor /\ t.bal = tx[s].bal
  BY <1>p, <1>1, PcGood
<1> HIDE DEF t
<1>3. /\ n \in Tx /\ Good(s, n) /\ n.has = tx[s].has /\ n.pc = p
      /\ n.actor = tx[s].actor
  BY <1>1, <1>2, DebitGood DEF Affords
<1>4. tx' = [tx EXCEPT ![s] = n]
  BY DEF t
<1> HIDE DEF n
<1>5. Aimed(n)
  BY <1>1, <1>3 DEF Aimed
<1>6. lock' \in [Lockable -> Session \cup {Nobody}]
  BY LockType DEF Inv
<1> QED
  BY <1>3, <1>4, <1>5, <1>6, Inside DEF history

LEMMA ClaimDailyInv ==
  ASSUME Inv, NEW s \in Session, NEW a \in Reward, ClaimDaily(s, a)
  PROVE  Inv'
<1> DEFINE u == tx[s].actor
           t == [tx[s] EXCEPT !.pc = "done"]
           m == Credit(t, u, a)
           n == [m EXCEPT !.claim = day]
<1>1. /\ tx[s] \in Tx /\ Good(s, tx[s]) /\ Aimed(tx[s]) /\ a \in Nat
      /\ u # Nobody /\ tx[s].seen # day
  BY AmountAssumption DEF Inv, TypeOK, ClaimDaily
<1>2. u \in tx[s].has /\ u \in User
  BY <1>1 DEF Aimed, Tx
<1>3. /\ t \in Tx /\ Good(s, t) /\ t.has = tx[s].has /\ t.pc = "done"
      /\ t.actor = u /\ t.seen = tx[s].seen
  BY <1>1, PcGood
<1>4. m.seen = t.seen /\ m.credit[u] > 0
  <2>1. t.credit[u] \in Nat /\ a \in Nat /\ a > 0
    BY <1>2, <1>3, AmountAssumption DEF Tx
  <2>2. m.seen = t.seen /\ m.credit[u] = t.credit[u] + a
    BY <1>2, <1>3 DEF Credit, Tx
  <2> HIDE DEF t, m
  <2> QED
    BY <2>1, <2>2
<1>5. tx' = [tx EXCEPT ![s] = n]
  BY DEF ClaimDaily, Claims
<1> HIDE DEF t
<1>6. /\ m \in Tx /\ Good(s, m) /\ m.has = tx[s].has /\ m.pc = "done"
      /\ m.actor = u /\ m.seen = tx[s].seen /\ m.credit[u] > 0
  BY <1>1, <1>2, <1>3, <1>4, CreditGood
<1>7. day \in 1..MaxDay /\ MaxDay \in Nat /\ last[u] \in 0..MaxDay /\ last[u] <= day
  BY <1>2, AmountAssumption DEF Inv, TypeOK, Day, DaysPast
<1> HIDE DEF m
<1>8. /\ n \in Tx /\ n.claim = day
      /\ n.has = m.has /\ n.actor = m.actor /\ n.pc = m.pc /\ n.seen = m.seen
      /\ n.bal = m.bal /\ n.earn = m.earn
      /\ n.credit = m.credit /\ n.debit = m.debit /\ n.fine = m.fine
  BY <1>6, <1>7 DEF Tx
<1> HIDE DEF n
<1>9. Own(n)
  BY <1>1, <1>6, <1>7, <1>8 DEF Good, Own
<1>10. ASSUME NEW v \in n.has
       PROVE Sane(n, v) /\ (<<s, v>> \notin stale => Faithful(n, v))
  <2>1. Sane(m, v) /\ (<<s, v>> \notin stale => Faithful(m, v))
    BY <1>6, <1>8 DEF Good
  <2>2. <<s, v>> \notin stale /\ v = n.actor => last[v] < n.claim
    <3> SUFFICES ASSUME <<s, v>> \notin stale, v = n.actor PROVE last[v] < n.claim
      OBVIOUS
    <3>1. v = u /\ m.seen = last[v]
      BY <1>6, <1>8, <2>1 DEF Faithful
    <3> QED
      BY <1>1, <1>6, <1>7, <1>8, <3>1
  <2> QED
    BY <1>8, <2>1, <2>2 DEF Sane, Faithful
<1>11. Good(s, n) /\ Aimed(n)
  BY <1>1, <1>2, <1>6, <1>8, <1>9, <1>10 DEF Good, Aimed
<1>12. lock' \in [Lockable -> Session \cup {Nobody}]
  BY LockType DEF ClaimDaily, Inv
<1>13. n.has \subseteq tx[s].has
  BY <1>6, <1>8
<1> QED
  BY <1>5, <1>8, <1>11, <1>12, <1>13, Inside DEF ClaimDaily, history

LEMMA EarnInv ==
  ASSUME Inv, NEW s \in Session, NEW a \in Reward, Earn(s, a)
  PROVE  Inv'
<1>1. tx[s].actor \in tx[s].has
  BY DEF Earn, Inv, Aimed
<1> QED
  BY <1>1, CreditInv DEF Earn

LEMMA PayInv ==
  ASSUME Inv, NEW s \in Session, NEW a \in Price, Pay(s, a)
  PROVE  Inv'
<1>1. tx[s].actor \in tx[s].has
  BY DEF Pay, Inv, Aimed
<1> QED
  BY <1>1, DebitInv DEF Pay

LEMMA CreditOtherInv ==
  ASSUME Inv, NEW s \in Session, NEW a \in Reward, CreditOther(s, a)
  PROVE  Inv'
<1>1. tx[s].target \in tx[s].has
  BY DEF CreditOther, Inv, Aimed
<1> QED
  BY <1>1, CreditInv DEF CreditOther

LEMMA DebitOtherInv ==
  ASSUME Inv, NEW s \in Session, NEW a \in Price, DebitOther(s, a)
  PROVE  Inv'
<1>1. tx[s].target \in tx[s].has
  BY DEF DebitOther, Inv, Aimed
<1> QED
  BY <1>1, DebitInv DEF DebitOther

\* The common part of the actions that read another user.
LEMMA FetchInv ==
  ASSUME Inv, NEW s \in Session, NEW r \in User,
         NEW p \in {"other", "adjust", "leave"}, tx[s].pc # "idle",
         tx' = [tx EXCEPT ![s] = Load(s, [tx[s] EXCEPT !.pc = p, !.target = r], r)],
         UNCHANGED <<rows, day, lock, history>>
  PROVE  Inv'
<1> DEFINE t == [tx[s] EXCEPT !.pc = p, !.target = r]
           n == Load(s, t, r)
<1>1. tx[s] \in Tx /\ Good(s, tx[s]) /\ Aimed(tx[s]) /\ r # Nobody
  BY NobodyAssumption DEF Inv, TypeOK
<1>2. /\ t \in Tx /\ Good(s, t) /\ t.has = tx[s].has /\ t.pc = p
      /\ t.actor = tx[s].actor /\ t.target = r
  <2>1. /\ t \in Tx /\ t.pc = p /\ t.target = r
        /\ t.has = tx[s].has /\ t.actor = tx[s].actor
        /\ t.seen = tx[s].seen /\ t.claim = tx[s].claim
        /\ t.bal = tx[s].bal /\ t.earn = tx[s].earn /\ t.credit = tx[s].credit
        /\ t.debit = tx[s].debit /\ t.fine = tx[s].fine
    BY <1>1 DEF Tx
  <2> HIDE DEF t
  <2>2. Good(s, t)
    BY <1>1, <2>1 DEF Good, Own, Sane, Faithful
  <2> QED
    BY <2>1, <2>2
<1>3. tx' = [tx EXCEPT ![s] = n]
  OBVIOUS
<1> HIDE DEF t
<1>4. r \notin t.has /\ r = t.actor => t.seen = last[r] /\ t.claim = 0
  BY <1>1, <1>2 DEF Aimed
<1>5. /\ n \in Tx /\ Good(s, n) /\ n.has = t.has \cup {r}
      /\ n.pc = t.pc /\ n.actor = t.actor /\ n.target = t.target
  BY <1>2, <1>4, LoadGood
<1> HIDE DEF n
<1>6. Aimed(n)
  BY <1>1, <1>2, <1>5 DEF Aimed
<1>7. /\ UNCHANGED <<rows, day, overwritten>> /\ stale' = stale
      /\ lock' \in [Lockable -> Session \cup {Nobody}]
  BY DEF history, Inv, TypeOK
<1> QED
  BY <1>3, <1>5, <1>6, <1>7, Inside

LEMMA FetchReferrerInv ==
  ASSUME Inv, NEW s \in Session, FetchReferrer(s)
  PROVE  Inv'
<1>1. tx[s].actor \in User
  BY DEF FetchReferrer, Inv, Aimed, TypeOK, Tx
<1>2. ReferrerOf[tx[s].actor] \in User
  BY <1>1, UserAssumption DEF FetchReferrer
<1> QED
  BY <1>2, FetchInv DEF FetchReferrer

LEMMA FetchAdjustedInv ==
  ASSUME Inv, NEW s \in Session, NEW u \in User, FetchAdjusted(s, u)
  PROVE  Inv'
BY FetchInv DEF FetchAdjusted

LEMMA FetchLeaverInv ==
  ASSUME Inv, NEW s \in Session, NEW u \in User, FetchLeaver(s, u)
  PROVE  Inv'
BY FetchInv DEF FetchLeaver

LEMMA FineLeaverInv ==
  ASSUME Inv, NEW s \in Session, NEW a \in Penalty, NEW T, FineLeaver(s, a, T)
  PROVE  Inv'
<1> DEFINE u == tx[s].target
           n == Fine(tx[s], u, a)
<1>1. /\ tx[s] \in Tx /\ Good(s, tx[s]) /\ Aimed(tx[s]) /\ a \in Nat
      /\ u \in tx[s].has
  BY AmountAssumption DEF Inv, TypeOK, FineLeaver, Aimed
<1>2. tx' = [tx EXCEPT ![s] = n]
  BY DEF FineLeaver, Inv, TypeOK
<1>3. /\ n \in Tx /\ Good(s, n) /\ n.has = tx[s].has /\ n.pc = tx[s].pc
      /\ n.actor = tx[s].actor /\ n.target = u
  BY <1>1, FineGood
<1> HIDE DEF n
<1>4. Aimed(n)
  BY <1>1, <1>3 DEF Aimed
<1>5. lock' \in [Lockable -> Session \cup {Nobody}]
  BY LockType DEF FineLeaver, Inv
<1> QED
  BY <1>2, <1>3, <1>4, <1>5, Inside DEF FineLeaver, history

LEMMA RecheckStartInv ==
  ASSUME Inv, NEW s \in Session, RecheckStart(s)
  PROVE  Inv'
<1> DEFINE n == [IdleTx EXCEPT !.pc = "ready"]
<1>1. tx' = [tx EXCEPT ![s] = n]
  BY DEF RecheckStart
<1>2. IdleTx.actor = Nobody
  BY DEF IdleTx
<1>3. /\ n \in Tx /\ Good(s, n) /\ n.has = {} /\ n.pc = "ready" /\ n.actor = Nobody
  BY <1>2, IdleGood, PcGood
<1> HIDE DEF n
<1>4. Aimed(n)
  BY <1>3 DEF Aimed
<1>5. lock' \in [Lockable -> Session \cup {Nobody}] /\ n.has \subseteq tx[s].has
  BY <1>3 DEF RecheckStart, Inv, TypeOK
<1> QED
  BY <1>1, <1>3, <1>4, <1>5, Inside DEF RecheckStart, history

LEMMA EndsType ==
  ASSUME TypeOK, NEW s \in Session, NEW D, Ends(s, D)
  PROVE  lock' \in [Lockable -> Session \cup {Nobody}]
BY DEF TypeOK, Ends

LEMMA AbortInv ==
  ASSUME Inv, NEW s \in Session, Abort(s)
  PROVE  Inv'
<1>1. lock' \in [Lockable -> Session \cup {Nobody}]
  BY EndsType DEF Abort, Inv
<1>2. tx' = [tx EXCEPT ![s] = IdleTx] /\ IdleTx.has \subseteq tx[s].has
  BY IdleGood DEF Abort, Ends
<1> QED
  BY <1>1, <1>2, IdleGood, Inside DEF Abort, Ends

LEMMA NewDayInv ==
  ASSUME Inv, NewDay
  PROVE  Inv'
<1> USE AmountAssumption DEF NewDay, rows, receipts, history
<1>1. day' \in Day /\ day' = day + 1 /\ day \in Int /\ day' \in Int
  BY DEF Inv, TypeOK, Day
<1>2. TypeOK'
  BY <1>1 DEF Inv, TypeOK
<1>3. BalanceBounded' /\ ExactUnlessOverwritten' /\ DailyOnceUnlessOverwritten'
  BY DEF Inv, BalanceBounded, ExactUnlessOverwritten, DailyOnceUnlessOverwritten, history
<1>4. DaysPast'
  <2> SUFFICES ASSUME NEW u \in User PROVE last[u] <= day'
    BY DEF Inv, DaysPast
  <2>1. last[u] \in Int /\ last[u] <= day
    BY DEF Inv, TypeOK, DaysPast
  <2> QED
    BY <1>1, <2>1
<1>5. ASSUME NEW s \in Session PROVE (Good(s, tx[s]) /\ Aimed(tx[s]))'
  <2>1. tx[s].claim \in Int
    BY DEF Inv, TypeOK, Tx
  <2> QED
    BY <1>1, <2>1 DEF Inv, Good, Own, Sane, Faithful, Aimed
<1> QED
  BY <1>2, <1>3, <1>4, <1>5 DEF Inv

(***************************************************************************)
(* Commit                                                                  *)
(***************************************************************************)

\* A wallet is written only with a receipt, so a user whose wallet is written
\* was loaded.
LEMMA ChangedLoaded ==
  ASSUME Inv, NEW s \in Session, NEW u \in User, Changed(s, u)
  PROVE  u \in tx[s].has
BY DEF Inv, Good, Own, Changed

\* What a commit writes of one user.
LEMMA CommitRows ==
  ASSUME Inv, NEW s \in Session, Commit(s), NEW u \in User
  PROVE  /\ balance'[u] = IF Changed(s, u) THEN tx[s].bal[u] ELSE balance[u]
         /\ earned'[u] = IF tx[s].credit[u] > 0 THEN tx[s].earn[u] ELSE earned[u]
         /\ last'[u] = Stamp(tx[s], u)
         /\ credited'[u] = credited[u] + tx[s].credit[u]
         /\ debited'[u] = debited[u] + tx[s].debit[u]
         /\ fined'[u] = fined[u] + tx[s].fine[u]
BY DEF Commit

\* The numbers involved are numbers.
LEMMA Numbers ==
  ASSUME TypeOK, NEW s \in Session, NEW u \in User
  PROVE  /\ tx[s].bal[u] \in Int /\ tx[s].earn[u] \in Nat
         /\ tx[s].credit[u] \in Nat /\ tx[s].debit[u] \in Nat
         /\ tx[s].fine[u] \in Nat
         /\ tx[s].seen \in 0..MaxDay /\ tx[s].claim \in 0..MaxDay
         /\ balance[u] \in Int /\ earned[u] \in Nat /\ last[u] \in 0..MaxDay
         /\ credited[u] \in Nat /\ debited[u] \in Nat /\ fined[u] \in Nat
         /\ day \in 1..MaxDay /\ MaxDay \in Nat
BY AmountAssumption DEF TypeOK, Tx, Day

LEMMA NothingChanged ==
  ASSUME TypeOK, NEW s \in Session, NEW u \in User, ~Changed(s, u)
  PROVE  tx[s].credit[u] = 0 /\ tx[s].debit[u] = 0 /\ tx[s].fine[u] = 0
<1>1. \A i, j, k \in Nat : ~(i + j + k > 0) => i = 0 /\ j = 0 /\ k = 0
  OBVIOUS
<1> QED
  BY <1>1, Numbers DEF Changed

LEMMA CommitType ==
  ASSUME Inv, NEW s \in Session, Commit(s)
  PROVE  TypeOK'
<1>1. lock' \in [Lockable -> Session \cup {Nobody}]
  BY EndsType DEF Commit, Inv
<1>2. tx' \in [Session -> Tx]
  BY IdleGood DEF Commit, Ends, Inv, TypeOK
<1>3. ASSUME NEW u \in User
      PROVE /\ (IF Changed(s, u) THEN tx[s].bal[u] ELSE balance[u]) \in Int
            /\ (IF tx[s].credit[u] > 0 THEN tx[s].earn[u] ELSE earned[u]) \in Nat
            /\ Stamp(tx[s], u) \in 0..MaxDay
            /\ credited[u] + tx[s].credit[u] \in Nat
            /\ debited[u] + tx[s].debit[u] \in Nat
            /\ fined[u] + tx[s].fine[u] \in Nat
  BY Numbers DEF Inv, Stamp
<1>4. /\ balance' \in [User -> Int] /\ earned' \in [User -> Nat]
      /\ last' \in [User -> 0..MaxDay]
      /\ credited' \in [User -> Nat] /\ debited' \in [User -> Nat]
      /\ fined' \in [User -> Nat]
  BY <1>3 DEF Commit
<1>5. daily' \in [User -> [Day -> Nat]]
  BY DEF Commit, Inv, TypeOK
<1>6. stale' \subseteq Session \X User /\ overwritten' \subseteq User
  BY DEF Commit, Ends, Outdated, Inv, TypeOK
<1>7. day' = day
  BY DEF Commit
<1> QED
  BY <1>1, <1>2, <1>4, <1>5, <1>6, <1>7 DEF Inv, TypeOK

LEMMA CommitBounded ==
  ASSUME Inv, NEW s \in Session, Commit(s)
  PROVE  BalanceBounded'
<1> SUFFICES ASSUME NEW u \in User
             PROVE -fined'[u] <= balance'[u] /\ balance'[u] <= credited'[u]
  BY DEF BalanceBounded
<1>1. CASE Changed(s, u)
  <2>1. Sane(tx[s], u)
    BY <1>1, ChangedLoaded DEF Inv, Good
  <2> QED
    BY <1>1, <2>1, CommitRows DEF Sane
<1>2. CASE ~Changed(s, u)
  <2>1. tx[s].credit[u] = 0 /\ tx[s].debit[u] = 0 /\ tx[s].fine[u] = 0
    BY <1>2, NothingChanged DEF Inv
  <2>2. -fined[u] <= balance[u] /\ balance[u] <= credited[u]
    BY DEF Inv, BalanceBounded
  <2>3. balance'[u] = balance[u] /\ credited'[u] = credited[u] + 0 /\ fined'[u] = fined[u] + 0
    BY <1>2, <2>1, CommitRows
  <2> QED
    BY <2>2, <2>3, Numbers DEF Inv
<1> QED
  BY <1>1, <1>2

LEMMA CommitExact ==
  ASSUME Inv, NEW s \in Session, Commit(s)
  PROVE  ExactUnlessOverwritten'
<1> SUFFICES ASSUME NEW u \in User, u \notin overwritten'
             PROVE /\ balance'[u] = credited'[u] - debited'[u] - fined'[u]
                   /\ earned'[u] = credited'[u]
  BY DEF ExactUnlessOverwritten
<1>0. u \notin overwritten /\ (Changed(s, u) => <<s, u>> \notin stale)
  BY DEF Commit
<1>1. balance[u] = credited[u] - debited[u] - fined[u] /\ earned[u] = credited[u]
  BY <1>0 DEF Inv, ExactUnlessOverwritten
<1>2. CASE u \in tx[s].has
  <2>2. CASE Changed(s, u)
    <3>0. Faithful(tx[s], u)
      BY <1>0, <1>2, <2>2 DEF Inv, Good
    <3>1. /\ balance'[u] = balance[u] + tx[s].credit[u] - tx[s].debit[u] - tx[s].fine[u]
          /\ credited'[u] = credited[u] + tx[s].credit[u]
          /\ debited'[u] = debited[u] + tx[s].debit[u]
          /\ fined'[u] = fined[u] + tx[s].fine[u]
      BY <3>0, <2>2, CommitRows DEF Faithful
    <3>2. earned'[u] = earned[u] + tx[s].credit[u]
      BY <3>0, CommitRows, Numbers DEF Faithful, Inv
    <3> QED
      BY <1>1, <3>1, <3>2, Numbers DEF Inv
  <2>3. CASE ~Changed(s, u)
    <3>1. tx[s].credit[u] = 0 /\ tx[s].debit[u] = 0 /\ tx[s].fine[u] = 0
      BY <2>3, NothingChanged DEF Inv
    <3> QED
      BY <1>1, <2>3, <3>1, CommitRows, Numbers DEF Inv
  <2> QED
    BY <2>2, <2>3
<1>3. CASE u \notin tx[s].has
  <2>1. tx[s].credit[u] = 0 /\ tx[s].debit[u] = 0 /\ tx[s].fine[u] = 0
    BY <1>3 DEF Inv, Good, Own
  <2>2. ~Changed(s, u)
    BY <2>1 DEF Changed
  <2> QED
    BY <1>1, <2>1, <2>2, CommitRows, Numbers DEF Inv
<1> QED
  BY <1>2, <1>3

\* The stamp of a user moves forward, unless an old copy is written, and to no
\* later day than today.
LEMMA StampGrows ==
  ASSUME Inv, NEW s \in Session, NEW u \in User
  PROVE  /\ Stamp(tx[s], u) <= day
         /\ (Changed(s, u) => <<s, u>> \notin stale) => last[u] <= Stamp(tx[s], u)
<1>1. CASE u = tx[s].actor /\ tx[s].claim # 0
  <2>1. u # Nobody /\ u \in tx[s].has /\ tx[s].claim <= day /\ tx[s].credit[u] > 0
    BY <1>1, NobodyAssumption DEF Inv, Good, Own, Aimed
  <2>2. Changed(s, u)
    BY <2>1, NothingChanged, Numbers DEF Inv
  <2>3. <<s, u>> \notin stale => last[u] < tx[s].claim
    BY <1>1, <2>1 DEF Inv, Good, Faithful
  <2> QED
    BY <1>1, <2>1, <2>2, <2>3, Numbers DEF Stamp, Inv
<1>2. CASE ~(u = tx[s].actor /\ tx[s].claim # 0)
  BY <1>2, Numbers DEF Stamp, Inv, DaysPast
<1> QED
  BY <1>1, <1>2

LEMMA CommitDaily ==
  ASSUME Inv, NEW s \in Session, Commit(s)
  PROVE  DailyOnceUnlessOverwritten' /\ DaysPast'
<1>1. \A u \in User : last'[u] = Stamp(tx[s], u)
  BY CommitRows
<1>2. day' = day
  BY DEF Commit
<1>3. ASSUME NEW u \in User, u \notin overwritten', NEW d \in Day
      PROVE daily'[u][d] <= 1 /\ (daily'[u][d] > 0 => d <= last'[u])
  <2>0. u \notin overwritten /\ (Changed(s, u) => <<s, u>> \notin stale)
    BY <1>3 DEF Commit
  <2>1. /\ daily[u][d] \in Nat /\ d \in Int
        /\ daily[u][d] <= 1 /\ (daily[u][d] > 0 => d <= last[u])
    BY <2>0, AmountAssumption DEF Inv, TypeOK, DailyOnceUnlessOverwritten, DaysPast, Day
  <2>2. CASE u = tx[s].actor /\ tx[s].claim = d
    <3>1. d # 0
      BY DEF Day
    <3>2. u # Nobody /\ u \in tx[s].has /\ tx[s].credit[u] > 0
      BY <2>2, <3>1, NobodyAssumption DEF Inv, Aimed, Good, Own
    <3>3. last[u] < d
      <4>1. Changed(s, u)
        BY <3>2, NothingChanged, Numbers DEF Inv
      <4> QED
        BY <2>0, <2>2, <3>1, <3>2, <4>1 DEF Inv, Good, Faithful
    <3>4. daily[u][d] = 0
      BY <2>1, <3>3, Numbers DEF Inv
    <3>5. daily'[u][d] = daily[u][d] + 1
      BY <2>2 DEF Commit
    <3>6. last'[u] = d
      BY <1>1, <2>2, <3>1 DEF Stamp
    <3> QED
      BY <2>1, <3>4, <3>5, <3>6
  <2>3. CASE ~(u = tx[s].actor /\ tx[s].claim = d)
    <3>1. daily'[u][d] = daily[u][d]
      BY <2>3 DEF Commit
    <3>2. last[u] <= last'[u] /\ last[u] \in Int /\ last'[u] \in Int
      <4>1. last'[u] \in 0..MaxDay
        BY CommitType DEF TypeOK
      <4> QED
        BY <1>1, <2>0, <4>1, StampGrows, Numbers DEF Inv
    <3> QED
      BY <2>1, <3>1, <3>2
  <2> QED
    BY <2>2, <2>3
<1>4. \A u \in User : last'[u] <= day'
  BY <1>1, <1>2, StampGrows
<1> QED
  BY <1>2, <1>3, <1>4 DEF DailyOnceUnlessOverwritten, DaysPast

\* The other sessions know as much as before of the users they have loaded.
LEMMA CommitOthers ==
  ASSUME Inv, NEW s \in Session, Commit(s), NEW t \in Session
  PROVE  (Good(t, tx[t]) /\ Aimed(tx[t]))'
<1>1. day' = day
  BY DEF Commit
<1>2. CASE t = s
  <2>1. tx'[t] = IdleTx
    BY <1>2 DEF Commit, Ends, Inv, TypeOK
  <2>2. IdleTx.has = {} /\ Own(IdleTx) /\ Aimed(IdleTx)
    BY IdleGood DEF Good
  <2>3. \A m : m = IdleTx => m.has = {} /\ (Own(m))' /\ (Aimed(m))'
    BY <1>1, <2>2 DEF Own, Aimed
  <2> QED
    BY <2>1, <2>2, <1>1 DEF Good, Own, Aimed
<1>3. CASE t # s
  <2>1. tx'[t] = tx[t]
    BY <1>3 DEF Commit, Ends, Inv, TypeOK
  <2>2. Own(tx[t]) /\ Aimed(tx[t])
    BY DEF Inv, Good
  <2>3. Own(tx[t])' /\ Aimed(tx[t])'
    BY <1>1, <2>1, <2>2 DEF Own, Aimed
  <2>4. ASSUME NEW u \in tx[t].has
        PROVE Sane(tx[t], u)' /\ (<<t, u>> \notin stale' => Faithful(tx[t], u)')
    <3>1. u \in User /\ Sane(tx[t], u) /\ (<<t, u>> \notin stale => Faithful(tx[t], u))
      BY DEF Inv, TypeOK, Tx, Good
    <3>2. Sane(tx[t], u)'
      <4>1. /\ -(fined[u] + tx[t].fine[u]) <= tx[t].bal[u]
            /\ tx[t].bal[u] <= credited[u] + tx[t].credit[u]
        BY <3>1 DEF Sane
      <4>2. /\ fined'[u] = fined[u] + tx[s].fine[u]
            /\ credited'[u] = credited[u] + tx[s].credit[u]
        BY <3>1, CommitRows
      <4>3. /\ -(fined'[u] + tx[t].fine[u]) <= tx[t].bal[u]
            /\ tx[t].bal[u] <= credited'[u] + tx[t].credit[u]
        BY <3>1, <4>1, <4>2, Numbers DEF Inv
      <4> QED
        BY <2>1, <4>3 DEF Sane
    <3>3. ASSUME <<t, u>> \notin stale' PROVE Faithful(tx[t], u)'
      <4>1. <<t, u>> \notin stale /\ ~Changed(s, u)
        BY <1>3, <3>1, <3>3 DEF Commit, Ends, Outdated
      <4>2. tx[s].credit[u] = 0 /\ tx[s].debit[u] = 0 /\ tx[s].fine[u] = 0
        BY <3>1, <4>1, NothingChanged DEF Inv
      <4>3. u # tx[s].actor \/ tx[s].claim = 0
        BY <3>1, <4>2 DEF Inv, Good, Own
      <4>4. balance'[u] = balance[u] /\ earned'[u] = earned[u] /\ last'[u] = last[u]
        BY <3>1, <4>1, <4>2, <4>3, CommitRows DEF Stamp
      <4> QED
        BY <2>1, <3>1, <4>1, <4>4 DEF Faithful
    <3> QED
      BY <3>1, <3>2, <3>3
  <2> QED
    BY <1>1, <2>1, <2>3, <2>4 DEF Good
<1> QED
  BY <1>2, <1>3

LEMMA CommitInv ==
  ASSUME Inv, NEW s \in Session, Commit(s)
  PROVE  Inv'
BY CommitType, CommitBounded, CommitExact, CommitDaily, CommitOthers
   DEF Inv

(***************************************************************************)
(* The theorems                                                            *)
(***************************************************************************)
LEMMA StepInv ==
  ASSUME Inv, [Next]_vars
  PROVE  Inv'
<1>1. ASSUME NEW s \in Session, Step(s) PROVE Inv'
  <2>1. CASE \E u \in User : Receive(s, u)
    BY <2>1, ReceiveInv
  <2>2. CASE RecheckStart(s)
    BY <2>2, RecheckStartInv
  <2>3. CASE TakeRow(s)
    BY <2>3, TakeRowInv
  <2>4. CASE Handle(s)
    <3>1. CASE \E a \in Reward : ClaimDaily(s, a) \/ Earn(s, a) \/ CreditOther(s, a)
      BY <3>1, ClaimDailyInv, EarnInv, CreditOtherInv
    <3>2. CASE \E a \in Price : Pay(s, a) \/ DebitOther(s, a)
      BY <3>2, PayInv, DebitOtherInv
    <3>3. CASE \E a \in Penalty, T \in {{"wallets"}, {"users", "wallets"}} :
                 FineLeaver(s, a, T)
      BY <3>3, FineLeaverInv
    <3>4. CASE FetchReferrer(s)
      BY <3>4, FetchReferrerInv
    <3>5. CASE \E u \in User : FetchAdjusted(s, u) \/ FetchLeaver(s, u)
      BY <3>5, FetchAdjustedInv, FetchLeaverInv
    <3> QED
      BY <2>4, <3>1, <3>2, <3>3, <3>4, <3>5 DEF Handle
  <2>5. CASE Commit(s)
    BY <2>5, CommitInv
  <2>6. CASE Abort(s)
    BY <2>6, AbortInv
  <2> QED
    BY <1>1, <2>1, <2>2, <2>3, <2>4, <2>5, <2>6 DEF Step
<1>2. CASE UNCHANGED vars
  BY <1>2 DEF vars, receipts, Inv, TypeOK, BalanceBounded, ExactUnlessOverwritten,
     DailyOnceUnlessOverwritten, history, DaysPast, Good, Own, Sane, Faithful, Aimed
<1> QED
  BY <1>1, <1>2, NewDayInv DEF Next

THEOREM InvHolds == Spec => []Inv
BY InitInv, StepInv, PTL DEF Spec

\* Every reachable state is well typed: in particular no counter of receipts
\* and no date leaves its range (models/core.py).
THEOREM WalletsTypeCorrect == Spec => []TypeOK
BY InvHolds, PTL DEF Inv

\* However many sessions overwrite each other's balances, no wallet holds more
\* than was credited and none owes more than its penalties (wallet_service.py).
THEOREM NeverOverdrawn == Spec => []BalanceBounded
BY InvHolds, PTL DEF Inv

\* Until an update of a user is lost the ledger is exact, for any number of
\* users, sessions and sums, however they overlap (wallet_service.py).
THEOREM ExactLedger == Spec => []ExactUnlessOverwritten
BY InvHolds, PTL DEF Inv

\* Until then the user gets the daily reward once a day (claim_daily).
THEOREM OneDailyReward == Spec => []DailyOnceUnlessOverwritten
BY InvHolds, PTL DEF Inv
=============================================================================
