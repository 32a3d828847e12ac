-------------------------- MODULE PromotionsProofs --------------------------
(***************************************************************************)
(* Proofs about Promotions.  The counter that a session has computed is    *)
(* never more than what was sent, and until another session has written    *)
(* the row it is one more than the row: that is what the inductive         *)
(* invariant says.                                                         *)
(***************************************************************************)
EXTENDS Promotions, FiniteSetTheorems, TLAPS

OfCode == {"redeem", "redeemed", "made"}
OfBanner == {"show", "counted", "shown", "paid"}

\* A row that does not exist has no history.
Absent ==
  /\ \A c \in Code : code[c].status = "absent" =>
       code[c] = NoCode /\ \A u \in User : redeemed[c][u] = 0
  /\ \A b \in Banner : banner[b].status = "absent" => banner[b] = NoBanner

\* No banner counts more than was sent.
CountsSent == \A b \in Banner : banner[b].shown <= sent[b]

\* A session that has taken its user's row holds it.
Owns(s) ==
  /\ tx[s].pc # "idle" => tx[s].actor \in User
  /\ tx[s].pc \notin {"idle", "read"} => lock[tx[s].actor] = s

\* What a session knows of the code it makes or redeems.
KnowsCode(s) ==
  LET t == tx[s]
      c == tx[s].item
  IN  /\ t.pc \in OfCode => c \in Code
      /\ t.pc = "made" => code[c].status = "absent" /\ lock[c] = s
      /\ t.pc \in {"redeem", "redeemed"} =>
           /\ code[c].status # "absent" /\ redeemed[c][t.actor] = 0
           /\ s \notin stale => t.count = code[c].used + 1 /\ t.count <= code[c].max

\* What it knows of the banner it buys or shows.
KnowsBanner(s) ==
  LET t == tx[s]
      b == tx[s].item
  IN  /\ t.pc \in OfBanner => b \in Banner
      /\ t.pc = "paid" => banner[b].status = "absent" /\ lock[b] = s /\ t.count > 0
      /\ t.pc \in {"show", "counted", "shown"} =>
           /\ banner[b].status # "absent"
           /\ t.count <= sent[b] + (IF t.pc = "shown" THEN 0 ELSE 1)
           /\ s \notin stale => t.count = banner[b].shown + 1 /\ banner[b].status = "active"

Inv ==
  /\ TypeOK /\ GiftOncePerUser /\ UsesExactUnlessOverwritten
  /\ BannerDelivered /\ CompletedAtTarget
  /\ Absent /\ CountsSent
  /\ \A s \in Session : Owns(s) /\ KnowsCode(s) /\ KnowsBanner(s)

LEMMA InitInv == Init => Inv
<1> SUFFICES ASSUME Init PROVE Inv
  OBVIOUS
<1> USE RowAssumption DEF Init
<1>1. TypeOK
  BY DEF TypeOK, NoCode, NoBanner, IdleTx, Tx
<1>2. GiftOncePerUser /\ BannerDelivered /\ CompletedAtTarget
  BY DEF GiftOncePerUser, BannerDelivered, CompletedAtTarget, NoBanner
<1>3. UsesExactUnlessOverwritten
  <2>1. \A c \in Code : Redeemers(c) = {}
    BY DEF Redeemers
  <2>2. Cardinality({}) = 0
    BY FS_EmptySet
  <2>3. \A c \in Code : code[c].used = 0 /\ code[c].max = 0
    BY DEF NoCode
  <2> QED
    BY <2>1, <2>2, <2>3 DEF UsesExactUnlessOverwritten
<1>4. Absent /\ CountsSent
  BY DEF Absent, CountsSent, NoCode, NoBanner, IdleTx
<1>5. ASSUME NEW s \in Session PROVE Owns(s) /\ KnowsCode(s) /\ KnowsBanner(s)
  BY DEF Owns, KnowsCode, KnowsBanner, OfCode, OfBanner, IdleTx
<1> QED
  BY <1>1, <1>2, <1>3, <1>4, <1>5 DEF Inv

\* Locks that are taken are free or one's own, those of others stay.
LEMMA LockKeeps ==
  ASSUME TypeOK, NEW s \in Session, NEW K, Lock(s, K)
  PROVE  /\ lock' \in [Rows -> Session \cup {Nobody}]
         /\ \A t \in Session, k \in Rows : lock[k] = t => lock'[k] = t
         /\ \A k \in K \cap Rows : lock'[k] = s
BY RowAssumption DEF TypeOK, Lock

\* Steps before the end of a session: the tables stay, the session goes on in
\* state n, and nothing is written back.
LEMMA Inside ==
  ASSUME Inv, NEW s \in Session, NEW n \in Tx,
         tx' = [tx EXCEPT ![s] = n], UNCHANGED <<tables, history>>,
         sent' \in [Banner -> Nat], \A b \in Banner : sent[b] <= sent'[b],
         lock' \in [Rows -> Session \cup {Nobody}],
         \A t \in Session, k \in Rows : lock[k] = t => lock'[k] = t,
         Owns(s)', KnowsCode(s)', KnowsBanner(s)'
  PROVE  Inv'
<1> USE DEF tables, history
<1>1. TypeOK'
  BY DEF Inv, TypeOK
<1>2. GiftOncePerUser' /\ Absent'
  BY DEF Inv, GiftOncePerUser, Absent
<1>3. UsesExactUnlessOverwritten'
  BY DEF Inv, UsesExactUnlessOverwritten, Redeemers
<1>4. BannerDelivered' /\ CompletedAtTarget' /\ CountsSent'
  BY DEF Inv, TypeOK, BannerDelivered, CompletedAtTarget, CountsSent
<1>5. \A t \in Session : tx'[t] = IF t = s THEN n ELSE tx[t]
  BY DEF Inv, TypeOK
<1>7. ASSUME NEW t \in Session, t # s PROVE Owns(t)' /\ KnowsCode(t)' /\ KnowsBanner(t)'
  <2>1. tx'[t] = tx[t] /\ tx[t] \in Tx
    BY <1>5, <1>7 DEF Inv, TypeOK
  <2>2. Owns(t) /\ KnowsCode(t) /\ KnowsBanner(t)
    BY DEF Inv
  <2>3. Owns(t)' /\ KnowsCode(t)'
    BY <2>1, <2>2 DEF Owns, KnowsCode, OfCode, Rows, Item
  <2>4. KnowsBanner(t)'
    BY <2>1, <2>2 DEF KnowsBanner, OfBanner, Rows, Item, Inv, TypeOK, Tx
  <2> QED
    BY <2>3, <2>4
<1> QED
  BY <1>1, <1>2, <1>3, <1>4, <1>7 DEF Inv

LEMMA ReceiveInv ==
  ASSUME Inv, NEW s \in Session, NEW u \in User, Receive(s, u)
  PROVE  Inv'
<1> DEFINE n == [tx[s] EXCEPT !.pc = "read", !.actor = u]
<1>1. tx[s] \in Tx /\ KnowsCode(s) /\ KnowsBanner(s) 
  BY DEF Inv, TypeOK
<1>2. tx' = [tx EXCEPT ![s] = n] /\ UNCHANGED <<tables, sent, lock, history>>
  BY <1>1 DEF Receive, Inv, TypeOK, Tx
<1>3. n \in Tx /\ n.pc = "read" /\ n.actor = u /\ n.item = tx[s].item
  BY <1>1 DEF Tx
<1> HIDE DEF n
<1>4. tx'[s] = n
  BY <1>2 DEF Inv, TypeOK
<1>5. Owns(s)' /\ KnowsCode(s)' /\ KnowsBanner(s)'
  BY <1>3, <1>4 DEF Owns, KnowsCode, KnowsBanner, OfCode, OfBanner
<1>7. /\ sent' \in [Banner -> Nat] /\ \A b \in Banner : sent[b] <= sent'[b]
      /\ lock' \in [Rows -> Session \cup {Nobody}]
      /\ \A t \in Session, k \in Rows : lock[k] = t => lock'[k] = t
  BY <1>2 DEF Inv, TypeOK
<1> QED
  BY <1>1, <1>2, <1>3, <1>5, <1>7, Inside

LEMMA TakeRowInv ==
  ASSUME Inv, NEW s \in Session, TakeRow(s)
  PROVE  Inv'
<1> DEFINE n == [tx[s] EXCEPT !.pc = "ready"]
<1>1. /\ tx[s] \in Tx /\ tx[s].actor \in User /\ tx[s].pc = "read"
      /\ tx' = [tx EXCEPT ![s] = n] /\ UNCHANGED <<tables, sent, history>>
      /\ sent \in [Banner -> Nat]
  BY DEF TakeRow, Inv, TypeOK, Owns
<1>2. n \in Tx /\ n.pc = "ready" /\ n.actor = tx[s].actor /\ n.item = tx[s].item
  BY <1>1 DEF Tx
<1> HIDE DEF n
<1>3. tx'[s] = n
  BY <1>1 DEF Inv, TypeOK
<1>4. /\ lock' \in [Rows -> Session \cup {Nobody}]
      /\ \A t \in Session, k \in Rows : lock[k] = t => lock'[k] = t
      /\ lock'[n.actor] = s
  <2>1. Lock(s, {tx[s].actor}) /\ tx[s].actor \in Rows
    BY <1>1 DEF TakeRow, OwnRow, Rows
  <2> QED
    BY <1>2, <2>1, LockKeeps DEF Inv
<1>5. Owns(s)' /\ KnowsCode(s)' /\ KnowsBanner(s)'
  BY <1>1, <1>2, <1>3, <1>4 DEF Owns, KnowsCode, KnowsBanner, OfCode, OfBanner
<1>7. sent' \in [Banner -> Nat] /\ \A b \in Banner : sent[b] <= sent'[b]
  BY <1>1
<1> QED
  BY <1>1, <1>2, <1>4, <1>5, <1>7, Inside

\* Loading a row, with whatever locks that takes, preserves the invariant if what
\* the session then knows is right.
LEMMA LoadInv ==
  ASSUME Inv, NEW s \in Session, NEW n \in Tx, tx' = [tx EXCEPT ![s] = n],
         n.actor = tx[s].actor, n.item \in Item,
         tx[s].pc = "ready", UNCHANGED <<tables, sent, history>>,
         lock' \in [Rows -> Session \cup {Nobody}],
         \A t \in Session, k \in Rows : lock[k] = t => lock'[k] = t,
         KnowsCode(s)', KnowsBanner(s)'
  PROVE  Inv'
<1>2. tx'[s] = n
  BY DEF Inv, TypeOK
<1>3. Owns(s)'
  BY <1>2 DEF Inv, Owns, Rows
<1>4. sent' \in [Banner -> Nat] /\ \A b \in Banner : sent[b] <= sent'[b]
  BY DEF Inv, TypeOK
<1> QED
  BY <1>3, <1>4, Inside

LEMMA MakeCodeInv ==
  ASSUME Inv, NEW s \in Session, NEW c \in Code, NEW m \in MaxUses, MakeCode(s, c, m)
  PROVE  Inv'
<1> DEFINE n == [tx[s] EXCEPT !.pc = "made", !.item = c, !.count = m]
<1>1. m \in Nat /\ c \in Item /\ c \in Rows
  BY NumberAssumption DEF Item, Rows
<1>2. /\ tx[s] \in Tx /\ tx[s].pc = "ready" /\ tx' = [tx EXCEPT ![s] = n]
  BY DEF MakeCode, Load, Inv, TypeOK
<1>3. /\ n \in Tx /\ n.pc = "made" /\ n.item = c /\ n.count = m
      /\ n.actor = tx[s].actor
  BY <1>1, <1>2 DEF Tx
<1> HIDE DEF n
<1>4. tx'[s] = n
  BY <1>2 DEF Inv, TypeOK
<1>5. /\ lock' \in [Rows -> Session \cup {Nobody}] /\ lock'[c] = s
      /\ \A t \in Session, k \in Rows : lock[k] = t => lock'[k] = t
  BY <1>1, LockKeeps DEF MakeCode, Inv
<1>6. KnowsCode(s)' /\ KnowsBanner(s)'
  BY <1>1, <1>3, <1>4, <1>5 DEF MakeCode, tables, KnowsCode, KnowsBanner, OfCode, OfBanner
<1> QED
  BY <1>1, <1>2, <1>3, <1>5, <1>6, LoadInv DEF MakeCode

LEMMA BuyBannerInv ==
  ASSUME Inv, NEW s \in Session, NEW b \in Banner, NEW m \in Target, BuyBanner(s, b, m)
  PROVE  Inv'
<1> DEFINE n == [tx[s] EXCEPT !.pc = "paid", !.item = b, !.count = m]
<1>1. m \in Nat /\ m > 0 /\ b \in Item /\ b \in Rows
  BY NumberAssumption DEF Item, Rows
<1>2. /\ tx[s] \in Tx /\ tx[s].pc = "ready" /\ tx' = [tx EXCEPT ![s] = n]
  BY DEF BuyBanner, Load, Inv, TypeOK
<1>3. /\ n \in Tx /\ n.pc = "paid" /\ n.item = b /\ n.count = m
      /\ n.actor = tx[s].actor
  BY <1>1, <1>2 DEF Tx
<1> HIDE DEF n
<1>4. tx'[s] = n
  BY <1>2 DEF Inv, TypeOK
<1>5. /\ lock' \in [Rows -> Session \cup {Nobody}] /\ lock'[b] = s
      /\ \A t \in Session, k \in Rows : lock[k] = t => lock'[k] = t
  BY <1>1, LockKeeps DEF BuyBanner, Inv
<1>6. KnowsCode(s)' /\ KnowsBanner(s)'
  BY <1>1, <1>3, <1>4, <1>5 DEF BuyBanner, tables, KnowsCode, KnowsBanner, OfCode, OfBanner
<1> QED
  BY <1>1, <1>2, <1>3, <1>5, <1>6, LoadInv DEF BuyBanner

LEMMA RedeemLookInv ==
  ASSUME Inv, NEW s \in Session, NEW c \in Code, RedeemLook(s, c)
  PROVE  Inv'
<1> DEFINE n == [tx[s] EXCEPT !.pc = "redeem", !.item = c, !.count = code[c].used + 1]
<1>1. /\ code[c].used + 1 \in Nat /\ code[c].used + 1 <= code[c].max /\ c \in Item
      /\ code[c].status # "absent" /\ redeemed[c][tx[s].actor] = 0
  BY DEF RedeemLook, Usable, Item, Inv, TypeOK
<1>2. /\ tx[s] \in Tx /\ tx[s].pc = "ready" /\ tx' = [tx EXCEPT ![s] = n]
  BY DEF RedeemLook, Load, Inv, TypeOK
<1>3. /\ n \in Tx /\ n.pc = "redeem" /\ n.item = c /\ n.count = code[c].used + 1
      /\ n.actor = tx[s].actor
  BY <1>1, <1>2 DEF Tx
<1> HIDE DEF n
<1>4. tx'[s] = n
  BY <1>2 DEF Inv, TypeOK
<1>5. /\ lock' \in [Rows -> Session \cup {Nobody}]
      /\ \A t \in Session, k \in Rows : lock[k] = t => lock'[k] = t
  BY DEF RedeemLook, Inv, TypeOK
<1>6. KnowsCode(s)' /\ KnowsBanner(s)'
  BY <1>1, <1>3, <1>4, <1>5 DEF RedeemLook, tables, KnowsCode, KnowsBanner, OfCode, OfBanner
<1> QED
  BY <1>1, <1>2, <1>3, <1>5, <1>6, LoadInv DEF RedeemLook

LEMMA ShowLookInv ==
  ASSUME Inv, NEW s \in Session, NEW b \in Banner, ShowLook(s, b)
  PROVE  Inv'
<1> DEFINE n == [tx[s] EXCEPT !.pc = "show", !.item = b, !.count = banner[b].shown + 1]
<1>1. /\ banner[b].shown + 1 \in Nat /\ banner[b].shown + 1 <= sent[b] + 1 /\ b \in Item
      /\ banner[b].status = "active" /\ sent[b] \in Nat
  BY DEF ShowLook, Least, Item, Inv, TypeOK, CountsSent
<1>2. /\ tx[s] \in Tx /\ tx[s].pc = "ready" /\ tx' = [tx EXCEPT ![s] = n]
  BY DEF ShowLook, Load, Inv, TypeOK
<1>3. /\ n \in Tx /\ n.pc = "show" /\ n.item = b /\ n.count = banner[b].shown + 1
      /\ n.actor = tx[s].actor
  BY <1>1, <1>2 DEF Tx
<1> HIDE DEF n
<1>4. tx'[s] = n
  BY <1>2 DEF Inv, TypeOK
<1>5. /\ lock' \in [Rows -> Session \cup {Nobody}]
      /\ \A t \in Session, k \in Rows : lock[k] = t => lock'[k] = t
  BY DEF ShowLook, Inv, TypeOK
<1>6. KnowsCode(s)' /\ KnowsBanner(s)'
  BY <1>1, <1>3, <1>4, <1>5 DEF ShowLook, tables, KnowsCode, KnowsBanner, OfCode, OfBanner
<1> QED
  BY <1>1, <1>2, <1>3, <1>5, <1>6, LoadInv DEF ShowLook

LEMMA FlushInv ==
  ASSUME Inv, NEW s \in Session,
         NEW from, NEW to, <<from, to>> \in {<<"redeem", "redeemed">>, <<"show", "counted">>},
         Flush(s, from, to)
  PROVE  Inv'
<1> DEFINE n == [tx[s] EXCEPT !.pc = to]
<1>1. /\ tx[s] \in Tx /\ tx[s].pc = from
      /\ tx' = [tx EXCEPT ![s] = n] /\ UNCHANGED <<tables, sent, history>>
      /\ sent \in [Banner -> Nat]
  BY DEF Flush, Inv, TypeOK
<1>2. /\ n \in Tx /\ n.pc = to /\ n.actor = tx[s].actor /\ n.item = tx[s].item
      /\ n.count = tx[s].count
  BY <1>1 DEF Tx
<1> HIDE DEF n
<1>3. tx'[s] = n
  BY <1>1 DEF Inv, TypeOK
<1>4. /\ lock' \in [Rows -> Session \cup {Nobody}]
      /\ \A t \in Session, k \in Rows : lock[k] = t => lock'[k] = t
  BY LockKeeps DEF Flush, Inv
<1>5. Owns(s) /\ KnowsCode(s) /\ KnowsBanner(s)
  BY DEF Inv
<1>6. Owns(s)'
  BY <1>1, <1>2, <1>3, <1>4, <1>5 DEF Owns, Rows
<1>7. KnowsCode(s)' /\ KnowsBanner(s)'
  <2>1. CASE from = "redeem"
    BY <1>1, <1>2, <1>3, <1>5, <2>1 DEF KnowsCode, KnowsBanner, OfCode, OfBanner, tables, history
  <2>2. CASE from = "show"
    BY <1>1, <1>2, <1>3, <1>5, <2>2 DEF KnowsCode, KnowsBanner, OfCode, OfBanner, tables, history
  <2> QED
    BY <2>1, <2>2
<1>9. sent' \in [Banner -> Nat] /\ \A b \in Banner : sent[b] <= sent'[b]
  BY <1>1
<1> QED
  BY <1>1, <1>2, <1>4, <1>6, <1>7, <1>9, Inside

LEMMA ShowInv ==
  ASSUME Inv, NEW s \in Session, Show(s)
  PROVE  Inv'
<1> DEFINE n == [tx[s] EXCEPT !.pc = "shown"]
           b == tx[s].item
<1>1. /\ tx[s] \in Tx /\ tx[s].pc = "counted"
      /\ tx' = [tx EXCEPT ![s] = n] /\ UNCHANGED <<tables, lock, history>>
      /\ sent \in [Banner -> Nat]
      /\ lock \in [Rows -> Session \cup {Nobody}]
      /\ sent' = [sent EXCEPT ![b] = @ + 1]
  BY DEF Show, Inv, TypeOK
<1>2. /\ n \in Tx /\ n.pc = "shown" /\ n.actor = tx[s].actor /\ n.item = b
      /\ n.count = tx[s].count
  BY <1>1 DEF Tx
<1> HIDE DEF n
<1>3. tx'[s] = n
  BY <1>1 DEF Inv, TypeOK
<1>4. Owns(s) /\ KnowsCode(s) /\ KnowsBanner(s)
  BY DEF Inv
<1>5. b \in Banner /\ sent[b] \in Nat /\ n.count <= sent[b] + 1
  BY <1>1, <1>2, <1>4 DEF KnowsBanner, OfBanner
<1>6. /\ sent' \in [Banner -> Nat] /\ \A a \in Banner : sent[a] <= sent'[a]
      /\ sent'[b] = sent[b] + 1
  BY <1>1, <1>5
<1>7. Owns(s)' /\ KnowsCode(s)'
  BY <1>1, <1>2, <1>3, <1>4 DEF Owns, KnowsCode, OfCode
<1>8. KnowsBanner(s)'
  BY <1>1, <1>2, <1>3, <1>4, <1>5, <1>6 DEF KnowsBanner, OfBanner, tables, history, Tx
<1> QED
  BY <1>1, <1>2, <1>6, <1>7, <1>8, Inside

(***************************************************************************)
(* The end of a session                                                    *)
(***************************************************************************)

\* A session that ends leaves everybody else what they hold.
LEMMA Ended ==
  ASSUME Inv, NEW s \in Session, NEW D \in SUBSET Session, Ends(s, D)
  PROVE  /\ lock' \in [Rows -> Session \cup {Nobody}]
         /\ tx' \in [Session -> Tx] /\ tx'[s] = IdleTx
         /\ \A t \in Session : t # s => tx'[t] = tx[t]
         /\ \A t \in Session, k \in Rows : t # s /\ lock[k] = t => lock'[k] = t
         /\ UNCHANGED sent /\ stale' \subseteq Session
         /\ \A t \in Session : t # s /\ t \notin stale' => t \notin stale /\ t \notin D
         /\ \A t \in Session : Owns(t)'
         /\ KnowsCode(s)' /\ KnowsBanner(s)'
<1>1. /\ tx' = [tx EXCEPT ![s] = IdleTx]
      /\ lock' = [k \in Rows |-> IF lock[k] = s THEN Nobody ELSE lock[k]]
      /\ UNCHANGED sent /\ stale' = (stale \cup D) \ {s}
  BY DEF Ends
<1>2. IdleTx \in Tx /\ IdleTx.pc = "idle" /\ IdleTx.item = Nobody
  BY DEF IdleTx, Tx
<1>3. /\ tx' \in [Session -> Tx] /\ tx'[s] = IdleTx
      /\ \A t \in Session : t # s => tx'[t] = tx[t]
  BY <1>1, <1>2 DEF Inv, TypeOK
<1>4. /\ lock' \in [Rows -> Session \cup {Nobody}]
      /\ \A t \in Session, k \in Rows : t # s /\ lock[k] = t => lock'[k] = t
  BY <1>1 DEF Inv, TypeOK
<1>5. /\ stale' \subseteq Session
      /\ \A t \in Session : t # s /\ t \notin stale' => t \notin stale /\ t \notin D
  BY <1>1 DEF Inv, TypeOK
<1>6. ASSUME NEW t \in Session PROVE Owns(t)'
  <2>1. CASE t = s
    BY <1>2, <1>3, <2>1 DEF Owns
  <2>2. CASE t # s
    BY <1>3, <1>4, <2>2 DEF Owns, Rows, Inv
  <2> QED
    BY <2>1, <2>2
<1>7. KnowsCode(s)' /\ KnowsBanner(s)'
  BY <1>2, <1>3 DEF KnowsCode, KnowsBanner, OfCode, OfBanner
<1> QED
  BY <1>1, <1>3, <1>4, <1>5, <1>6, <1>7

\* A commit leaves stale who else has loaded the row, and records a lost update
\* if the session was stale itself.
LEMMA Committed ==
  ASSUME Inv, NEW s \in Session, Commits(s), tx[s].item \in Item
  PROVE  \E D \in SUBSET Session :
           /\ Ends(s, D)
           /\ \A t \in Session : tx[t].item = tx[s].item => t \in D
           /\ overwritten \subseteq overwritten' /\ overwritten' \subseteq Item
           /\ tx[s].item \notin overwritten' => s \notin stale
<1> DEFINE D == {t \in Session : tx[t].item = tx[s].item}
<1>1. Ends(s, D)
  BY DEF Commits
<1>2. /\ overwritten \subseteq overwritten' /\ overwritten' \subseteq Item
      /\ tx[s].item \notin overwritten' => s \notin stale
  BY DEF Commits, Inv, TypeOK
<1> QED
  BY <1>1, <1>2

\* What is said of the banners stays when neither they nor what was sent changes.
LEMMA BannersStay ==
  ASSUME Inv, NEW s \in Session, NEW D \in SUBSET Session, Ends(s, D), UNCHANGED banner,
         overwritten \subseteq overwritten'
  PROVE  /\ BannerDelivered' /\ CompletedAtTarget' /\ CountsSent'
         /\ \A b \in Banner : banner'[b].status = "absent" => banner'[b] = NoBanner
         /\ \A t \in Session : KnowsBanner(t)'
<1>1. UNCHANGED sent /\ \A t \in Session : t # s => tx'[t] = tx[t] /\ (t \notin stale' => t \notin stale)
  BY Ended
<1>2. BannerDelivered' /\ CompletedAtTarget' /\ CountsSent'
  BY <1>1 DEF Inv, BannerDelivered, CompletedAtTarget, CountsSent
<1>3. ASSUME NEW t \in Session PROVE KnowsBanner(t)'
  <2>1. CASE t = s
    BY <2>1, Ended
  <2>2. CASE t # s
    <3>1. KnowsBanner(t) /\ tx'[t] = tx[t] /\ (t \notin stale' => t \notin stale)
      BY <1>1, <2>2 DEF Inv
    <3>2. \A k \in Rows : lock[k] = t => lock'[k] = t
      BY <2>2, Ended
    <3> QED
      BY <1>1, <3>1, <3>2 DEF KnowsBanner, OfBanner, Rows, Item
  <2> QED
    BY <2>1, <2>2
<1> QED
  BY <1>2, <1>3 DEF Inv, Absent

\* ... and likewise for the codes.
LEMMA CodesStay ==
  ASSUME Inv, NEW s \in Session, NEW D \in SUBSET Session, Ends(s, D),
         UNCHANGED <<code, redeemed>>, overwritten \subseteq overwritten'
  PROVE  /\ GiftOncePerUser' /\ UsesExactUnlessOverwritten'
         /\ \A c \in Code : code'[c].status = "absent" =>
              code'[c] = NoCode /\ \A u \in User : redeemed'[c][u] = 0
         /\ \A t \in Session : KnowsCode(t)'
<1>1. UNCHANGED sent /\ \A t \in Session : t # s => tx'[t] = tx[t] /\ (t \notin stale' => t \notin stale)
  BY Ended
<1>2. GiftOncePerUser' /\ UsesExactUnlessOverwritten'
  BY <1>1 DEF Inv, GiftOncePerUser, UsesExactUnlessOverwritten, Redeemers
<1>3. ASSUME NEW t \in Session PROVE KnowsCode(t)'
  <2>1. CASE t = s
    BY <2>1, Ended
  <2>2. CASE t # s
    <3>1. KnowsCode(t) /\ tx'[t] = tx[t] /\ (t \notin stale' => t \notin stale)
      BY <1>1, <2>2 DEF Inv
    <3>2. \A k \in Rows : lock[k] = t => lock'[k] = t
      BY <2>2, Ended
    <3> QED
      BY <1>1, <3>1, <3>2 DEF KnowsCode, OfCode, Rows, Item
  <2> QED
    BY <2>1, <2>2
<1> QED
  BY <1>2, <1>3 DEF Inv, Absent

LEMMA AbortInv ==
  ASSUME Inv, NEW s \in Session, Abort(s)
  PROVE  Inv'
<1>1. Ends(s, {}) /\ UNCHANGED <<code, redeemed, banner, overwritten>> /\ {} \in SUBSET Session
  BY DEF Abort, tables
<1>2. TypeOK'
  BY <1>1, Ended DEF Inv, TypeOK
<1>3. Absent'
  BY <1>1 DEF Inv, Absent
<1> QED
  BY <1>1, <1>2, <1>3, Ended, BannersStay, CodesStay DEF Inv

LEMMA CommitMadeInv ==
  ASSUME Inv, NEW s \in Session, CommitMade(s)
  PROVE  Inv'
<1> DEFINE row == [status |-> "valid", max |-> tx[s].count, used |-> 0]
<1>0. PICK c \in Code : c = tx[s].item
  BY DEF CommitMade, Inv, KnowsCode, OfCode
<1>w. PICK D \in SUBSET Session :
        /\ Ends(s, D)
        /\ \A t \in Session : tx[t].item = c => t \in D
        /\ overwritten \subseteq overwritten' /\ overwritten' \subseteq Item
        /\ c \notin overwritten' => s \notin stale
  BY <1>0, Committed DEF CommitMade, Item
<1>1. /\ tx[s].pc = "made" /\ UNCHANGED <<redeemed, banner>>
      /\ code' = [code EXCEPT ![c] = row]
  BY <1>0 DEF CommitMade
<1>2. code[c].status = "absent" /\ lock[c] = s
  BY <1>0, <1>1 DEF Inv, KnowsCode, OfCode
<1>3. /\ tx[s].count \in Nat
      /\ \A d \in Code : code'[d] = IF d = c THEN row ELSE code[d]
  BY <1>1, <1>2 DEF Inv, TypeOK, Tx
<1>4. TypeOK'
  BY <1>w, <1>1, <1>3, Ended DEF Inv, TypeOK
<1>5. GiftOncePerUser'
  BY <1>1 DEF Inv, GiftOncePerUser
<1>6. UsesExactUnlessOverwritten'
  <2>1. Redeemers(c)' = {}
    <3>1. \A u \in User : redeemed'[c][u] = 0
      BY <1>1, <1>2 DEF Inv, Absent
    <3> QED
      BY <3>1 DEF Redeemers
  <2>2. Cardinality({}) = 0
    BY FS_EmptySet
  <2>3. ASSUME NEW d \in Code \ overwritten', d # c
        PROVE  (Cardinality(Redeemers(d)) = code[d].used /\ code[d].used <= code[d].max)'
    <3>1. d \notin overwritten /\ Redeemers(d)' = Redeemers(d) /\ code'[d] = code[d]
      BY <1>w, <1>1, <1>3, <2>3, Ended DEF Redeemers
    <3> QED
      BY <3>1 DEF Inv, UsesExactUnlessOverwritten
  <2> QED
    BY <1>2, <1>3, <2>1, <2>2, <2>3 DEF UsesExactUnlessOverwritten
<1>7. Absent'
  BY <1>1, <1>3 DEF Inv, Absent
<1>8. ASSUME NEW t \in Session PROVE KnowsCode(t)'
  <2>1. CASE t = s
    BY <1>w, <1>1, <2>1, Ended
  <2>2. CASE t # s
    <3>1. KnowsCode(t) /\ tx'[t] = tx[t] /\ (t \notin stale' => t \notin stale /\ t \notin D)
      BY <1>w, <1>1, <2>2, Ended DEF Inv
    <3>2. \A k \in Rows : lock[k] = t => lock'[k] = t
      BY <1>w, <1>1, <2>2, Ended
    <3>3. tx[t].pc \in OfCode => tx[t].item # c
      BY <1>0, <1>2, <2>2, <3>1 DEF KnowsCode, OfCode
    <3> QED
      BY <1>1, <1>3, <3>1, <3>2, <3>3 DEF KnowsCode, OfCode, Rows, Item
  <2> QED
    BY <2>1, <2>2
<1> QED
  BY <1>w, <1>1, <1>4, <1>5, <1>6, <1>7, <1>8, Ended, BannersStay DEF Inv

LEMMA CommitRedeemedInv ==
  ASSUME Inv, NEW s \in Session, CommitRedeemed(s)
  PROVE  Inv'
<1>0. PICK c \in Code, u \in User : c = tx[s].item /\ u = tx[s].actor
  BY DEF CommitRedeemed, Inv, KnowsCode, Owns, OfCode
<1>w. PICK D \in SUBSET Session :
        /\ Ends(s, D)
        /\ \A t \in Session : tx[t].item = c => t \in D
        /\ overwritten \subseteq overwritten' /\ overwritten' \subseteq Item
        /\ c \notin overwritten' => s \notin stale
  BY <1>0, Committed DEF CommitRedeemed, Item
<1>1. /\ tx[s].pc = "redeemed" /\ UNCHANGED banner
      /\ code' = [code EXCEPT ![c].used = tx[s].count]
      /\ redeemed' = [redeemed EXCEPT ![c][u] = @ + 1]
  BY <1>0 DEF CommitRedeemed
<1>2. code[c].status # "absent" /\ redeemed[c][u] = 0 /\ lock[u] = s
  BY <1>0, <1>1 DEF Inv, KnowsCode, Owns, OfCode
<1> DEFINE row == [code[c] EXCEPT !.used = tx[s].count]
<1>a. tx[s].count \in Nat
  BY DEF Inv, TypeOK, Tx
<1>b. /\ row \in [status : {"absent", "valid", "expired"}, max : Nat, used : Nat]
      /\ row.used = tx[s].count /\ row.max = code[c].max /\ row.status = code[c].status
  BY <1>a DEF Inv, TypeOK
<1>c. code' = [code EXCEPT ![c] = row]
  BY <1>1
<1> HIDE DEF row
<1>d. \A d \in Code : code'[d] = IF d = c THEN row ELSE code[d]
  BY <1>c DEF Inv, TypeOK
<1>3. \A d \in Code, v \in User :
        redeemed'[d][v] = IF d = c /\ v = u THEN 1 ELSE redeemed[d][v]
  BY <1>1, <1>2 DEF Inv, TypeOK
<1>4. TypeOK'
  <2>1. code' \in [Code -> [status : {"absent", "valid", "expired"}, max : Nat, used : Nat]]
    BY <1>b, <1>c DEF Inv, TypeOK
  <2>2. redeemed' \in [Code -> [User -> Nat]]
    BY <1>1, <1>2 DEF Inv, TypeOK
  <2> QED
    BY <1>w, <1>1, <2>1, <2>2, Ended DEF Inv, TypeOK
<1>5. GiftOncePerUser'
  BY <1>3 DEF Inv, GiftOncePerUser
<1>6. UsesExactUnlessOverwritten'
  <2>1. ASSUME NEW d \in Code \ overwritten'
        PROVE  (Cardinality(Redeemers(d)) = code[d].used /\ code[d].used <= code[d].max)'
    <3>1. d \notin overwritten /\ Cardinality(Redeemers(d)) = code[d].used
          /\ code[d].used <= code[d].max
      BY <1>w, <1>1, <2>1, Ended DEF Inv, UsesExactUnlessOverwritten
    <3>2. CASE d = c
      <4>1. Redeemers(c)' = Redeemers(c) \cup {u} /\ u \notin Redeemers(c)
        BY <1>2, <1>3 DEF Redeemers
      <4>2. IsFiniteSet(Redeemers(c))
        BY RowAssumption, FS_Subset DEF Redeemers
      <4>3. Cardinality(Redeemers(c)') = Cardinality(Redeemers(c)) + 1
        BY <4>1, <4>2, FS_AddElement
      <4>4. tx[s].count = code[c].used + 1 /\ tx[s].count <= code[c].max
        BY <1>0, <1>1, <1>w, <2>1, <3>2 DEF Inv, KnowsCode
      <4>5. code'[c].used = tx[s].count /\ code'[c].max = code[c].max
        BY <1>b, <1>d
      <4> QED
        BY <3>1, <3>2, <4>3, <4>4, <4>5
    <3>3. CASE d # c
      <4>1. Redeemers(d)' = Redeemers(d) /\ code'[d] = code[d]
        BY <1>3, <1>d, <3>3 DEF Redeemers
      <4> QED
        BY <3>1, <4>1
    <3> QED
      BY <3>2, <3>3
  <2> QED
    BY <2>1 DEF UsesExactUnlessOverwritten
<1>7. Absent'
  BY <1>1, <1>2, <1>3, <1>b, <1>d DEF Inv, Absent
<1>8. ASSUME NEW t \in Session PROVE KnowsCode(t)'
  <2>1. CASE t = s
    BY <1>w, <1>1, <2>1, Ended
  <2>2. CASE t # s
    <3>1. KnowsCode(t) /\ Owns(t) /\ tx'[t] = tx[t] /\ (t \notin stale' => t \notin stale /\ t \notin D)
      BY <1>w, <1>1, <2>2, Ended DEF Inv
    <3>2. \A k \in Rows : lock[k] = t => lock'[k] = t
      BY <1>w, <1>1, <2>2, Ended
    <3>3. tx[t].pc \notin {"idle", "read"} => tx[t].actor # u /\ tx[t].actor \in User
      BY <1>2, <2>2, <3>1 DEF Owns
    <3>4. tx[t].item = c => t \in D
      BY <1>w
    <3>5. tx[t].pc \in OfCode => code'[tx[t].item].status = code[tx[t].item].status
      BY <1>b, <1>d, <3>1 DEF KnowsCode
    <3>6. tx[t].pc \in OfCode /\ tx[t].item # c => code'[tx[t].item] = code[tx[t].item]
      BY <1>d, <3>1 DEF KnowsCode
    <3>7. tx[t].pc \in {"redeem", "redeemed"} =>
            redeemed'[tx[t].item][tx[t].actor] = redeemed[tx[t].item][tx[t].actor]
      BY <1>3, <3>1, <3>3 DEF KnowsCode, OfCode
    <3> QED
      BY <3>1, <3>2, <3>4, <3>5, <3>6, <3>7 DEF KnowsCode, OfCode, Rows, Item
  <2> QED
    BY <2>1, <2>2
<1> QED
  BY <1>w, <1>1, <1>4, <1>5, <1>6, <1>7, <1>8, Ended, BannersStay DEF Inv

LEMMA CommitPaidInv ==
  ASSUME Inv, NEW s \in Session, CommitPaid(s)
  PROVE  Inv'
<1> DEFINE b == tx[s].item
           row == NewBanner(tx[s].count)
<1>1. /\ tx[s].pc = "paid" /\ UNCHANGED <<code, redeemed>>
      /\ banner' = [banner EXCEPT ![b] = row]
  BY DEF CommitPaid
<1>2. /\ b \in Banner /\ banner[b].status = "absent" /\ lock[b] = s
      /\ tx[s].count > 0 /\ tx[s].count \in Nat
  BY <1>1 DEF Inv, KnowsBanner, OfBanner, TypeOK, Tx
<1>w. PICK D \in SUBSET Session :
        /\ Ends(s, D)
        /\ \A t \in Session : tx[t].item = b => t \in D
        /\ overwritten \subseteq overwritten' /\ overwritten' \subseteq Item
        /\ b \notin overwritten' => s \notin stale
  BY <1>2, Committed DEF CommitPaid, Item
<1>3. row = [status |-> "active", target |-> tx[s].count, shown |-> 0]
  BY DEF NewBanner
<1> HIDE DEF row
<1>4. \A a \in Banner : banner'[a] = IF a = b THEN row ELSE banner[a]
  BY <1>1, <1>2 DEF Inv, TypeOK
<1>5. UNCHANGED sent
  BY <1>w, <1>1, Ended
<1>6. TypeOK'
  <2>1. banner' \in [Banner -> [status : {"absent", "active", "completed"},
                               target : Nat, shown : Nat]]
    BY <1>1, <1>2, <1>3 DEF Inv, TypeOK
  <2> QED
    BY <1>w, <1>1, <2>1, Ended DEF Inv, TypeOK
<1>7. BannerDelivered' /\ CompletedAtTarget' /\ CountsSent'
  <2>1. row.status = "active" /\ row.shown = 0 /\ row.target = tx[s].count
    BY <1>3
  <2>2. BannerDelivered'
    BY <1>4, <1>5, <2>1 DEF Inv, BannerDelivered
  <2>3. CompletedAtTarget'
    BY <1>w, <1>2, <1>4, <1>5, <2>1 DEF Inv, CompletedAtTarget
  <2>4. CountsSent'
    BY <1>4, <1>5, <2>1 DEF Inv, TypeOK, CountsSent
  <2> QED
    BY <2>2, <2>3, <2>4
<1>8. Absent'
  BY <1>1, <1>3, <1>4 DEF Inv, Absent
<1>9. ASSUME NEW t \in Session PROVE KnowsBanner(t)'
  <2>1. CASE t = s
    BY <1>w, <1>1, <2>1, Ended
  <2>2. CASE t # s
    <3>1. KnowsBanner(t) /\ tx'[t] = tx[t] /\ (t \notin stale' => t \notin stale)
      BY <1>w, <1>1, <2>2, Ended DEF Inv
    <3>2. \A k \in Rows : lock[k] = t => lock'[k] = t
      BY <1>w, <1>1, <2>2, Ended
    <3>3. tx[t].pc \in OfBanner => tx[t].item # b
      BY <1>2, <2>2, <3>1 DEF KnowsBanner, OfBanner
    <3> QED
      BY <1>4, <1>5, <3>1, <3>2, <3>3 DEF KnowsBanner, OfBanner, Rows, Item
  <2> QED
    BY <2>1, <2>2
<1> QED
  BY <1>w, <1>1, <1>6, <1>7, <1>8, <1>9, Ended, CodesStay DEF Inv

LEMMA CommitShownInv ==
  ASSUME Inv, NEW s \in Session, CommitShown(s)
  PROVE  Inv'
<1> DEFINE b == tx[s].item
           n == tx[s].count
           row == Counted(banner[b], n)
<1>1. /\ tx[s].pc = "shown" /\ UNCHANGED <<code, redeemed>>
      /\ banner' = [banner EXCEPT ![b] = row]
  BY DEF CommitShown
<1>2. /\ b \in Banner /\ banner[b].status # "absent" /\ n \in Nat /\ sent[b] \in Nat
      /\ n <= sent[b]
      /\ s \notin stale => n = banner[b].shown + 1 /\ banner[b].status = "active"
  BY <1>1 DEF Inv, KnowsBanner, OfBanner, TypeOK, Tx
<1>w. PICK D \in SUBSET Session :
        /\ Ends(s, D)
        /\ \A t \in Session : tx[t].item = b => t \in D
        /\ overwritten \subseteq overwritten' /\ overwritten' \subseteq Item
        /\ b \notin overwritten' => s \notin stale
  BY <1>2, Committed DEF CommitShown, Item
<1>3. /\ banner[b].target \in Nat /\ banner[b].shown \in Nat
      /\ row \in [status : {"absent", "active", "completed"}, target : Nat, shown : Nat]
      /\ row.shown = n /\ row.target = banner[b].target
      /\ row.status = IF n >= banner[b].target THEN "completed" ELSE banner[b].status
  BY <1>2 DEF Counted, Inv, TypeOK
<1> HIDE DEF row
<1>4. \A a \in Banner : banner'[a] = IF a = b THEN row ELSE banner[a]
  BY <1>1, <1>2 DEF Inv, TypeOK
<1>5. UNCHANGED sent
  BY <1>w, <1>1, Ended
<1>6. TypeOK'
  <2>1. banner' \in [Banner -> [status : {"absent", "active", "completed"},
                               target : Nat, shown : Nat]]
    BY <1>1, <1>2, <1>3 DEF Inv, TypeOK
  <2> QED
    BY <1>w, <1>1, <2>1, Ended DEF Inv, TypeOK
<1>7. BannerDelivered' /\ CountsSent'
  BY <1>2, <1>3, <1>4, <1>5 DEF Inv, BannerDelivered, CountsSent
<1>8. CompletedAtTarget'
  <2>1. ASSUME b \notin overwritten'
        PROVE  /\ row.shown <= row.target
               /\ row.status = "completed" => row.shown = row.target
               /\ row.status = "active" => row.shown < row.target
    BY <1>w, <1>2, <1>3, <2>1 DEF Inv, CompletedAtTarget
  <2> QED
    BY <1>w, <1>4, <1>5, <2>1 DEF Inv, CompletedAtTarget
<1>9. Absent'
  BY <1>1, <1>2, <1>3, <1>4 DEF Inv, Absent
<1>10. ASSUME NEW t \in Session PROVE KnowsBanner(t)'
  <2>1. CASE t = s
    BY <1>w, <1>1, <2>1, Ended
  <2>2. CASE t # s
    <3>1. KnowsBanner(t) /\ tx'[t] = tx[t] /\ (t \notin stale' => t \notin stale)
      BY <1>w, <1>1, <2>2, Ended DEF Inv
    <3>2. \A k \in Rows : lock[k] = t => lock'[k] = t
      BY <1>w, <1>1, <2>2, Ended
    <3>3. tx[t].item = b => t \in stale'
      BY <1>w, <2>2, Ended
    <3>4. tx[t].pc = "paid" => tx[t].item # b
      BY <1>2, <3>1 DEF KnowsBanner
    <3>5. row.status # "absent"
      BY <1>2, <1>3
    <3> QED
      BY <1>4, <1>5, <3>1, <3>2, <3>3, <3>4, <3>5 DEF KnowsBanner, OfBanner, Rows, Item
  <2> QED
    BY <2>1, <2>2
<1> QED
  BY <1>w, <1>1, <1>6, <1>7, <1>8, <1>9, <1>10, Ended, CodesStay DEF Inv

LEMMA CodeExpiresInv ==
  ASSUME Inv, NEW c \in Code, CodeExpires(c)
  PROVE  Inv'
<1>1. /\ code' = [code EXCEPT ![c].status = "expired"] /\ code[c].status = "valid"
      /\ UNCHANGED <<redeemed, banner, sent, lock, history, tx>>
  BY DEF CodeExpires
<1>2. \A d \in Code : /\ code'[d].used = code[d].used /\ code'[d].max = code[d].max
                      /\ code'[d].status = IF d = c THEN "expired" ELSE code[d].status
                      /\ d # c => code'[d] = code[d]
  BY <1>1 DEF Inv, TypeOK
<1>3. TypeOK'
  BY <1>1 DEF history, Inv, TypeOK
<1>4. GiftOncePerUser' /\ BannerDelivered' /\ CompletedAtTarget' /\ CountsSent'
  BY <1>1 DEF history, Inv, GiftOncePerUser, BannerDelivered, CompletedAtTarget, CountsSent
<1>5. UsesExactUnlessOverwritten'
  BY <1>1, <1>2 DEF history, Inv, UsesExactUnlessOverwritten, Redeemers
<1>6. Absent'
  BY <1>1, <1>2 DEF Inv, Absent
<1>7. ASSUME NEW t \in Session PROVE Owns(t)' /\ KnowsCode(t)' /\ KnowsBanner(t)'
  <2>1. Owns(t) /\ KnowsCode(t) /\ KnowsBanner(t)
    BY DEF Inv
  <2>2. Owns(t)' /\ KnowsBanner(t)'
    BY <1>1, <2>1 DEF history, Owns, KnowsBanner
  <2>3. KnowsCode(t)'
    BY <1>1, <1>2, <2>1 DEF history, KnowsCode, OfCode
  <2> QED
    BY <2>2, <2>3
<1> QED
  BY <1>3, <1>4, <1>5, <1>6, <1>7 DEF Inv

(***************************************************************************)
(* The theorems                                                            *)
(***************************************************************************)
LEMMA StepInv ==
  ASSUME Inv, [Next]_vars
  PROVE  Inv'
<1>1. ASSUME NEW s \in Session, Step(s) PROVE Inv'
  <2>1. CASE \E u \in User : Receive(s, u)
    BY <2>1, ReceiveInv
  <2>2. CASE TakeRow(s)
    BY <2>2, TakeRowInv
  <2>3. CASE \E c \in Code : RedeemLook(s, c) \/ \E n \in MaxUses : MakeCode(s, c, n)
    BY <2>3, RedeemLookInv, MakeCodeInv
  <2>4. CASE \E b \in Banner : ShowLook(s, b) \/ \E n \in Target : BuyBanner(s, b, n)
    BY <2>4, ShowLookInv, BuyBannerInv
  <2>5. CASE RedeemWrite(s)
    BY <2>5, FlushInv DEF RedeemWrite
  <2>6. CASE ShowWrite(s)
    BY <2>6, FlushInv DEF ShowWrite
  <2>7. CASE Show(s)
    BY <2>7, ShowInv
  <2>8. CASE CommitMade(s) \/ CommitRedeemed(s)
    BY <2>8, CommitMadeInv, CommitRedeemedInv
  <2>9. CASE CommitPaid(s) \/ CommitShown(s)
    BY <2>9, CommitPaidInv, CommitShownInv
  <2>10. CASE Abort(s)
    BY <2>10, AbortInv
  <2> QED
    BY <1>1, <2>1, <2>2, <2>3, <2>4, <2>5, <2>6, <2>7, <2>8, <2>9, <2>10 DEF Step
<1>2. CASE UNCHANGED vars
  <2> USE <1>2 DEF vars, tables, history
  <2>1. TypeOK' /\ GiftOncePerUser' /\ BannerDelivered' /\ CompletedAtTarget'
    BY DEF Inv, TypeOK, GiftOncePerUser, BannerDelivered, CompletedAtTarget
  <2>2. UsesExactUnlessOverwritten'
    BY DEF Inv, UsesExactUnlessOverwritten, Redeemers
  <2>3. Absent' /\ CountsSent'
    BY DEF Inv, Absent, CountsSent
  <2>4. ASSUME NEW s \in Session PROVE Owns(s)' /\ KnowsCode(s)' /\ KnowsBanner(s)'
    BY DEF Inv, Owns, KnowsCode, KnowsBanner
  <2> QED
    BY <2>1, <2>2, <2>3, <2>4 DEF Inv
<1> QED
  BY <1>1, <1>2, CodeExpiresInv DEF Next

THEOREM InvHolds == Spec => []Inv
BY InitInv, StepInv, PTL DEF Spec

\* Every reachable state of the codes and banners is well typed (GiftCode,
\* GiftCodeRedemption and AdBanner).
THEOREM PromotionsTypeCorrect == Spec => []TypeOK
BY InvHolds, PTL DEF Inv

\* Gift codes implement Payouts: whatever interleaves or fails, a step records
\* redemptions by users who had not redeemed the code, or changes none
\* (redeem_gift_code).
THEOREM GiftsImplementPayouts == Spec => GiftSpec
<1> DEFINE given == [p \in Code \X User |-> redeemed[p[1]][p[2]]]
<1>1. Init => Gift!Init
  BY DEF Init, Gift!Init
<1>2. Inv /\ [Next]_vars => [Gift!Next]_given
  <2> SUFFICES ASSUME Inv, [Next]_vars PROVE Gift!Next \/ given' = given
    OBVIOUS
  <2>1. ASSUME NEW s \in Session, CommitRedeemed(s)
        PROVE  Gift!Next
    <3>1. PICK c \in Code, u \in User : c = tx[s].item /\ u = tx[s].actor
      BY <2>1 DEF CommitRedeemed, Inv, KnowsCode, Owns, OfCode
    <3>2. redeemed[c][u] = 0
      BY <2>1, <3>1 DEF CommitRedeemed, Inv, KnowsCode
    <3>3. \A d \in Code, v \in User :
            redeemed'[d][v] = IF d = c /\ v = u THEN 1 ELSE redeemed[d][v]
      BY <2>1, <3>1, <3>2 DEF CommitRedeemed, Inv, TypeOK
    <3>4. Gift!Pay({<<c, u>>})
      BY <3>2, <3>3 DEF Gift!Pay
    <3>5. {<<c, u>>} \in SUBSET (Code \X User)
      OBVIOUS
    <3> QED
      BY <3>4, <3>5 DEF Gift!Next
  <2>2. ASSUME ~\E s \in Session : CommitRedeemed(s)
        PROVE  redeemed' = redeemed
    BY <2>2 DEF Next, vars, tables, Step, Receive, TakeRow, RedeemLook, MakeCode, ShowLook,
                BuyBanner, RedeemWrite, ShowWrite, Flush, Show, CommitMade, CommitPaid,
                CommitShown, Abort, CodeExpires
  <2> QED
    BY <2>1, <2>2
<1> QED
  BY <1>1, <1>2, InvHolds, PTL DEF Spec, GiftSpec, Gift!Spec

\* No user redeems a code twice (redeem_gift_code), whatever runs at a time.
THEOREM RedeemedOnce == Spec => []GiftOncePerUser
BY InvHolds, PTL DEF Inv

\* Until an update of a code is lost it is used no more often than allowed.
THEOREM UsesExact == Spec => []UsesExactUnlessOverwritten
BY InvHolds, PTL DEF Inv

\* A completed banner was sent as often as was paid for (record_impression).
THEOREM PaidImpressionsSent == Spec => []BannerDelivered
BY InvHolds, PTL DEF Inv

\* Until an update of a banner is lost it is completed exactly at its target.
THEOREM CompletedExactly == Spec => []CompletedAtTarget
BY InvHolds, PTL DEF Inv
=============================================================================
