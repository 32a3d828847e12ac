---------------------------- MODULE OrdersProofs ----------------------------
(***************************************************************************)
(* Proofs about Orders: typing, the lock discipline, and what follows from *)
(* it, that no claim is paid twice and that Orders implements Payouts; who *)
(* is charged for a leave and which referrals are paid; the buttons of an  *)
(* open order; that progress, target and charges are exact until an update *)
(* is lost; the posts of paid orders; that handlers end.                   *)
(***************************************************************************)
EXTENDS OrdersHistory, FiniteSetTheorems, TLAPS

(***************************************************************************)
(* Locks, rows and claims                                                  *)
(***************************************************************************)

\* Lock gives s every row of K and takes no row from another session.
LEMMA LockTakes ==
  ASSUME TypeOK, NEW s \in Session, NEW K, Lock(s, K)
  PROVE  /\ lock' \in [User \cup Order -> Session \cup {Nobody}]
         /\ \A k \in K : k \in User \cup Order => lock'[k] = s
         /\ \A t \in Session, k \in User \cup Order : lock[k] = t => lock'[k] = t
<1>1. \A t \in Session : t # Nobody
  BY NobodyAssumption
<1> QED
  BY <1>1 DEF TypeOK, Lock

\* What a session sees of an order is a row.
LEMMA ViewType ==
  ASSUME TypeOK, NEW s \in Session, NEW o \in Order
  PROVE  View(s, o) \in Row
<1>1. /\ order[o] \in Row
      /\ tx[s].seen[o] \in Row
      /\ tx[s].mine[o] \in Row
  BY DEF TypeOK, Tx
<1> QED
  BY <1>1 DEF View, Merge, Row, Status, Guarantee

\* A session that has not changed its copy of a row leaves the row alone.
LEMMA MergeSame ==
  ASSUME NEW row \in Row, NEW mine
  PROVE  Merge(row, mine, mine) = row
BY DEF Merge, Row

\* Loading rows keeps the shape of a session's state.
LEMMA LoadsType ==
  ASSUME TypeOK, NEW s \in Session, NEW t \in Tx, NEW S
  PROVE  Loads(s, t, S) \in Tx
<1> DEFINE fresh == {o \in S : tx[s].seen[o].status = "absent"}
           seen == [o \in Order |-> IF o \in fresh THEN View(s, o) ELSE t.seen[o]]
           mine == [o \in Order |-> IF o \in fresh THEN View(s, o) ELSE t.mine[o]]
<1>1. Loads(s, t, S) = [t EXCEPT !.seen = seen, !.mine = mine]
  BY DEF Loads, Tx
<1>2. seen \in [Order -> Row] /\ mine \in [Order -> Row]
  BY ViewType DEF Tx
<1> HIDE DEF seen, mine
<1>3. [t EXCEPT !.seen = seen, !.mine = mine] \in Tx
  BY <1>2 DEF Tx
<1> QED
  BY <1>1, <1>3 DEF Tx

LEMMA IdleType == IdleTx \in Tx
BY DEF IdleTx, Tx, NoRow, Row, Status, Guarantee

(***************************************************************************)
(* Type correctness                                                        *)
(***************************************************************************)
LEMMA ClaimType ==
  /\ \A u \in User, o \in Order : <<"join", u, o>> \in Claim
  /\ \A o \in Order : <<"commission", OwnerOf[o], o>> \in Claim
  /\ \A u \in User : ReferrerOf[u] # Nobody
                       => <<"referral", u, ReferrerOf[u]>> \in Claim
  /\ BonusClaim \subseteq Claim
  /\ CommissionClaim \subseteq Claim
  /\ \A c \in Claim : c[2] \in User
BY OrderAssumption, ReferrerAssumption
   DEF Claim, JoinClaim, CommissionClaim, ReferralClaim, BonusClaim

LEMMA TypeInit == Init => TypeOK /\ LockDiscipline
<1> SUFFICES ASSUME Init PROVE TypeOK /\ LockDiscipline
  OBVIOUS
<1>1. TypeOK
  BY IdleType DEF Init, TypeOK, NoRow, Row, Status, Guarantee
<1>2. LockDiscipline
  <2>1. \A s \in Session : HoldsOrders(s)
    BY DEF Init, HoldsOrders, Writes, IdleTx
  <2> QED
    BY <2>1, OrderAssumption, NobodyAssumption, ClaimType
       DEF Init, LockDiscipline, Disciplined, HoldsActor, HoldsClaims, WorksOn,
           CommissionOf, IdleTx
<1> QED
  BY <1>1, <1>2

LEMMA TypeStarts ==
  ASSUME TypeOK, NEW s \in Session, Starts(s)
  PROVE  TypeOK'
<1> USE IdleType, ClaimType, OrderAssumption
<1>1. ASSUME NEW o \in Order, PlaceOrder(s, o)
      PROVE  TypeOK'
  <2>1. [IdleTx EXCEPT !.pc = "placed", !.actor = OwnerOf[o], !.at = o,
                       !.mine[o].status = "queued"] \in Tx
    <3>1. [IdleTx.mine EXCEPT ![o].status = "queued"] \in [Order -> Row]
      BY DEF Tx, Row, Status
    <3> QED
      BY <3>1 DEF Tx
  <2> QED
    BY <1>1, <2>1, LockTakes DEF PlaceOrder, TypeOK, telegram
<1>2. ASSUME NEW u \in User, NEW o \in Order, NEW B \in SUBSET BonusClaim,
             ClickLook(s, u, o, B)
      PROVE  TypeOK'
  <2>1. order[o] \in Row
    BY DEF TypeOK
  <2>2. [IdleTx EXCEPT !.pc = "looked", !.actor = u, !.at = o,
                       !.seen[o] = order[o], !.mine[o] = order[o],
                       !.pay = {<<"join", u, o>>} \cup B] \in Tx
    <3>1. [IdleTx.seen EXCEPT ![o] = order[o]] \in [Order -> Row]
      BY <2>1 DEF Tx
    <3>2. [IdleTx.mine EXCEPT ![o] = order[o]] \in [Order -> Row]
      BY <2>1 DEF Tx
    <3>3. {<<"join", u, o>>} \cup B \in SUBSET Claim
      OBVIOUS
    <3> QED
      BY <3>1, <3>2, <3>3 DEF Tx
  <2> QED
    BY <1>2, <2>2, LockTakes DEF ClickLook, TypeOK, telegram
<1>3. ASSUME NEW c \in Channel, NEW u \in User,
             NEW by \in {u} \cup {OwnerOf[o] : o \in Order}, LeftUpdate(s, c, u, by)
      PROVE  TypeOK'
  <2>1. Handles(s, [IdleTx EXCEPT !.actor = by], c, u) \in Tx
    <3>1. [[IdleTx EXCEPT !.actor = by]
             EXCEPT !.pc = "loop", !.leaver = u, !.work = Covered(s, c)] \in Tx
      BY DEF Tx, IdleTx, Covered
    <3> QED
      BY <3>1, LoadsType DEF Handles
  <2> QED
    BY <1>3, <2>1, LockTakes DEF LeftUpdate, TypeOK
<1>4. ASSUME RecheckStart(s)
      PROVE  TypeOK'
  <2> DEFINE live == {o \in Order : Guaranteed(order[o])}
  <2>1. [IdleTx EXCEPT !.pc = "loop", !.rounds = live] \in Tx
    BY DEF Tx, IdleTx
  <2>2. Loads(s, [IdleTx EXCEPT !.pc = "loop", !.rounds = live], live) \in Tx
    BY <2>1, LoadsType
  <2> QED
    BY <1>4, <2>2 DEF RecheckStart, TypeOK, telegram
<1> QED
  BY <1>1, <1>2, <1>3, <1>4 DEF Starts

\* A step that changes the state of s only, and takes only free locks.
LEMMA TypeOfStep ==
  ASSUME TypeOK, NEW s \in Session, NEW t \in Tx,
         tx' = [tx EXCEPT ![s] = t],
         lock' \in [User \cup Order -> Session \cup {Nobody}],
         post' \in [Order -> {"absent", "open", "closed"}],
         UNCHANGED <<order, paid, charged, telegram>>
  PROVE  TypeOK'
BY DEF TypeOK, telegram

LEMMA TypeProceed ==
  ASSUME TypeOK, LockDiscipline, NEW s \in Session, Proceed(s)
  PROVE  TypeOK'
<1> USE IdleType, ClaimType, OrderAssumption
<1> DEFINE t == tx[s]
           o == t.at
<1>0. t \in Tx /\ lock \in [User \cup Order -> Session \cup {Nobody}]
               /\ post \in [Order -> {"absent", "open", "closed"}]
  BY DEF TypeOK
<1>t. /\ t.mine \in [Order -> Row]
      /\ t.pay \in SUBSET Claim
      /\ t.gone \in SUBSET (Order \X User)
  BY <1>0 DEF Tx
<1>r. ASSUME NEW r \in Row
      PROVE  /\ [r EXCEPT !.status = "in_progress"] \in Row
             /\ [r EXCEPT !.progress = @ + 1] \in Row
             /\ Refilled(r) \in Row
  <2>1. r.progress \in Nat /\ r.status \in Status /\ r.guarantee \in Guarantee
    BY DEF Row
  <2>2. (IF r.progress = 0 THEN 0 ELSE r.progress - 1) \in Nat
    BY <2>1
  <2>3. "in_progress" \in Status /\ "refilling" \in Status
    BY DEF Status
  <2>4. /\ [r EXCEPT !.status = "in_progress"] \in Row
        /\ [r EXCEPT !.progress = @ + 1] \in Row
    BY <2>1, <2>3 DEF Row
  <2>5. Refilled(r) \in Row
    BY <2>1, <2>2, <2>3 DEF Row, Refilled
  <2> QED
    BY <2>4, <2>5
<1>w. WorksOn(s)
  BY DEF LockDiscipline, Disciplined
<1>1. ASSUME NEW C \in SUBSET CommissionClaim, PostOrder(s, C)
      PROVE  TypeOK'
  <2>1. o \in Order
    BY <1>1, <1>w DEF PostOrder, WorksOn
  <2>2. [t.mine EXCEPT ![o].status = "in_progress"] \in [Order -> Row]
    BY <1>t, <1>r, <2>1
  <2>3. [t EXCEPT !.pc = "done", !.pay = C, !.mine[o].status = "in_progress"] \in Tx
    BY <1>0, <2>2 DEF Tx
  <2>4. tx' = [tx EXCEPT ![s] = [t EXCEPT !.pc = "done", !.pay = C,
                                          !.mine[o].status = "in_progress"]]
    BY <1>0, <1>1 DEF PostOrder, TypeOK, Tx
  <2>8. lock' \in [User \cup Order -> Session \cup {Nobody}]
    BY <1>0, <1>1 DEF PostOrder, Lock
  <2>9. post' \in [Order -> {"absent", "open", "closed"}]
    BY <1>0, <1>1 DEF PostOrder
  <2> QED
    BY <1>1, <2>3, <2>4, <2>8, <2>9, TypeOfStep DEF PostOrder
<1>2. ASSUME NEW C \in SUBSET CommissionClaim, PostFails(s, C)
      PROVE  TypeOK'
  <2>1. [t EXCEPT !.pc = "done", !.pay = C] \in Tx
    BY <1>0 DEF Tx
  <2>8. lock' \in [User \cup Order -> Session \cup {Nobody}]
    BY <1>0, <1>2 DEF PostFails, Lock
  <2>9. post' \in [Order -> {"absent", "open", "closed"}]
    BY <1>0, <1>2 DEF PostFails
  <2> QED
    BY <1>2, <2>1, <2>8, <2>9, TypeOfStep DEF PostFails
<1>3. ASSUME NEW B \in SUBSET BonusClaim, ClickReferral(s, B)
      PROVE  TypeOK'
  <2>1. t.actor \in User
    BY <1>3, <1>w DEF ClickReferral, WorksOn
  <2>0. {<<"referral", t.actor, ReferrerOf[t.actor]>>} \cup B \in SUBSET Claim
    BY <1>3, <2>1 DEF ClickReferral, ReferralDue
  <2>2. [t EXCEPT !.pc = "referred",
           !.pay = @ \cup {<<"referral", t.actor, ReferrerOf[t.actor]>>} \cup B] \in Tx
    BY <1>0, <1>t, <2>0 DEF Tx
  <2>8. lock' \in [User \cup Order -> Session \cup {Nobody}]
    BY <1>0, <1>3 DEF ClickReferral, Lock
  <2>9. post' \in [Order -> {"absent", "open", "closed"}]
    BY <1>0, <1>3 DEF ClickReferral
  <2> QED
    BY <1>3, <2>2, <2>8, <2>9, TypeOfStep DEF ClickReferral
<1>4. ASSUME NEW B \in SUBSET BonusClaim, ClickComplete(s, B)
      PROVE  TypeOK'
  <2> DEFINE full == [status |-> "completed", progress |-> t.mine[o].progress + 1,
                      guarantee |-> "live"]
  <2>1. o \in Order
    BY <1>4, <1>w DEF ClickComplete, WorksOn
  <2>2. full \in Row
    BY <1>t, <2>1 DEF Row, Status, Guarantee
  <2> HIDE DEF full
  <2>3. [t EXCEPT !.pc = "done", !.pay = @ \cup B, !.mine[o] = full] \in Tx
    <3>1. [t.mine EXCEPT ![o] = full] \in [Order -> Row]
      BY <1>0, <2>1, <2>2 DEF Tx
    <3> QED
      BY <1>0, <3>1 DEF Tx
  <2>4. tx' = [tx EXCEPT ![s] = [t EXCEPT !.pc = "done", !.pay = @ \cup B,
                                          !.mine[o] = full]]
    BY <1>0, <1>4 DEF ClickComplete, TypeOK, Tx, full
  <2>8. lock' \in [User \cup Order -> Session \cup {Nobody}]
    BY <1>0, <1>4 DEF ClickComplete, Lock
  <2>9. post' \in [Order -> {"absent", "open", "closed"}]
    BY <1>0, <1>4 DEF ClickComplete
  <2> QED
    BY <1>4, <2>3, <2>4, <2>8, <2>9, TypeOfStep DEF ClickComplete
<1>5. ASSUME ClickNoReferral(s)
      PROVE  TypeOK'
  <2>1. [t EXCEPT !.pc = "referred"] \in Tx
    BY <1>0 DEF Tx
  <2> QED
    BY <1>0, <1>5, <2>1, TypeOfStep DEF ClickNoReferral
<1>6. ASSUME ClickCount(s)
      PROVE  TypeOK'
  <2>1. o \in Order
    BY <1>6, <1>w DEF ClickCount, WorksOn
  <2>2. [t.mine EXCEPT ![o].progress = @ + 1] \in [Order -> Row]
    BY <1>t, <1>r, <2>1
  <2>3. [t EXCEPT !.pc = "done", !.mine[o].progress = @ + 1] \in Tx
    BY <1>0, <2>2 DEF Tx
  <2>4. tx' = [tx EXCEPT ![s] = [t EXCEPT !.pc = "done", !.mine[o].progress = @ + 1]]
    BY <1>0, <1>6 DEF ClickCount, TypeOK, Tx
  <2>8. lock' \in [User \cup Order -> Session \cup {Nobody}]
    BY <1>0, <1>6 DEF ClickCount, Lock
  <2>9. post' \in [Order -> {"absent", "open", "closed"}]
    BY <1>0, <1>6 DEF ClickCount
  <2> QED
    BY <1>6, <2>3, <2>4, <2>8, <2>9, TypeOfStep DEF ClickCount
<1>7. ASSUME NEW p \in Order, LeftFound(s, p) \/ LeftSkip(s, p)
      PROVE  TypeOK'
  <2>1. [t EXCEPT !.pc = "mark", !.at = p, !.work = @ \ {p}] \in Tx
    BY <1>0 DEF Tx
  <2>2. [t EXCEPT !.work = @ \ {p}] \in Tx
    BY <1>0 DEF Tx
  <2>3. CASE LeftFound(s, p)
    <3>1. tx' = [tx EXCEPT ![s] = [t EXCEPT !.pc = "mark", !.at = p, !.work = @ \ {p}]]
      BY <1>0, <2>3 DEF LeftFound, TypeOK, Tx
    <3> QED
      BY <1>0, <2>1, <2>3, <3>1, TypeOfStep DEF LeftFound
  <2>4. CASE LeftSkip(s, p)
    BY <1>0, <2>2, <2>4, TypeOfStep DEF LeftSkip
  <2> QED
    BY <1>7, <2>3, <2>4
<1>8. ASSUME LeftMark(s)
      PROVE  TypeOK'
  <2> DEFINE mine == [t.mine EXCEPT ![o] = Refilled(@)]
  <2>1. o \in Order /\ t.leaver \in User
    BY <1>8, <1>w DEF LeftMark, WorksOn
  <2>2. mine \in [Order -> Row]
    BY <1>t, <1>r, <2>1
  <2> HIDE DEF mine
  <2>3. [t EXCEPT !.pc = "loop", !.mine = mine,
                  !.gone = @ \cup {<<o, t.leaver>>}] \in Tx
    <3>1. t.gone \cup {<<o, t.leaver>>} \in SUBSET (Order \X User)
      BY <1>t, <2>1
    <3> QED
      BY <1>0, <2>2, <3>1 DEF Tx
  <2>4. tx' = [tx EXCEPT ![s] = [t EXCEPT !.pc = "loop", !.mine = mine,
                                          !.gone = @ \cup {<<o, t.leaver>>}]]
    BY <1>0, <1>8 DEF LeftMark, TypeOK, Tx, mine
  <2>8. lock' \in [User \cup Order -> Session \cup {Nobody}]
    BY <1>0, <1>8 DEF LeftMark, Lock
  <2>9. post' \in [Order -> {"absent", "open", "closed"}]
    BY <1>0, <1>8 DEF LeftMark
  <2> QED
    BY <1>8, <2>3, <2>4, <2>8, <2>9, TypeOfStep DEF LeftMark
<1>9. ASSUME NEW p \in Order, NEW T \in SUBSET User, RecheckOrder(s, p, T)
      PROVE  TypeOK'
  <2>1. Cardinality(T) \in Nat
    BY FiniteAssumption, FS_Subset, FS_CardinalityType
  <2>2. t.checked + Cardinality(T) \in Nat
    BY <1>0, <2>1 DEF Tx
  <2>3. [t EXCEPT !.at = p, !.rounds = @ \ {p}, !.checks = T,
                  !.checked = @ + Cardinality(T)] \in Tx
    BY <1>0, <2>2 DEF Tx
  <2>4. tx' = [tx EXCEPT ![s] = [t EXCEPT !.at = p, !.rounds = @ \ {p}, !.checks = T,
                                          !.checked = @ + Cardinality(T)]]
    BY <1>0, <1>9 DEF RecheckOrder, TypeOK, Tx
  <2> QED
    BY <1>0, <1>9, <2>3, <2>4, TypeOfStep DEF RecheckOrder
<1>10. ASSUME NEW u \in User, RecheckStays(s, u)
      PROVE  TypeOK'
  <2>1. [t EXCEPT !.checks = @ \ {u}] \in Tx
    BY <1>0 DEF Tx
  <2> QED
    BY <1>0, <1>10, <2>1, TypeOfStep DEF RecheckStays
<1>11. ASSUME NEW u \in User, RecheckGone(s, u)
      PROVE  TypeOK'
  <2> DEFINE c == ChannelOf[o]
             left == [[t EXCEPT !.checks = @ \ {u}]
                       EXCEPT !.pc = "loop", !.leaver = u, !.work = Covered(s, c)]
  <2>1. left \in Tx
    BY <1>0 DEF Tx, Covered
  <2>2. Loads(s, left, Covered(s, c)) \in Tx
    BY <2>1, LoadsType
  <2> QED
    BY <1>0, <1>11, <2>2, TypeOfStep DEF RecheckGone, Handles
<1>12. ASSUME Commit(s)
      PROVE  TypeOK'
  <2>1. order' \in [Order -> Row]
    BY <1>12, ViewType DEF Commit
  <2>2. /\ paid' \in [Claim -> Nat]
        /\ charged' \in [Order \X User -> Nat]
    BY <1>12 DEF Commit, TypeOK
  <2> QED
    BY <1>12, <2>1, <2>2 DEF Commit, Ends, TypeOK, telegram
<1> QED
  BY <1>1, <1>2, <1>3, <1>4, <1>5, <1>6, <1>7, <1>8, <1>9, <1>10, <1>11, <1>12
     DEF Proceed

LEMMA TypeNext ==
  ASSUME TypeOK, LockDiscipline, [Next]_vars
  PROVE  TypeOK'
<1>1. ASSUME NEW s \in Session, Abort(s)
      PROVE  TypeOK'
  BY <1>1, IdleType DEF Abort, Ends, TypeOK, telegram
<1>2. ASSUME Environment
      PROVE  TypeOK'
  <2>1. ASSUME NEW c \in Channel, NEW u \in User,
               JoinChannel(c, u) \/ LeaveChannel(c, u) \/ RestrictMember(c, u)
        PROVE  TypeOK'
    <3>1. CASE JoinChannel(c, u)
      BY <3>1 DEF JoinChannel, TypeOK
    <3>2. CASE LeaveChannel(c, u)
      BY <3>2 DEF LeaveChannel, TypeOK
    <3>3. CASE RestrictMember(c, u)
      <4>1. restricted' \subseteq Channel \X User
        BY <3>3 DEF RestrictMember, TypeOK
      <4> QED
        BY <3>3, <4>1 DEF RestrictMember, TypeOK
    <3> QED
      BY <2>1, <3>1, <3>2, <3>3
  <2>2. ASSUME DropPendingUpdates
        PROVE  TypeOK'
    BY <2>2 DEF DropPendingUpdates, TypeOK
  <2>3. ASSUME NEW o \in Order, GuaranteeEnds(o)
        PROVE  TypeOK'
    BY <2>3 DEF GuaranteeEnds, TypeOK, telegram, Row, Guarantee
  <2>4. CASE \E c \in Channel, u \in User :
               JoinChannel(c, u) \/ LeaveChannel(c, u) \/ RestrictMember(c, u)
    BY <2>1, <2>4
  <2> QED
    BY <1>2, <2>2, <2>3, <2>4 DEF Environment
<1>3. CASE UNCHANGED vars
  BY <1>3 DEF vars, TypeOK
<1> QED
  BY <1>1, <1>2, <1>3, TypeStarts, TypeProceed DEF Next, Step

(***************************************************************************)
(* The lock discipline                                                     *)
(***************************************************************************)

\* What a session in the state x has to hold of the orders.
LEMMA OrdersHeld ==
  ASSUME NEW s \in Session, NEW x, tx'[s] = x,
         \A p \in Order : x.mine[p] = x.seen[p] \/ lock'[p] = s,
         \A p \in Order : x.mine[p].status = "absent" => x.seen[p].status = "absent",
         \A p \in Order, u \in User : <<p, u>> \in x.gone => lock'[p] = s
  PROVE  HoldsOrders(s)'
BY DEF HoldsOrders, Writes

\* A step that leaves t's state, its locks and the tables alone keeps t's
\* part of the discipline.
LEMMA OthersKeep ==
  ASSUME TypeOK, NEW t \in Session, Disciplined(t), tx'[t] = tx[t],
         order' = order, paid' = paid,
         \A k \in User \cup Order : lock[k] = t => lock'[k] = t
  PROVE  Disciplined(t)'
<1> USE ClaimType, OrderAssumption
<1>0. tx[t] \in Tx
  BY DEF TypeOK
<1>1. HoldsActor(t)'
  BY <1>0 DEF Disciplined, HoldsActor, Tx
<1>2. HoldsClaims(t)'
  BY <1>0 DEF Disciplined, HoldsClaims, Tx
<1>3. HoldsOrders(t)'
  BY <1>0 DEF Disciplined, HoldsOrders, Writes, Tx
<1>4. WorksOn(t)'
  BY <1>0 DEF Disciplined, WorksOn, Tx
<1>5. CommissionOf(t)'
  BY <1>0 DEF Disciplined, CommissionOf, Tx
<1> QED
  BY <1>1, <1>2, <1>3, <1>4, <1>5 DEF Disciplined

\* What a step of s has to establish: its own part, without touching others.
LEMMA StepKeeps ==
  ASSUME TypeOK, LockDiscipline, NEW s \in Session, NEW x,
         tx' = [tx EXCEPT ![s] = x], order' = order, paid' = paid,
         \A t \in Session, k \in User \cup Order : lock[k] = t => lock'[k] = t,
         Disciplined(s)'
  PROVE  LockDiscipline'
<1> SUFFICES ASSUME NEW t \in Session, t # s
             PROVE  Disciplined(t)'
  BY DEF LockDiscipline
<1>1. tx'[t] = tx[t]
  BY DEF TypeOK
<1> QED
  BY <1>1, OthersKeep DEF LockDiscipline

\* The parts of the discipline that say what s itself may be doing.
LEMMA StartsDiscipline ==
  ASSUME TypeOK, LockDiscipline, NEW s \in Session, Starts(s)
  PROVE  LockDiscipline'
<1> USE ClaimType, OrderAssumption, NobodyAssumption
<1>0. \A u \in User, o \in Order : u \in User \cup Order /\ o \in User \cup Order
  OBVIOUS
<1>1. ASSUME NEW o \in Order, PlaceOrder(s, o)
      PROVE  LockDiscipline'
  <2> DEFINE x == [IdleTx EXCEPT !.pc = "placed", !.actor = OwnerOf[o], !.at = o,
                                 !.mine[o].status = "queued"]
  <2>1. /\ tx' = [tx EXCEPT ![s] = x] /\ order' = order /\ paid' = paid
        /\ Lock(s, {OwnerOf[o], o}) /\ order[o].status = "absent"
    BY <1>1 DEF PlaceOrder
  <2>2. /\ lock'[OwnerOf[o]] = s /\ lock'[o] = s
        /\ \A t \in Session, k \in User \cup Order : lock[k] = t => lock'[k] = t
    BY <2>1, LockTakes
  <2>3. /\ x.pc = "placed" /\ x.actor = OwnerOf[o] /\ x.at = o /\ x.pay = {}
        /\ x.work = {} /\ x.gone = {} /\ x.mine[o].status = "queued"
        /\ \A p \in Order : x.seen[p] = NoRow
        /\ \A p \in Order \ {o} : x.mine[p] = NoRow
    BY DEF IdleTx, NoRow
  <2>4. tx'[s] = x
    BY <2>1 DEF TypeOK
  <2> HIDE DEF x
  <2>5. Disciplined(s)'
    <3>1. HoldsActor(s)' /\ HoldsClaims(s)'
      BY <2>2, <2>3, <2>4 DEF HoldsActor, HoldsClaims
    <3>2. HoldsOrders(s)'
      <4>1. \A p \in Order : p = o \/ x.mine[p] = x.seen[p]
        BY <2>3
      <4> QED
        BY <2>2, <2>3, <2>4, <4>1, OrdersHeld DEF NoRow
    <3>3. WorksOn(s)'
      BY <2>1, <2>2, <2>3, <2>4 DEF WorksOn
    <3>4. CommissionOf(s)'
      BY <2>1, <2>3, <2>4 DEF LockDiscipline, Disciplined, CommissionOf
    <3> QED
      BY <3>1, <3>2, <3>3, <3>4 DEF Disciplined
  <2> QED
    BY <2>1, <2>2, <2>5, StepKeeps
<1>2. ASSUME NEW u \in User, NEW o \in Order, NEW B \in SUBSET BonusClaim,
             ClickLook(s, u, o, B)
      PROVE  LockDiscipline'
  <2> DEFINE x == [IdleTx EXCEPT !.pc = "looked", !.actor = u, !.at = o,
                                 !.seen[o] = order[o], !.mine[o] = order[o],
                                 !.pay = {<<"join", u, o>>} \cup B]
  <2>1. /\ tx' = [tx EXCEPT ![s] = x] /\ order' = order /\ paid' = paid
        /\ Lock(s, {u}) /\ paid[<<"join", u, o>>] = 0
        /\ \A c \in B : c \in BonusClaim /\ c[2] = u /\ paid[c] = 0
    BY <1>2 DEF ClickLook, DueBonus
  <2>2. /\ lock'[u] = s
        /\ \A t \in Session, k \in User \cup Order : lock[k] = t => lock'[k] = t
    BY <2>1, LockTakes
  <2>3. /\ x.pc = "looked" /\ x.actor = u /\ x.at = o /\ x.work = {} /\ x.gone = {}
        /\ x.pay = {<<"join", u, o>>} \cup B
        /\ \A p \in Order : x.seen[p] = x.mine[p]
    BY DEF IdleTx
  <2>4. tx'[s] = x
    BY <2>1 DEF TypeOK
  <2>5. \A c \in x.pay : c[1] # "commission"
    BY <2>1, <2>3 DEF BonusClaim
  <2> HIDE DEF x
  <2>6. Disciplined(s)'
    <3>1. HoldsActor(s)' /\ HoldsOrders(s)' /\ WorksOn(s)'
      <4>1. HoldsOrders(s)'
        BY <2>3, <2>4, OrdersHeld
      <4> QED
        BY <2>1, <2>2, <2>3, <2>4, <4>1 DEF HoldsActor, WorksOn
    <3>2. HoldsClaims(s)'
      BY <2>1, <2>2, <2>3, <2>4 DEF HoldsClaims
    <3>3. CommissionOf(s)'
      BY <2>1, <2>4, <2>5 DEF LockDiscipline, Disciplined, CommissionOf
    <3> QED
      BY <3>1, <3>2, <3>3 DEF Disciplined
  <2> QED
    BY <2>1, <2>2, <2>6, StepKeeps
<1>3. ASSUME NEW c \in Channel, NEW u \in User,
             NEW by \in {u} \cup {OwnerOf[o] : o \in Order}, LeftUpdate(s, c, u, by)
      PROVE  LockDiscipline'
  <2> DEFINE t == [[IdleTx EXCEPT !.actor = by]
                     EXCEPT !.pc = "loop", !.leaver = u, !.work = Covered(s, c)]
             x == Loads(s, t, Covered(s, c))
  <2>0. t \in Tx /\ by \in User
    <3>1. by \in User /\ Covered(s, c) \in SUBSET Order
      BY DEF Covered
    <3> QED
      BY <3>1, IdleType DEF Tx
  <2>1. /\ tx' = [tx EXCEPT ![s] = x] /\ order' = order /\ paid' = paid /\ Lock(s, {by})
    BY <1>3 DEF LeftUpdate, Handles
  <2>2. /\ lock'[by] = s
        /\ \A r \in Session, k \in User \cup Order : lock[k] = r => lock'[k] = r
    BY <2>0, <2>1, LockTakes
  <2>3. /\ x.pc = "loop" /\ x.actor = by /\ x.leaver = u /\ x.pay = {}
        /\ x.gone = {} /\ \A p \in Order : x.seen[p] = x.mine[p]
    BY <2>0 DEF Loads, IdleTx, Tx
  <2>4. tx'[s] = x
    BY <2>1 DEF TypeOK
  <2> HIDE DEF x
  <2>5. Disciplined(s)'
    <3>1. HoldsActor(s)' /\ HoldsClaims(s)' /\ HoldsOrders(s)' /\ WorksOn(s)'
      BY <2>2, <2>3, <2>4 DEF HoldsActor, HoldsClaims, HoldsOrders, Writes, WorksOn
    <3>2. CommissionOf(s)'
      BY <2>1, <2>3, <2>4 DEF LockDiscipline, Disciplined, CommissionOf
    <3> QED
      BY <3>1, <3>2 DEF Disciplined
  <2> QED
    BY <2>1, <2>2, <2>5, StepKeeps
<1>4. ASSUME RecheckStart(s)
      PROVE  LockDiscipline'
  <2> DEFINE live == {o \in Order : Guaranteed(order[o])}
             t == [IdleTx EXCEPT !.pc = "loop", !.rounds = live]
             x == Loads(s, t, live)
  <2>0. t \in Tx
    BY IdleType DEF Tx, IdleTx
  <2>1. /\ tx' = [tx EXCEPT ![s] = x] /\ order' = order /\ paid' = paid /\ lock' = lock
    BY <1>4 DEF RecheckStart
  <2>2. /\ x.pc = "loop" /\ x.actor = Nobody /\ x.work = {} /\ x.pay = {}
        /\ x.gone = {} /\ \A p \in Order : x.seen[p] = x.mine[p]
    BY <2>0 DEF Loads, IdleTx, Tx
  <2>3. tx'[s] = x
    BY <2>1 DEF TypeOK
  <2> HIDE DEF x
  <2>4. Disciplined(s)'
    <3>1. HoldsActor(s)' /\ HoldsClaims(s)' /\ HoldsOrders(s)' /\ WorksOn(s)'
      BY <2>2, <2>3 DEF HoldsActor, HoldsClaims, HoldsOrders, Writes, WorksOn
    <3>2. CommissionOf(s)'
      BY <2>1, <2>2, <2>3 DEF LockDiscipline, Disciplined, CommissionOf
    <3> QED
      BY <3>1, <3>2 DEF Disciplined
  <2> QED
    BY <2>1, <2>4, StepKeeps
<1> QED
  BY <1>1, <1>2, <1>3, <1>4 DEF Starts

LEMMA ProceedDiscipline ==
  ASSUME TypeOK, LockDiscipline, NEW s \in Session, Proceed(s), ~Commit(s)
  PROVE  LockDiscipline'
<1> USE ClaimType, OrderAssumption, NobodyAssumption
<1> DEFINE t == tx[s]
           o == t.at
           x == tx'[s]
<1>0. t \in Tx /\ Disciplined(s)
  BY DEF TypeOK, LockDiscipline
<1>d. /\ HoldsActor(s) /\ HoldsClaims(s) /\ HoldsOrders(s)
      /\ WorksOn(s) /\ CommissionOf(s)
  BY <1>0 DEF Disciplined
<1>1. ASSUME NEW C \in SUBSET CommissionClaim, PostOrder(s, C) \/ PostFails(s, C)
      PROVE  LockDiscipline'
  <2>1. /\ t.pc = "placed" /\ Commissioned(o, C) /\ order' = order /\ paid' = paid
        /\ Lock(s, {ReferrerOf[c[2]] : c \in C})
    BY <1>1 DEF PostOrder, PostFails
  <2>2. /\ o \in Order /\ t.actor = OwnerOf[o] /\ lock[o] = s
        /\ order[o].status = "absent" /\ t.seen[o] = NoRow /\ t.mine[o].status = "queued"
    BY <1>d, <2>1 DEF WorksOn
  <2>3. \A r \in Session, k \in User \cup Order : lock[k] = r => lock'[k] = r
    BY <2>1, LockTakes
  <2>4. lock'[OwnerOf[o]] = s /\ lock'[o] = s
    <3>1. lock[OwnerOf[o]] = s
      BY <1>d, <2>2 DEF HoldsActor
    <3> QED
      BY <2>2, <2>3, <3>1
  <2>5. C \subseteq {<<"commission", OwnerOf[o], o>>}
    BY <2>1 DEF Commissioned
  <2>6. /\ tx' = [tx EXCEPT ![s] = x]
        /\ x.pc = "done" /\ x.pay = C /\ x.actor = t.actor /\ x.seen = t.seen
        /\ x.work = t.work /\ x.leaver = t.leaver /\ x.gone = t.gone
        /\ x.mine[o].status \in {"queued", "in_progress"}
        /\ \A p \in Order \ {o} : x.mine[p] = t.mine[p]
    <3>0. [t.mine[o] EXCEPT !.status = "in_progress"].status = "in_progress"
      BY <1>0, <2>2 DEF Tx, Row
    <3>1. CASE PostOrder(s, C)
      BY <1>0, <2>2, <3>0, <3>1 DEF PostOrder, TypeOK, Tx
    <3>2. CASE PostFails(s, C)
      BY <1>0, <2>2, <3>2 DEF PostFails, TypeOK, Tx
    <3> QED
      BY <1>1, <3>1, <3>2
  <2> HIDE DEF x
  <2>7. Disciplined(s)'
    <3>1. HoldsActor(s)'
      BY <2>2, <2>4, <2>6 DEF HoldsActor, x
    <3>2. HoldsClaims(s)'
      <4>1. paid[<<"commission", OwnerOf[o], o>>] = 0
        BY <1>d, <2>2 DEF CommissionOf, TypeOK
      <4> QED
        BY <2>1, <2>4, <2>5, <2>6, <4>1 DEF HoldsClaims, x
    <3>3. HoldsOrders(s)'
      <4>1. \A p \in Order, u \in User : <<p, u>> \in x.gone => lock'[p] = s
        BY <1>d, <2>3, <2>6 DEF HoldsOrders, Writes
      <4>2. \A p \in Order : p # o => x.mine[p] = x.seen[p] \/ lock'[p] = s
        BY <1>d, <2>3, <2>6 DEF HoldsOrders, Writes
      <4>3. \A p \in Order : x.mine[p].status = "absent" => x.seen[p].status = "absent"
        BY <1>d, <2>6 DEF HoldsOrders
      <4> QED
        BY <2>4, <4>1, <4>2, <4>3, OrdersHeld DEF x
    <3>4. WorksOn(s)'
      BY <1>d, <2>6 DEF WorksOn, x
    <3>5. CommissionOf(s)'
      BY <1>d, <2>1, <2>2, <2>5, <2>6 DEF CommissionOf, NoRow, x
    <3> QED
      BY <3>1, <3>2, <3>3, <3>4, <3>5 DEF Disciplined
  <2> QED
    BY <2>1, <2>3, <2>6, <2>7, StepKeeps
<1>2. ASSUME NEW B \in SUBSET BonusClaim, ClickReferral(s, B)
      PROVE  LockDiscipline'
  <2> DEFINE u == t.actor
             r == <<"referral", u, ReferrerOf[u]>>
  <2>1. u \in User /\ o \in Order
    BY <1>2, <1>d DEF ClickReferral, WorksOn
  <2>2. /\ order' = order /\ paid' = paid /\ Lock(s, {ReferrerOf[u]})
        /\ ReferrerOf[u] \in User /\ paid[r] = 0
        /\ \A c \in B : c[2] = ReferrerOf[u] /\ paid[c] = 0
    BY <1>2, <2>1, ReferrerAssumption DEF ClickReferral, ReferralDue, DueBonus
  <2>3. /\ lock'[ReferrerOf[u]] = s
        /\ \A z \in Session, k \in User \cup Order : lock[k] = z => lock'[k] = z
    BY <2>2, LockTakes
  <2>4. /\ tx' = [tx EXCEPT ![s] = x]
        /\ x.pc = "referred" /\ x.pay = t.pay \cup {r} \cup B /\ x.actor = u
        /\ x.seen = t.seen /\ x.mine = t.mine /\ x.at = o /\ x.work = t.work
        /\ x.leaver = t.leaver /\ x.gone = t.gone
    BY <1>0, <1>2 DEF ClickReferral, TypeOK, Tx
  <2>5. r[1] # "commission" /\ \A c \in B : c[1] # "commission"
    BY DEF BonusClaim
  <2> HIDE DEF x
  <2>6. Disciplined(s)'
    <3>1. HoldsActor(s)'
      BY <1>d, <2>1, <2>3, <2>4 DEF HoldsActor, x
    <3>2. HoldsClaims(s)'
      <4> SUFFICES ASSUME NEW c \in x.pay
                   PROVE  lock'[c[2]] = s /\ paid[c] = 0
        BY <2>2 DEF HoldsClaims, x
      <4>1. CASE c \in t.pay
        <5>1. c[2] \in User /\ lock[c[2]] = s /\ paid[c] = 0
          BY <1>0, <1>d, <4>1 DEF HoldsClaims, Tx
        <5> QED
          BY <2>3, <5>1
      <4>2. CASE c = r
        <5>1. lock[u] = s
          BY <1>d, <2>1 DEF HoldsActor
        <5> QED
          BY <2>1, <2>2, <2>3, <4>2, <5>1
      <4>3. CASE c \in B
        BY <2>2, <2>3, <4>3
      <4> QED
        BY <2>4, <4>1, <4>2, <4>3
    <3>3. HoldsOrders(s)' /\ WorksOn(s)'
      BY <1>d, <2>1, <2>3, <2>4 DEF HoldsOrders, Writes, WorksOn, x
    <3>4. CommissionOf(s)'
      BY <1>d, <2>2, <2>4, <2>5 DEF CommissionOf, x
    <3> QED
      BY <3>1, <3>2, <3>3, <3>4 DEF Disciplined
  <2> QED
    BY <2>2, <2>3, <2>4, <2>6, StepKeeps
<1>3. ASSUME NEW B \in SUBSET BonusClaim, ClickComplete(s, B)
      PROVE  LockDiscipline'
  <2>1. o \in Order /\ t.actor \in User
    BY <1>3, <1>d DEF ClickComplete, WorksOn
  <2>2. /\ order' = order /\ paid' = paid /\ Lock(s, {o, OwnerOf[o]})
        /\ \A c \in B : c[2] = OwnerOf[o] /\ paid[c] = 0
    BY <1>3 DEF ClickComplete, DueBonus
  <2>3. /\ lock'[o] = s /\ lock'[OwnerOf[o]] = s
        /\ \A z \in Session, k \in User \cup Order : lock[k] = z => lock'[k] = z
    BY <2>1, <2>2, LockTakes
  <2>4. /\ tx' = [tx EXCEPT ![s] = x]
        /\ x.pc = "done" /\ x.pay = t.pay \cup B /\ x.actor = t.actor
        /\ x.seen = t.seen /\ x.mine[o].status = "completed"
        /\ \A p \in Order \ {o} : x.mine[p] = t.mine[p]
        /\ x.work = t.work /\ x.leaver = t.leaver /\ x.gone = t.gone
    BY <1>0, <1>3, <2>1 DEF ClickComplete, TypeOK, Tx
  <2>5. \A c \in B : c[1] # "commission"
    BY DEF BonusClaim
  <2> HIDE DEF x
  <2>6. Disciplined(s)'
    <3>1. HoldsActor(s)'
      BY <1>d, <2>1, <2>3, <2>4 DEF HoldsActor, x
    <3>2. HoldsClaims(s)'
      <4> SUFFICES ASSUME NEW c \in x.pay
                   PROVE  lock'[c[2]] = s /\ paid[c] = 0
        BY <2>2 DEF HoldsClaims, x
      <4>1. CASE c \in t.pay
        <5>1. c[2] \in User /\ lock[c[2]] = s /\ paid[c] = 0
          BY <1>0, <1>d, <4>1 DEF HoldsClaims, Tx
        <5> QED
          BY <2>3, <5>1
      <4>2. CASE c \in B
        BY <2>2, <2>3, <4>2
      <4> QED
        BY <2>4, <4>1, <4>2
    <3>3. HoldsOrders(s)'
      BY <1>d, <2>1, <2>3, <2>4 DEF HoldsOrders, Writes, x
    <3>4. WorksOn(s)'
      BY <1>d, <2>4 DEF WorksOn, x
    <3>5. CommissionOf(s)'
      BY <1>d, <2>1, <2>2, <2>4, <2>5 DEF CommissionOf, x
    <3> QED
      BY <3>1, <3>2, <3>3, <3>4, <3>5 DEF Disciplined
  <2> QED
    BY <2>2, <2>3, <2>4, <2>6, StepKeeps
<1>4. ASSUME ClickCount(s) \/ LeftMark(s)
      PROVE  LockDiscipline'
  <2>1. o \in Order /\ (t.pc = "mark" => t.leaver \in User)
    BY <1>4, <1>d DEF ClickCount, LeftMark, WorksOn
  <2>2. /\ order' = order /\ paid' = paid
        /\ Lock(s, {o}) \/ Lock(s, {o, t.leaver})
    BY <1>4 DEF ClickCount, LeftMark
  <2>3. /\ lock'[o] = s
        /\ \A z \in Session, k \in User \cup Order : lock[k] = z => lock'[k] = z
    <3>1. CASE Lock(s, {o})
      BY <2>1, <3>1, LockTakes
    <3>2. CASE Lock(s, {o, t.leaver})
      BY <2>1, <3>2, LockTakes
    <3> QED
      BY <2>2, <3>1, <3>2
  <2>4. /\ tx' = [tx EXCEPT ![s] = x]
        /\ x.pc \in {"done", "loop"} /\ x.pay = t.pay /\ x.actor = t.actor
        /\ x.seen = t.seen
        /\ x.mine[o].status = "absent" => t.mine[o].status = "absent"
        /\ \A p \in Order \ {o} : x.mine[p] = t.mine[p]
        /\ x.work = t.work /\ x.leaver = t.leaver
        /\ x.gone \subseteq t.gone \cup {<<o, t.leaver>>}
        /\ x.pc = "loop" => t.pc = "mark"
    <3>0. /\ [t.mine[o] EXCEPT !.progress = @ + 1].status = t.mine[o].status
          /\ Refilled(t.mine[o]).status = "refilling"
      BY <1>0, <2>1 DEF Tx, Row, Refilled
    <3>1. CASE ClickCount(s)
      BY <1>0, <2>1, <3>0, <3>1 DEF ClickCount, TypeOK, Tx
    <3>2. CASE LeftMark(s)
      BY <1>0, <2>1, <3>0, <3>2 DEF LeftMark, TypeOK, Tx
    <3> QED
      BY <1>4, <3>1, <3>2
  <2> HIDE DEF x
  <2>5. Disciplined(s)'
    <3>1. HoldsActor(s)'
      BY <1>0, <1>d, <2>3, <2>4 DEF HoldsActor, Tx, x
    <3>2. HoldsClaims(s)'
      BY <1>0, <1>d, <2>2, <2>3, <2>4 DEF HoldsClaims, Tx, x
    <3>3. HoldsOrders(s)'
      <4>1. \A p \in Order, u \in User : <<p, u>> \in x.gone => lock'[p] = s
        <5> SUFFICES ASSUME NEW p \in Order, NEW u \in User, <<p, u>> \in x.gone
                     PROVE  lock'[p] = s
          OBVIOUS
        <5>1. p = o \/ <<p, u>> \in t.gone
          BY <2>4
        <5> QED
          BY <1>d, <2>3, <5>1 DEF HoldsOrders, Writes
      <4>2. \A p \in Order : p # o => x.mine[p] = x.seen[p] \/ lock'[p] = s
        BY <1>d, <2>3, <2>4 DEF HoldsOrders, Writes
      <4>3. \A p \in Order : x.mine[p].status = "absent" => x.seen[p].status = "absent"
        BY <1>d, <2>4 DEF HoldsOrders
      <4> QED
        BY <2>3, <4>1, <4>2, <4>3, OrdersHeld DEF x
    <3>4. WorksOn(s)'
      BY <1>d, <2>4 DEF WorksOn, x
    <3>5. CommissionOf(s)'
      BY <1>d, <2>1, <2>2, <2>4 DEF CommissionOf, x
    <3> QED
      BY <3>1, <3>2, <3>3, <3>4, <3>5 DEF Disciplined
  <2> QED
    BY <2>2, <2>3, <2>4, <2>5, StepKeeps
\* The steps that take no lock and change neither claims nor rows.
<1>5. ASSUME order' = order, paid' = paid, lock' = lock, tx' = [tx EXCEPT ![s] = x],
             x.pay = t.pay, x.actor = t.actor, x.gone = t.gone,
             \A p \in Order : \/ x.seen[p] = t.seen[p] /\ x.mine[p] = t.mine[p]
                             \/ x.seen[p] = x.mine[p],
             x.pc # "placed",
             x.pc = "referred" => t.pc = "looked" /\ x.at = o,
             x.pc # "looked",
             x.pc = "mark" => x.at \in Order /\ x.leaver \in User,
             x.work # {} => x.leaver \in User,
             x.pc \in {"loop", "mark"} => t.pay = {},
             t.pay = {} \/ (x.seen = t.seen /\ x.mine = t.mine)
      PROVE  LockDiscipline'
  <2> HIDE DEF x
  <2>1. HoldsActor(s)' /\ HoldsClaims(s)'
    BY <1>5, <1>d DEF HoldsActor, HoldsClaims, x
  <2>2. HoldsOrders(s)'
    BY <1>5, <1>d DEF HoldsOrders, Writes, x
  <2>3. WorksOn(s)'
    BY <1>5, <1>d DEF WorksOn, x
  <2>4. CommissionOf(s)'
    BY <1>5, <1>d DEF CommissionOf, x
  <2> QED
    BY <1>5, <2>1, <2>2, <2>3, <2>4, StepKeeps DEF Disciplined
<1>6. ASSUME ClickNoReferral(s)
      PROVE  LockDiscipline'
  <2>1. /\ tx' = [tx EXCEPT ![s] = x] /\ x = [t EXCEPT !.pc = "referred"]
        /\ t.pc = "looked" /\ order' = order /\ paid' = paid /\ lock' = lock
    BY <1>6 DEF ClickNoReferral, TypeOK
  <2> QED
    BY <1>0, <1>5, <1>d, <2>1 DEF Tx, WorksOn
<1>7. ASSUME NEW p \in Order, LeftFound(s, p) \/ LeftSkip(s, p)
      PROVE  LockDiscipline'
  <2>1. /\ tx' = [tx EXCEPT ![s] = x]
        /\ \/ x = [t EXCEPT !.pc = "mark", !.at = p, !.work = @ \ {p}]
           \/ x = [t EXCEPT !.work = @ \ {p}]
        /\ t.pc = "loop" /\ p \in t.work
        /\ order' = order /\ paid' = paid /\ lock' = lock
    BY <1>0, <1>7 DEF LeftFound, LeftSkip, TypeOK, Tx
  <2>2. CASE x = [t EXCEPT !.pc = "mark", !.at = p, !.work = @ \ {p}]
    <3>1. /\ x.pc = "mark" /\ x.at = p /\ x.pay = t.pay /\ x.actor = t.actor
          /\ x.seen = t.seen /\ x.mine = t.mine /\ x.leaver = t.leaver /\ x.gone = t.gone
      BY <1>0, <2>2 DEF Tx
    <3> HIDE DEF x
    <3> QED
      BY <1>5, <1>d, <2>1, <3>1 DEF WorksOn
  <2>3. CASE x = [t EXCEPT !.work = @ \ {p}]
    <3>1. /\ x.pc = "loop" /\ x.pay = t.pay /\ x.actor = t.actor
          /\ x.seen = t.seen /\ x.mine = t.mine /\ x.leaver = t.leaver /\ x.gone = t.gone
      BY <1>0, <2>1, <2>3 DEF Tx
    <3> HIDE DEF x
    <3> QED
      BY <1>5, <1>d, <2>1, <3>1 DEF WorksOn
  <2> QED
    BY <2>1, <2>2, <2>3
<1>8. ASSUME NEW p \in Order, NEW T \in SUBSET User, RecheckOrder(s, p, T)
      PROVE  LockDiscipline'
  <2>1. /\ tx' = [tx EXCEPT ![s] = x]
        /\ x = [t EXCEPT !.at = p, !.rounds = @ \ {p}, !.checks = T,
                         !.checked = @ + Cardinality(T)]
        /\ t.pc = "loop" /\ order' = order /\ paid' = paid /\ lock' = lock
    BY <1>0, <1>8 DEF RecheckOrder, Between, TypeOK, Tx
  <2>2. /\ x.pc = "loop" /\ x.pay = t.pay /\ x.actor = t.actor /\ x.work = t.work
        /\ x.seen = t.seen /\ x.mine = t.mine /\ x.leaver = t.leaver /\ x.gone = t.gone
    BY <1>0, <2>1 DEF Tx
  <2> HIDE DEF x
  <2> QED
    BY <1>5, <1>d, <2>1, <2>2 DEF WorksOn
<1>9. ASSUME NEW u \in User, RecheckStays(s, u)
      PROVE  LockDiscipline'
  <2>1. /\ tx' = [tx EXCEPT ![s] = x] /\ x = [t EXCEPT !.checks = @ \ {u}]
        /\ t.pc = "loop" /\ order' = order /\ paid' = paid /\ lock' = lock
    BY <1>0, <1>9 DEF RecheckStays, Between, TypeOK, Tx
  <2> QED
    BY <1>0, <1>5, <1>d, <2>1 DEF Tx, WorksOn
<1>10. ASSUME NEW u \in User, RecheckGone(s, u)
      PROVE  LockDiscipline'
  <2> DEFINE c == ChannelOf[o]
             left == [[t EXCEPT !.checks = @ \ {u}]
                       EXCEPT !.pc = "loop", !.leaver = u, !.work = Covered(s, c)]
  <2>1. left \in Tx
    BY <1>0 DEF Tx, Covered
  <2>2. /\ tx' = [tx EXCEPT ![s] = x] /\ x = Loads(s, left, Covered(s, c))
        /\ t.pc = "loop" /\ order' = order /\ paid' = paid /\ lock' = lock
    BY <1>10 DEF RecheckGone, Between, Handles, TypeOK
  <2>3. /\ x.pc = "loop" /\ x.leaver = u /\ x.pay = t.pay /\ x.actor = t.actor
        /\ x.gone = t.gone
        /\ \A p \in Order : \/ x.seen[p] = t.seen[p] /\ x.mine[p] = t.mine[p]
                           \/ x.seen[p] = x.mine[p]
    <3>1. /\ left.pc = "loop" /\ left.leaver = u /\ left.pay = t.pay
          /\ left.actor = t.actor /\ left.seen = t.seen /\ left.mine = t.mine
          /\ left.gone = t.gone
      BY <1>0 DEF Tx
    <3> HIDE DEF left
    <3> QED
      BY <2>1, <2>2, <3>1 DEF Loads, Tx
  <2> HIDE DEF x
  <2> QED
    BY <1>5, <1>d, <2>2, <2>3 DEF WorksOn
<1> QED
  BY <1>1, <1>2, <1>3, <1>4, <1>6, <1>7, <1>8, <1>9, <1>10 DEF Proceed

\* A commit by s keeps the discipline of s, now idle, and of every other
\* session: what they hold, s has neither paid nor changed.
LEMMA CommitDiscipline ==
  ASSUME TypeOK, LockDiscipline, NEW s \in Session, Commit(s)
  PROVE  LockDiscipline'
<1> USE ClaimType, OrderAssumption, NobodyAssumption
<1>1. /\ \A o \in Order : order'[o] = View(s, o)
      /\ \A c \in Claim : paid'[c] = IF c \in tx[s].pay THEN paid[c] + 1 ELSE paid[c]
      /\ tx' = [tx EXCEPT ![s] = IdleTx]
      /\ \A k \in User \cup Order : lock'[k] = IF lock[k] = s THEN Nobody ELSE lock[k]
  BY DEF Commit, Ends
<1>2. Disciplined(s)
  BY DEF LockDiscipline
<1>v. \A o \in Order :
        order'[o].status = IF tx[s].mine[o].status = tx[s].seen[o].status
                           THEN order[o].status ELSE tx[s].mine[o].status
  <2> TAKE o \in Order
  <2>1. View(s, o).status = IF tx[s].mine[o].status = tx[s].seen[o].status
                            THEN order[o].status ELSE tx[s].mine[o].status
    BY DEF View, Merge
  <2> QED
    BY <1>1, <2>1
<1>3. \A o \in Order : order[o].status # "absent" => order'[o].status # "absent"
  BY <1>2, <1>v DEF Disciplined, HoldsOrders, Writes
\* An order whose commission has been paid is there.
<1>4. ASSUME NEW o \in Order, paid'[<<"commission", OwnerOf[o], o>>] > 0
      PROVE  order'[o].status # "absent"
  <2> DEFINE c == <<"commission", OwnerOf[o], o>>
  <2>1. c \in Claim /\ paid[c] \in Nat
    BY DEF TypeOK
  <2>2. CASE c \in tx[s].pay
    BY <1>2, <1>v, <2>2 DEF Disciplined, CommissionOf
  <2>3. CASE c \notin tx[s].pay
    BY <1>1, <1>2, <1>3, <1>4, <2>1, <2>3 DEF Disciplined, CommissionOf
  <2> QED
    BY <2>2, <2>3
<1>5. Disciplined(s)'
  <2>1. tx'[s] = IdleTx
    BY <1>1 DEF TypeOK
  <2> QED
    BY <1>4, <2>1 DEF Disciplined, HoldsActor, HoldsClaims, HoldsOrders, Writes, WorksOn,
                      CommissionOf, IdleTx
<1>6. ASSUME NEW t \in Session, t # s
      PROVE  Disciplined(t)'
  <2>1. /\ tx'[t] = tx[t] /\ tx[t] \in Tx /\ Disciplined(t) /\ t # Nobody
        /\ \A k \in User \cup Order : lock[k] = t => lock'[k] = t
    BY <1>1, <1>6 DEF TypeOK, LockDiscipline
  <2>2. HoldsActor(t)'
    BY <2>1 DEF Disciplined, HoldsActor, Tx
  <2>3. HoldsClaims(t)'
    <3> SUFFICES ASSUME NEW c \in tx[t].pay
                 PROVE  lock'[c[2]] = t /\ paid'[c] = 0
      BY <2>1 DEF HoldsClaims
    <3>1. c \in Claim /\ c[2] \in User /\ lock[c[2]] = t /\ paid[c] = 0
      BY <2>1 DEF Disciplined, HoldsClaims, Tx
    <3>2. c \notin tx[s].pay
      BY <1>2, <1>6, <3>1 DEF Disciplined, HoldsClaims
    <3> QED
      BY <1>1, <2>1, <3>1, <3>2
  <2>4. HoldsOrders(t)'
    BY <2>1 DEF Disciplined, HoldsOrders, Writes, Tx
  <2>5. WorksOn(t)'
    <3>1. ASSUME tx[t].pc = "placed"
          PROVE  order'[tx[t].at].status = "absent"
      <4> DEFINE o == tx[t].at
      <4>1. o \in Order /\ lock[o] = t /\ order[o].status = "absent"
        BY <2>1, <3>1 DEF Disciplined, WorksOn
      <4>2. tx[s].mine[o] = tx[s].seen[o]
        BY <1>2, <1>6, <4>1 DEF Disciplined, HoldsOrders, Writes
      <4> QED
        BY <1>v, <4>1, <4>2
    <3> QED
      BY <2>1, <3>1 DEF Disciplined, WorksOn
  <2>6. CommissionOf(t)'
    BY <1>4, <2>1 DEF Disciplined, CommissionOf
  <2> QED
    BY <2>2, <2>3, <2>4, <2>5, <2>6 DEF Disciplined
<1> QED
  BY <1>5, <1>6 DEF LockDiscipline

LEMMA AbortDiscipline ==
  ASSUME TypeOK, LockDiscipline, NEW s \in Session, Abort(s)
  PROVE  LockDiscipline'
<1> USE ClaimType, OrderAssumption, NobodyAssumption
<1>1. /\ order' = order /\ paid' = paid /\ tx' = [tx EXCEPT ![s] = IdleTx]
      /\ \A k \in User \cup Order : lock'[k] = IF lock[k] = s THEN Nobody ELSE lock[k]
  BY DEF Abort, Ends
<1>2. Disciplined(s)'
  <2>1. tx'[s] = IdleTx
    BY <1>1 DEF TypeOK
  <2>2. HoldsOrders(s)'
    <3>1. IdleTx.gone = {} /\ IdleTx.mine = IdleTx.seen
      BY DEF IdleTx
    <3> QED
      BY <2>1, <3>1, OrdersHeld
  <2> QED
    BY <1>1, <2>1, <2>2 DEF LockDiscipline, Disciplined, HoldsActor, HoldsClaims,
                            WorksOn, CommissionOf, IdleTx
<1>3. ASSUME NEW t \in Session, t # s
      PROVE  Disciplined(t)'
  <2>1. /\ tx'[t] = tx[t]
        /\ \A k \in User \cup Order : lock[k] = t => lock'[k] = t
    BY <1>1, <1>3 DEF TypeOK
  <2> QED
    BY <1>1, <2>1, OthersKeep DEF LockDiscipline
<1> QED
  BY <1>2, <1>3 DEF LockDiscipline

LEMMA EnvironmentDiscipline ==
  ASSUME TypeOK, LockDiscipline, Environment \/ UNCHANGED vars
  PROVE  LockDiscipline'
<1>1. ASSUME NEW o \in Order, GuaranteeEnds(o)
      PROVE  LockDiscipline'
  <2>1. /\ paid' = paid /\ lock' = lock /\ tx' = tx
        /\ \A p \in Order : order'[p].status = order[p].status
    BY <1>1 DEF GuaranteeEnds, TypeOK, Row
  <2> SUFFICES ASSUME NEW t \in Session
               PROVE  Disciplined(t)'
    BY DEF LockDiscipline
  <2>2. HoldsActor(t)' /\ HoldsClaims(t)' /\ HoldsOrders(t)'
    BY <2>1 DEF LockDiscipline, Disciplined, HoldsActor, HoldsClaims, HoldsOrders, Writes
  <2>3. WorksOn(t)' /\ CommissionOf(t)'
    BY <2>1 DEF LockDiscipline, Disciplined, WorksOn, CommissionOf
  <2> QED
    BY <2>2, <2>3 DEF Disciplined
<1>2. ASSUME order' = order, paid' = paid, lock' = lock, tx' = tx
      PROVE  LockDiscipline'
  BY <1>2, OthersKeep DEF LockDiscipline
<1>3. ASSUME NEW c \in Channel, NEW u \in User,
             JoinChannel(c, u) \/ LeaveChannel(c, u) \/ RestrictMember(c, u)
      PROVE  LockDiscipline'
  BY <1>2, <1>3 DEF JoinChannel, LeaveChannel, RestrictMember
<1>4. ASSUME DropPendingUpdates \/ UNCHANGED vars
      PROVE  LockDiscipline'
  BY <1>2, <1>4 DEF DropPendingUpdates, vars
<1> QED
  BY <1>1, <1>3, <1>4 DEF Environment

(***************************************************************************)
(* The theorems                                                            *)
(***************************************************************************)
LEMMA Inductive == Spec => [](TypeOK /\ LockDiscipline)
<1>1. TypeOK /\ LockDiscipline /\ [Next]_vars => (TypeOK /\ LockDiscipline)'
  <2> SUFFICES ASSUME TypeOK, LockDiscipline, [Next]_vars
               PROVE  TypeOK' /\ LockDiscipline'
    OBVIOUS
  <2>1. LockDiscipline'
    BY StartsDiscipline, ProceedDiscipline, CommitDiscipline, AbortDiscipline,
       EnvironmentDiscipline DEF Next, Step
  <2> QED
    BY <2>1, TypeNext
<1> QED
  BY <1>1, TypeInit, PTL DEF Spec

\* The rows, the posts and the sessions of Orders keep their types, for any
\* users, orders, sessions and settings.
THEOREM TypeCorrect == Spec => []TypeOK
BY Inductive, PTL

\* Every session holds the row of whoever it acts for or is about to pay, and
\* the rows of the orders it has changed (UserMiddleware, flush).
THEOREM Discipline == Spec => []LockDiscipline
BY Inductive, PTL

\* Only a commit pays, and what it pays nobody was paid for.
LEMMA PayStep ==
  ASSUME TypeOK, LockDiscipline, [Next]_vars
  PROVE  [Payout!Next]_paid
<1>1. ASSUME NEW s \in Session, Commit(s)
      PROVE  Payout!Next
  <2>1. tx[s].pay \in SUBSET Claim /\ \A c \in tx[s].pay : paid[c] = 0
    BY DEF TypeOK, Tx, LockDiscipline, Disciplined, HoldsClaims
  <2>2. paid' = [c \in Claim |-> IF c \in tx[s].pay THEN 1 ELSE paid[c]]
    BY <1>1, <2>1 DEF Commit
  <2> QED
    BY <2>1, <2>2 DEF Payout!Next, Payout!Pay
<1>2. ASSUME NEW s \in Session, Starts(s) \/ Abort(s)
      PROVE  UNCHANGED paid
  BY <1>2 DEF Starts, PlaceOrder, ClickLook, LeftUpdate, RecheckStart, Abort
<1>3. ASSUME NEW s \in Session, Proceed(s), ~Commit(s)
      PROVE  UNCHANGED paid
  BY <1>3 DEF Proceed, PostOrder, PostFails, ClickReferral, ClickComplete,
              ClickNoReferral, ClickCount, LeftFound, LeftSkip, LeftMark,
              RecheckOrder, RecheckStays, RecheckGone
<1>4. ASSUME Environment
      PROVE  UNCHANGED paid
  BY <1>4 DEF Environment, JoinChannel, LeaveChannel, RestrictMember,
              DropPendingUpdates, GuaranteeEnds
<1>5. CASE UNCHANGED vars
  BY <1>5 DEF vars
<1> QED
  BY <1>1, <1>2, <1>3, <1>4, <1>5 DEF Next, Step

\* Orders implements Payouts: whatever the interleaving, the crashes and the
\* calls that fail, a step pays a set of claims nobody was paid for, or none.
THEOREM OrdersImplementPayouts == Spec => PayoutSpec
<1>1. Init => Payout!Init
  BY DEF Init, Payout!Init
<1>2. TypeOK /\ LockDiscipline /\ [Next]_vars => [Payout!Next]_paid
  BY PayStep
<1> QED
  BY <1>1, <1>2, Inductive, PTL DEF Spec, PayoutSpec, Payout!Spec

\* No reward is paid twice: joins, commissions, referrals, achievements and the
\* missions of one day.
THEOREM NeverPaidTwice == Spec => []PaidOnce
<1>1. Init => PaidOnce
  BY DEF Init, PaidOnce
<1>2. TypeOK /\ PaidOnce /\ [Payout!Next]_paid => PaidOnce'
  BY DEF TypeOK, PaidOnce, Payout!Next, Payout!Pay
<1>3. TypeOK /\ LockDiscipline /\ [Next]_vars => [Payout!Next]_paid
  BY PayStep
<1> QED
  BY <1>1, <1>2, <1>3, Inductive, PTL DEF Spec

(***************************************************************************)
(* Why a leave is charged and a referral is paid: what the sessions know   *)
(* of joins and leaves that others have committed                          *)
(***************************************************************************)
\* Who was in the channel c at some time, and who is not counted as there.
WasIn(c, u) == u \in member[c] \/ <<c, u>> \in quit

Gone(c, u) == c \in Group \/ <<c, u>> \in quit

\* Whoever a session looks for or marks has taken the reward and has left.
Leaving(t) ==
  /\ \A o \in t.work : Gone(ChannelOf[o], t.leaver)
  /\ t.pc = "mark" =>
       paid[<<"join", t.leaver, t.at>>] > 0 /\ Gone(ChannelOf[t.at], t.leaver)
  /\ \A p \in t.gone : paid[<<"join", p[2], p[1]>>] > 0 /\ Gone(ChannelOf[p[1]], p[2])
  /\ \A u \in t.checks : t.at \in Order /\ WasIn(ChannelOf[t.at], u)
  /\ t.checks # {} => \A o \in t.work : ChannelOf[o] = ChannelOf[t.at]

\* A session that pays a referral pays the join that earns it as well.
Earning(t) ==
  /\ t.pc = "looked" => <<"join", t.actor, t.at>> \in t.pay
  /\ \A u \in User, o \in Order : <<"join", u, o>> \in t.pay => WasIn(ChannelOf[o], u)
  /\ \A u \in User : <<"referral", u, ReferrerOf[u]>> \in t.pay =>
       /\ \E o \in Order : <<"join", u, o>> \in t.pay
       /\ Cardinality(JoinsOf(u)) + 1 >= MinJoins

\* What Telegram has seen.
Seen ==
  /\ events \subseteq quit
  /\ \A c \in Channel, u \in User : <<c, u>> \in restricted => c \in Group
  /\ \A u \in User, o \in Order : paid[<<"join", u, o>>] > 0 => WasIn(ChannelOf[o], u)

Past(s) == Leaving(tx[s]) /\ Earning(tx[s])

History == Seen /\ ChargedLeft /\ ReferralEarned /\ \A s \in Session : Past(s)

\* A query changes what a session has loaded, and nothing else of it.
LEMMA LoadsKeeps ==
  ASSUME NEW s \in Session, NEW t \in Tx, NEW S
  PROVE  LET x == Loads(s, t, S)
         IN  /\ x.pc = t.pc /\ x.actor = t.actor /\ x.at = t.at /\ x.leaver = t.leaver
             /\ x.pay = t.pay /\ x.gone = t.gone /\ x.work = t.work /\ x.checks = t.checks
             /\ x.rounds = t.rounds
BY DEF Loads, Tx

\* Joins are not taken back.
LEMMA JoinsGrow ==
  ASSUME TypeOK, TypeOK', NEW u \in User, \A c \in Claim : paid[c] <= paid'[c]
  PROVE  /\ JoinsOf(u) \subseteq JoinsOf(u)' /\ IsFiniteSet(JoinsOf(u)')
         /\ Cardinality(JoinsOf(u)) \in Nat /\ Cardinality(JoinsOf(u)') \in Nat
         /\ Cardinality(JoinsOf(u)) <= Cardinality(JoinsOf(u)')
<1>1. JoinsOf(u) \subseteq JoinsOf(u)'
  <2> SUFFICES ASSUME NEW o \in Order, paid[<<"join", u, o>>] > 0
               PROVE  paid'[<<"join", u, o>>] > 0
    BY DEF JoinsOf
  <2> QED
    BY ClaimType DEF TypeOK
<1>2. IsFiniteSet(JoinsOf(u)')
  <2>1. JoinsOf(u)' \subseteq Order
    BY DEF JoinsOf
  <2> QED
    BY <2>1, FiniteAssumption, FS_Subset
<1> QED
  BY <1>1, <1>2, FS_Subset, FS_CardinalityType

\* What is known of a session that a step leaves alone.
LEMMA PastKept ==
  ASSUME TypeOK, TypeOK', LockDiscipline, NEW t \in Session, Past(t),
         tx'[t] = tx[t], \A c \in Claim : paid[c] <= paid'[c],
         \A c \in Channel, u \in User : /\ WasIn(c, u) => WasIn(c, u)'
                                        /\ Gone(c, u) => Gone(c, u)'
  PROVE  Past(t)'
<1> USE ClaimType, OrderAssumption
<1>0. tx[t] \in Tx /\ WorksOn(t) /\ Leaving(tx[t]) /\ Earning(tx[t])
  BY DEF TypeOK, LockDiscipline, Disciplined, Past
<1>1. \A u \in User, o \in Order :
        paid[<<"join", u, o>>] > 0 => paid'[<<"join", u, o>>] > 0
  BY DEF TypeOK
<1>2. Leaving(tx[t])'
  <2>1. \A o \in tx[t].work : Gone(ChannelOf[o], tx[t].leaver)'
    BY <1>0 DEF Leaving, WorksOn, Tx
  <2>2. tx[t].pc = "mark" => /\ paid'[<<"join", tx[t].leaver, tx[t].at>>] > 0
                             /\ Gone(ChannelOf[tx[t].at], tx[t].leaver)'
    BY <1>0, <1>1 DEF Leaving, WorksOn
  <2>3. \A p \in tx[t].gone : paid'[<<"join", p[2], p[1]>>] > 0 /\ Gone(ChannelOf[p[1]], p[2])'
    <3> TAKE p \in tx[t].gone
    <3>1. p[1] \in Order /\ p[2] \in User
      BY <1>0 DEF Tx
    <3> QED
      BY <1>0, <1>1, <3>1 DEF Leaving
  <2>4. \A u \in tx[t].checks : tx[t].at \in Order /\ WasIn(ChannelOf[tx[t].at], u)'
    BY <1>0 DEF Leaving, Tx
  <2> QED
    BY <1>0, <2>1, <2>2, <2>3, <2>4 DEF Leaving
<1>3. Earning(tx[t])'
  <2>1. \A u \in User, o \in Order : <<"join", u, o>> \in tx[t].pay => WasIn(ChannelOf[o], u)'
    BY <1>0 DEF Earning
  <2>2. ASSUME NEW u \in User, <<"referral", u, ReferrerOf[u]>> \in tx[t].pay
        PROVE  Cardinality(JoinsOf(u)') + 1 >= MinJoins
    BY <1>0, <2>2, JoinsGrow, BoundAssumption DEF Earning
  <2> QED
    BY <1>0, <2>1, <2>2 DEF Earning
<1> QED
  BY <1>2, <1>3 DEF Past

\* A step that brings s into the state x and pays and charges nobody has to
\* establish what is known of s.
LEMMA PastStep ==
  ASSUME TypeOK, TypeOK', LockDiscipline, History, NEW s \in Session, NEW x,
         tx' = [tx EXCEPT ![s] = x], UNCHANGED <<paid, charged, member, restricted, quit>>,
         events' \subseteq events, Leaving(x), Earning(x)
  PROVE  History'
<1>1. Seen' /\ ChargedLeft' /\ ReferralEarned'
  BY DEF History, Seen, ChargedLeft, ReferralEarned, WasIn, JoinsOf
<1>2. ASSUME NEW t \in Session, t # s
      PROVE  Past(t)'
  <2>1. tx'[t] = tx[t]
    BY <1>2 DEF TypeOK
  <2>2. \A c \in Claim : paid[c] <= paid'[c]
    BY DEF TypeOK
  <2>3. \A c \in Channel, u \in User : /\ WasIn(c, u) => WasIn(c, u)'
                                       /\ Gone(c, u) => Gone(c, u)'
    BY DEF WasIn, Gone
  <2> QED
    BY <2>1, <2>2, <2>3, PastKept DEF History
<1>3. Past(s)'
  <2>1. tx'[s] = x
    BY DEF TypeOK
  <2> QED
    BY <2>1 DEF Past, Leaving, Earning, WasIn, Gone, JoinsOf
<1> QED
  BY <1>1, <1>2, <1>3 DEF History

LEMMA StartsHistory ==
  ASSUME TypeOK, TypeOK', LockDiscipline, History, NEW s \in Session, Starts(s)
  PROVE  History'
<1> USE ClaimType, OrderAssumption, IdleType
<1>1. ASSUME NEW o \in Order, PlaceOrder(s, o)
      PROVE  History'
  <2> DEFINE x == [IdleTx EXCEPT !.pc = "placed", !.actor = OwnerOf[o], !.at = o,
                                 !.mine[o].status = "queued"]
  <2>1. /\ tx' = [tx EXCEPT ![s] = x] /\ UNCHANGED <<paid, charged, telegram>>
    BY <1>1 DEF PlaceOrder
  <2>2. /\ x.pc = "placed" /\ x.pay = {} /\ x.gone = {} /\ x.work = {} /\ x.checks = {}
    BY DEF IdleTx
  <2> HIDE DEF x
  <2>4. Leaving(x) /\ Earning(x)
    BY <2>2 DEF Leaving, Earning
  <2> QED
    BY <2>1, <2>4, PastStep DEF telegram
<1>2. ASSUME NEW u \in User, NEW o \in Order, NEW B \in SUBSET BonusClaim,
             ClickLook(s, u, o, B)
      PROVE  History'
  <2> DEFINE x == [IdleTx EXCEPT !.pc = "looked", !.actor = u, !.at = o,
                                 !.seen[o] = order[o], !.mine[o] = order[o],
                                 !.pay = {<<"join", u, o>>} \cup B]
  <2>1. /\ tx' = [tx EXCEPT ![s] = x] /\ UNCHANGED <<paid, charged, telegram>>
        /\ u \in member[ChannelOf[o]]
    BY <1>2 DEF ClickLook
  <2>2. /\ x.pc = "looked" /\ x.actor = u /\ x.at = o /\ x.pay = {<<"join", u, o>>} \cup B
        /\ x.gone = {} /\ x.work = {} /\ x.checks = {}
    BY DEF IdleTx
  <2> HIDE DEF x
  <2>4. \A c \in B : c[1] = "bonus"
    BY DEF BonusClaim
  <2>5. Leaving(x)
    BY <2>2 DEF Leaving
  <2>6. Earning(x)
    <3>1. \A v \in User, p \in Order : <<"join", v, p>> \in x.pay => v = u /\ p = o
      BY <2>2, <2>4
    <3>2. \A v \in User : <<"referral", v, ReferrerOf[v]>> \notin x.pay
      BY <2>2, <2>4
    <3> QED
      BY <2>1, <2>2, <3>1, <3>2 DEF Earning, WasIn
  <2> QED
    BY <2>1, <2>5, <2>6, PastStep DEF telegram
<1>3. ASSUME NEW c \in Channel, NEW u \in User,
             NEW by \in {u} \cup {OwnerOf[o] : o \in Order}, LeftUpdate(s, c, u, by)
      PROVE  History'
  <2> DEFINE t == [[IdleTx EXCEPT !.actor = by]
                     EXCEPT !.pc = "loop", !.leaver = u, !.work = Covered(s, c)]
             x == Loads(s, t, Covered(s, c))
  <2>0. t \in Tx
    <3>1. by \in User /\ Covered(s, c) \in SUBSET Order
      BY DEF Covered
    <3> QED
      BY <3>1 DEF Tx
  <2>1. /\ tx' = [tx EXCEPT ![s] = x] /\ UNCHANGED <<paid, charged, member, restricted, quit>>
        /\ <<c, u>> \in events /\ events' \subseteq events
    BY <1>3 DEF LeftUpdate, Handles
  <2>2. /\ x.pc = "loop" /\ x.leaver = u /\ x.pay = {} /\ x.work = Covered(s, c)
        /\ x.gone = {} /\ x.checks = {}
    <3>1. /\ t.pc = "loop" /\ t.leaver = u /\ t.pay = {} /\ t.work = Covered(s, c)
          /\ t.gone = {} /\ t.checks = {}
      BY DEF IdleTx
    <3> HIDE DEF t
    <3> QED
      BY <2>0, <3>1, LoadsKeeps
  <2> HIDE DEF x
  <2>4. Earning(x)
    BY <2>2 DEF Earning
  <2>5. Leaving(x)
    <3>1. Gone(c, u)
      BY <2>1 DEF History, Seen, Gone
    <3> QED
      BY <2>2, <3>1 DEF Leaving, Covered
  <2> QED
    BY <2>1, <2>4, <2>5, PastStep
<1>4. ASSUME RecheckStart(s)
      PROVE  History'
  <2> DEFINE live == {o \in Order : Guaranteed(order[o])}
             t == [IdleTx EXCEPT !.pc = "loop", !.rounds = live]
             x == Loads(s, t, live)
  <2>0. t \in Tx
    BY DEF Tx, IdleTx
  <2>1. /\ tx' = [tx EXCEPT ![s] = x] /\ UNCHANGED <<paid, charged, telegram>>
    BY <1>4 DEF RecheckStart
  <2>2. /\ x.pc = "loop" /\ x.pay = {} /\ x.work = {} /\ x.gone = {} /\ x.checks = {}
    <3>1. /\ t.pc = "loop" /\ t.pay = {} /\ t.work = {} /\ t.gone = {} /\ t.checks = {}
      BY DEF IdleTx
    <3> HIDE DEF t
    <3> QED
      BY <2>0, <3>1, LoadsKeeps
  <2> HIDE DEF x
  <2>4. Leaving(x) /\ Earning(x)
    BY <2>2 DEF Leaving, Earning
  <2> QED
    BY <2>1, <2>4, PastStep DEF telegram
<1> QED
  BY <1>1, <1>2, <1>3, <1>4 DEF Starts

\* The steps of an order and of a click.
LEMMA ClickHistory ==
  ASSUME TypeOK, TypeOK', LockDiscipline, History, NEW s \in Session, NEW x,
         tx' = [tx EXCEPT ![s] = x], UNCHANGED <<paid, charged, telegram>>,
         x.pc \in {"referred", "done"},
         x.gone = tx[s].gone, x.work = tx[s].work, x.checks = tx[s].checks,
         x.at = tx[s].at, x.leaver = tx[s].leaver,
         \A c \in x.pay \ tx[s].pay : c[1] # "join",
         tx[s].pay \subseteq x.pay \/ \A u \in User : <<"referral", u, ReferrerOf[u]>> \notin x.pay,
         \A u \in User : <<"referral", u, ReferrerOf[u]>> \in x.pay \ tx[s].pay
           => tx[s].pc = "looked" /\ u = tx[s].actor /\ ReferralDue(u)
  PROVE  History'
<1>0. WorksOn(s) /\ Leaving(tx[s]) /\ Earning(tx[s])
  BY DEF LockDiscipline, Disciplined, History, Past
<1>1. Leaving(x)
  BY <1>0 DEF Leaving
<1>2. Earning(x)
  <2>1. ASSUME NEW u \in User, NEW p \in Order, <<"join", u, p>> \in x.pay
        PROVE  WasIn(ChannelOf[p], u)
    BY <1>0, <2>1 DEF Earning
  <2>2. ASSUME NEW u \in User, <<"referral", u, ReferrerOf[u]>> \in x.pay
        PROVE  /\ \E p \in Order : <<"join", u, p>> \in x.pay
               /\ Cardinality(JoinsOf(u)) + 1 >= MinJoins
    <3>1. tx[s].pay \subseteq x.pay
      BY <2>2
    <3>2. CASE <<"referral", u, ReferrerOf[u]>> \in tx[s].pay
      BY <1>0, <3>1, <3>2 DEF Earning
    <3>3. CASE <<"referral", u, ReferrerOf[u]>> \notin tx[s].pay
      <4>1. tx[s].pc = "looked" /\ u = tx[s].actor /\ ReferralDue(u)
        BY <2>2, <3>3
      <4>2. tx[s].at \in Order /\ <<"join", u, tx[s].at>> \in tx[s].pay
        BY <1>0, <4>1 DEF Earning, WorksOn
      <4> QED
        BY <3>1, <4>1, <4>2 DEF ReferralDue
    <3> QED
      BY <3>2, <3>3
  <2> QED
    BY <2>1, <2>2 DEF Earning
<1> QED
  BY <1>1, <1>2, PastStep DEF telegram

LEMMA ProceedHistory ==
  ASSUME TypeOK, TypeOK', LockDiscipline, History, NEW s \in Session, Proceed(s), ~Commit(s)
  PROVE  History'
<1> USE ClaimType, OrderAssumption
<1> DEFINE t == tx[s]
           o == t.at
<1>0. t \in Tx /\ WorksOn(s) /\ Leaving(t) /\ Earning(t)
  BY DEF TypeOK, LockDiscipline, Disciplined, History, Past
<1>x. tx \in [Session -> Tx]
  BY DEF TypeOK
<1>1. ASSUME NEW C \in SUBSET CommissionClaim, PostOrder(s, C)
      PROVE  History'
  <2> DEFINE x == [t EXCEPT !.pc = "done", !.pay = C, !.mine[o].status = "in_progress"]
  <2>0. UNCHANGED <<paid, charged, telegram>>
    BY <1>1 DEF PostOrder
  <2>1. tx' = [tx EXCEPT ![s] = x]
    BY <1>0, <1>x, <1>1 DEF PostOrder, Tx
  <2>2. /\ x.pc = "done" /\ x.pay = C /\ x.gone = t.gone /\ x.work = t.work
        /\ x.checks = t.checks /\ x.at = t.at /\ x.leaver = t.leaver
    BY <1>0 DEF Tx
  <2>3. \A c \in C : c[1] # "join" /\ c[1] # "referral"
    BY DEF CommissionClaim
  <2> HIDE DEF x
  <2>4. \A c \in x.pay : c[1] # "join" /\ c[1] # "referral"
    BY <2>2, <2>3
  <2>5. \A u \in User : <<"referral", u, ReferrerOf[u]>> \notin x.pay
    BY <2>4
  <2> QED
    BY <2>0, <2>1, <2>2, <2>4, <2>5, ClickHistory
<1>2. ASSUME NEW C \in SUBSET CommissionClaim, PostFails(s, C)
      PROVE  History'
  <2> DEFINE x == [t EXCEPT !.pc = "done", !.pay = C]
  <2>0. UNCHANGED <<paid, charged, telegram>>
    BY <1>2 DEF PostFails
  <2>1. tx' = [tx EXCEPT ![s] = x]
    BY <1>0, <1>x, <1>2 DEF PostFails, Tx
  <2>2. /\ x.pc = "done" /\ x.pay = C /\ x.gone = t.gone /\ x.work = t.work
        /\ x.checks = t.checks /\ x.at = t.at /\ x.leaver = t.leaver
    BY <1>0 DEF Tx
  <2>3. \A c \in C : c[1] # "join" /\ c[1] # "referral"
    BY DEF CommissionClaim
  <2> HIDE DEF x
  <2>4. \A c \in x.pay : c[1] # "join" /\ c[1] # "referral"
    BY <2>2, <2>3
  <2>5. \A u \in User : <<"referral", u, ReferrerOf[u]>> \notin x.pay
    BY <2>4
  <2> QED
    BY <2>0, <2>1, <2>2, <2>4, <2>5, ClickHistory
<1>3. ASSUME NEW B \in SUBSET BonusClaim, ClickReferral(s, B)
      PROVE  History'
  <2> DEFINE r == <<"referral", t.actor, ReferrerOf[t.actor]>>
             x == [t EXCEPT !.pc = "referred", !.pay = @ \cup {r} \cup B]
  <2>0. /\ UNCHANGED <<paid, charged, telegram>>
        /\ t.pc = "looked" /\ ReferralDue(t.actor)
    BY <1>3 DEF ClickReferral
  <2>1. tx' = [tx EXCEPT ![s] = x]
    BY <1>0, <1>x, <1>3 DEF ClickReferral, Tx
  <2>2. /\ x.pc = "referred" /\ x.pay = t.pay \cup {r} \cup B /\ x.gone = t.gone
        /\ x.work = t.work /\ x.checks = t.checks /\ x.at = t.at /\ x.leaver = t.leaver
    BY <1>0 DEF Tx
  <2>3. r[1] # "join" /\ r[2] = t.actor /\ \A c \in B : c[1] # "join" /\ c[1] # "referral"
    BY DEF BonusClaim
  <2> HIDE DEF x, r
  <2>4. \A c \in x.pay \ t.pay : c[1] # "join"
    BY <2>2, <2>3
  <2>5. \A c \in x.pay \ t.pay : c[1] = "referral" => c[2] = t.actor
    BY <2>2, <2>3
  <2>6. \A u \in User : <<"referral", u, ReferrerOf[u]>> \in x.pay \ t.pay => u = t.actor
    BY <2>5
  <2> QED
    BY <2>0, <2>1, <2>2, <2>4, <2>6, ClickHistory
<1>4. ASSUME NEW B \in SUBSET BonusClaim, ClickComplete(s, B)
      PROVE  History'
  <2> DEFINE full == [status |-> "completed", progress |-> t.mine[o].progress + 1,
                      guarantee |-> "live"]
             x == [t EXCEPT !.pc = "done", !.pay = @ \cup B, !.mine[o] = full]
  <2>0. UNCHANGED <<paid, charged, telegram>>
    BY <1>4 DEF ClickComplete
  <2>1. tx' = [tx EXCEPT ![s] = x]
    BY <1>0, <1>x, <1>4 DEF ClickComplete, Tx
  <2>2. /\ x.pc = "done" /\ x.pay = t.pay \cup B /\ x.gone = t.gone /\ x.work = t.work
        /\ x.checks = t.checks /\ x.at = t.at /\ x.leaver = t.leaver
    BY <1>0 DEF Tx
  <2>3. \A c \in B : c[1] # "join" /\ c[1] # "referral"
    BY DEF BonusClaim
  <2> HIDE DEF x
  <2>4. \A c \in x.pay \ t.pay : c[1] # "join" /\ c[1] # "referral"
    BY <2>2, <2>3
  <2>5. \A u \in User : <<"referral", u, ReferrerOf[u]>> \notin x.pay \ t.pay
    BY <2>4
  <2> QED
    BY <2>0, <2>1, <2>2, <2>4, <2>5, ClickHistory
<1>5. ASSUME ClickNoReferral(s)
      PROVE  History'
  <2> DEFINE x == [t EXCEPT !.pc = "referred"]
  <2>0. UNCHANGED <<paid, charged, telegram>>
    BY <1>5 DEF ClickNoReferral
  <2>1. tx' = [tx EXCEPT ![s] = x]
    BY <1>0, <1>x, <1>5 DEF ClickNoReferral, Tx
  <2>2. /\ x.pc = "referred" /\ x.pay = t.pay /\ x.gone = t.gone /\ x.work = t.work
        /\ x.checks = t.checks /\ x.at = t.at /\ x.leaver = t.leaver
    BY <1>0 DEF Tx
  <2> HIDE DEF x
  <2> QED
    BY <2>0, <2>1, <2>2, ClickHistory
<1>6. ASSUME ClickCount(s)
      PROVE  History'
  <2> DEFINE x == [t EXCEPT !.pc = "done", !.mine[o].progress = @ + 1]
  <2>0. UNCHANGED <<paid, charged, telegram>>
    BY <1>6 DEF ClickCount
  <2>1. tx' = [tx EXCEPT ![s] = x]
    BY <1>0, <1>x, <1>6 DEF ClickCount, Tx
  <2>2. /\ x.pc = "done" /\ x.pay = t.pay /\ x.gone = t.gone /\ x.work = t.work
        /\ x.checks = t.checks /\ x.at = t.at /\ x.leaver = t.leaver
    BY <1>0 DEF Tx
  <2> HIDE DEF x
  <2> QED
    BY <2>0, <2>1, <2>2, ClickHistory
\* The steps of a leave and of a recheck: nothing is to be paid.
<1>7. ASSUME NEW x, tx' = [tx EXCEPT ![s] = x], UNCHANGED <<paid, charged, telegram>>,
             x.pc \in {"loop", "mark"}, x.pay = t.pay, t.pc \in {"loop", "mark"}, Leaving(x)
      PROVE  History'
  <2>1. Earning(x)
    BY <1>0, <1>7 DEF Earning, WorksOn
  <2> QED
    BY <1>7, <2>1, PastStep DEF telegram
<1>8. ASSUME NEW p \in Order, LeftFound(s, p)
      PROVE  History'
  <2> DEFINE x == [t EXCEPT !.pc = "mark", !.at = p, !.work = @ \ {p}]
  <2>1. /\ tx' = [tx EXCEPT ![s] = x] /\ UNCHANGED <<paid, charged, telegram>>
        /\ t.pc = "loop" /\ p \in t.work /\ paid[<<"join", t.leaver, p>>] > 0
    BY <1>0, <1>x, <1>8 DEF LeftFound, OpenPart, Tx
  <2>2. /\ x.pc = "mark" /\ x.pay = t.pay /\ x.at = p /\ x.leaver = t.leaver
        /\ x.gone = t.gone /\ x.checks = t.checks /\ x.work = t.work \ {p}
    BY <1>0 DEF Tx
  <2> HIDE DEF x
  <2>3. Leaving(x)
    BY <1>0, <2>1, <2>2 DEF Leaving
  <2> QED
    BY <1>7, <2>1, <2>2, <2>3
<1>9. ASSUME NEW p \in Order, LeftSkip(s, p)
      PROVE  History'
  <2> DEFINE x == [t EXCEPT !.work = @ \ {p}]
  <2>1. /\ tx' = [tx EXCEPT ![s] = x] /\ UNCHANGED <<paid, charged, telegram>>
        /\ t.pc = "loop"
    BY <1>0, <1>x, <1>9 DEF LeftSkip, Tx
  <2>2. /\ x.pc = t.pc /\ x.pay = t.pay /\ x.at = t.at /\ x.leaver = t.leaver
        /\ x.gone = t.gone /\ x.checks = t.checks /\ x.work = t.work \ {p}
    BY <1>0 DEF Tx
  <2> HIDE DEF x
  <2>3. Leaving(x)
    BY <1>0, <2>1, <2>2 DEF Leaving
  <2> QED
    BY <1>7, <2>1, <2>2, <2>3
<1>10. ASSUME LeftMark(s)
       PROVE  History'
  <2> DEFINE x == [t EXCEPT !.pc = "loop", !.gone = @ \cup {<<o, t.leaver>>},
                            !.mine[o] = Refilled(@)]
  <2>0. UNCHANGED <<paid, charged, telegram>> /\ t.pc = "mark"
    BY <1>10 DEF LeftMark
  <2>1. tx' = [tx EXCEPT ![s] = x]
    BY <1>0, <1>x, <1>10 DEF LeftMark, Tx
  <2>2. /\ x.pc = "loop" /\ x.pay = t.pay /\ x.at = t.at /\ x.leaver = t.leaver
        /\ x.gone = t.gone \cup {<<o, t.leaver>>} /\ x.checks = t.checks /\ x.work = t.work
    BY <1>0 DEF Tx
  <2> HIDE DEF x
  <2>3. Leaving(x)
    BY <1>0, <2>0, <2>2 DEF Leaving
  <2> QED
    BY <1>7, <2>0, <2>1, <2>2, <2>3
<1>11. ASSUME NEW p \in Order, NEW T \in SUBSET User, RecheckOrder(s, p, T)
       PROVE  History'
  <2> DEFINE n == t.checked + Cardinality(T)
             x == [t EXCEPT !.at = p, !.rounds = @ \ {p}, !.checks = T, !.checked = n]
  <2>1. /\ tx' = [tx EXCEPT ![s] = x] /\ UNCHANGED <<paid, charged, telegram>>
    BY <1>0, <1>x, <1>11 DEF RecheckOrder, Tx
  <2>2. /\ t.pc = "loop" /\ t.work = {} /\ \A u \in T : paid[<<"join", u, p>>] > 0
    BY <1>11 DEF RecheckOrder, Between, OpenPart
  <2>3. /\ x.pc = t.pc /\ x.pay = t.pay /\ x.at = p /\ x.gone = t.gone
        /\ x.checks = T /\ x.work = t.work
    BY <1>0 DEF Tx
  <2> HIDE DEF x
  <2>4. Leaving(x)
    BY <1>0, <2>2, <2>3 DEF Leaving, History, Seen
  <2> QED
    BY <1>7, <2>1, <2>2, <2>3, <2>4
<1>12. ASSUME NEW u \in User, RecheckStays(s, u)
       PROVE  History'
  <2> DEFINE x == [t EXCEPT !.checks = @ \ {u}]
  <2>1. /\ tx' = [tx EXCEPT ![s] = x] /\ UNCHANGED <<paid, charged, telegram>>
        /\ t.pc = "loop"
    BY <1>0, <1>x, <1>12 DEF RecheckStays, Between, Tx
  <2>2. /\ x.pc = t.pc /\ x.pay = t.pay /\ x.at = t.at /\ x.leaver = t.leaver
        /\ x.gone = t.gone /\ x.checks = t.checks \ {u} /\ x.work = t.work
    BY <1>0 DEF Tx
  <2> HIDE DEF x
  <2>3. Leaving(x)
    BY <1>0, <2>1, <2>2 DEF Leaving
  <2> QED
    BY <1>7, <2>1, <2>2, <2>3
<1>13. ASSUME NEW u \in User, RecheckGone(s, u)
       PROVE  History'
  <2> DEFINE c == ChannelOf[o]
             left == [[t EXCEPT !.checks = @ \ {u}]
                       EXCEPT !.pc = "loop", !.leaver = u, !.work = Covered(s, c)]
             x == Loads(s, left, Covered(s, c))
  <2>1. left \in Tx
    BY <1>0 DEF Tx, Covered
  <2>2. /\ tx' = [tx EXCEPT ![s] = x] /\ UNCHANGED <<paid, charged, telegram>>
        /\ t.pc = "loop" /\ u \in t.checks /\ ~StillMember(s, u)
    BY <1>x, <1>13 DEF RecheckGone, Between, Handles
  <2>3. /\ x.pc = "loop" /\ x.leaver = u /\ x.pay = t.pay /\ x.at = t.at
        /\ x.gone = t.gone /\ x.checks \subseteq t.checks /\ x.work = Covered(s, c)
    <3>1. /\ left.pc = "loop" /\ left.leaver = u /\ left.pay = t.pay /\ left.at = t.at
          /\ left.gone = t.gone /\ left.checks \subseteq t.checks /\ left.work = Covered(s, c)
      BY <1>0 DEF Tx
    <3> HIDE DEF left
    <3> QED
      BY <2>1, <3>1, LoadsKeeps
  <2> HIDE DEF x
  <2>4. o \in Order /\ WasIn(c, u)
    BY <1>0, <2>2 DEF Leaving
  <2>5. Gone(c, u)
    BY <2>2, <2>4 DEF StillMember, WasIn, Gone, History, Seen
  <2>6. Leaving(x)
    <3>1. \A q \in x.work : ChannelOf[q] = c
      BY <2>3 DEF Covered
    <3> QED
      BY <1>0, <2>3, <2>5, <3>1 DEF Leaving
  <2> QED
    BY <1>7, <2>2, <2>3, <2>6
<1> QED
  BY <1>1, <1>2, <1>3, <1>4, <1>5, <1>6, <1>8, <1>9, <1>10, <1>11, <1>12, <1>13 DEF Proceed

\* A commit records what its session knew, and gives nobody else less to know.
LEMMA CommitHistory ==
  ASSUME TypeOK, TypeOK', LockDiscipline, History, NEW s \in Session, Commit(s)
  PROVE  History'
<1> USE ClaimType, OrderAssumption
<1> DEFINE t == tx[s]
<1>0. /\ t \in Tx /\ HoldsClaims(s) /\ Leaving(t) /\ Earning(t) /\ Seen
      /\ ChargedLeft /\ ReferralEarned
  BY DEF TypeOK, LockDiscipline, Disciplined, History, Past
<1>1. /\ tx' = [tx EXCEPT ![s] = IdleTx] /\ UNCHANGED telegram
      /\ \A c \in Claim : paid'[c] = IF c \in t.pay THEN paid[c] + 1 ELSE paid[c]
      /\ \A p \in Order \X User : charged'[p] = IF p \in t.gone THEN charged[p] + 1 ELSE charged[p]
  BY DEF Commit, Ends
<1>2. \A c \in Claim : paid[c] \in Nat /\ paid'[c] \in Nat /\ paid[c] <= paid'[c]
  BY <1>1 DEF TypeOK
<1>3. \A c \in Channel, u \in User : /\ WasIn(c, u) => WasIn(c, u)'
                                     /\ Gone(c, u) => Gone(c, u)'
  BY <1>1 DEF WasIn, Gone, telegram
<1>4. Seen'
  <2>1. ASSUME NEW u \in User, NEW o \in Order, paid'[<<"join", u, o>>] > 0
        PROVE  WasIn(ChannelOf[o], u)'
    <3>1. <<"join", u, o>> \in t.pay \/ paid[<<"join", u, o>>] > 0
      BY <1>1, <2>1
    <3> QED
      BY <1>0, <1>3, <3>1 DEF Seen, Earning
  <2> QED
    BY <1>0, <1>1, <2>1 DEF Seen, telegram
<1>5. ChargedLeft'
  <2> SUFFICES ASSUME NEW p \in Order \X User, charged'[p] > 0
               PROVE  paid'[<<"join", p[2], p[1]>>] > 0 /\ Gone(ChannelOf[p[1]], p[2])'
    BY DEF ChargedLeft, Gone
  <2>1. p[1] \in Order /\ p[2] \in User
    OBVIOUS
  <2>a. <<"join", p[2], p[1]>> \in Claim /\ ChannelOf[p[1]] \in Channel
    BY <2>1
  <2>2. charged[p] > 0 \/ p \in t.gone
    BY <1>1
  <2>3. paid[<<"join", p[2], p[1]>>] > 0 /\ Gone(ChannelOf[p[1]], p[2])
    BY <1>0, <2>2 DEF ChargedLeft, Leaving, Gone
  <2>4. paid'[<<"join", p[2], p[1]>>] > 0
    <3> DEFINE c == <<"join", p[2], p[1]>>
    <3>1. c \in Claim /\ paid[c] > 0
      BY <2>a, <2>3
    <3> HIDE DEF c
    <3>2. paid'[c] > 0
      BY <1>2, <3>1
    <3> QED
      BY <3>2 DEF c
  <2> QED
    BY <1>3, <2>1, <2>a, <2>3, <2>4
<1>6. ReferralEarned'
  <2> SUFFICES ASSUME NEW c \in ReferralClaim, paid'[c] > 0
               PROVE  Cardinality(JoinsOf(c[2])') >= MinJoins
    BY DEF ReferralEarned
  <2>1. PICK u \in User : c = <<"referral", u, ReferrerOf[u]>>
    BY DEF ReferralClaim
  <2>2. c \in Claim /\ c[2] = u
    BY <2>1 DEF Claim
  <2>3. /\ JoinsOf(u) \subseteq JoinsOf(u)' /\ IsFiniteSet(JoinsOf(u)')
        /\ Cardinality(JoinsOf(u)) \in Nat /\ Cardinality(JoinsOf(u)') \in Nat
        /\ Cardinality(JoinsOf(u)) <= Cardinality(JoinsOf(u)')
    BY <1>2, JoinsGrow
  <2>4. CASE paid[c] > 0
    BY <1>0, <2>2, <2>3, <2>4, BoundAssumption DEF ReferralEarned
  <2>5. CASE c \in t.pay
    <3>1. Cardinality(JoinsOf(u)) + 1 >= MinJoins
      BY <1>0, <2>1, <2>5 DEF Earning
    <3>2. PICK o \in Order : <<"join", u, o>> \in t.pay
      BY <1>0, <2>1, <2>5 DEF Earning
    <3>3. o \notin JoinsOf(u)
      BY <1>0, <3>2 DEF HoldsClaims, JoinsOf
    <3>4. o \in JoinsOf(u)'
      BY <1>1, <1>2, <3>2 DEF JoinsOf
    <3>5. Cardinality(JoinsOf(u)) < Cardinality(JoinsOf(u)')
      <4>1. JoinsOf(u)' = (JoinsOf(u)' \ {o}) \cup {o} /\ JoinsOf(u) \subseteq JoinsOf(u)' \ {o}
        BY <2>3, <3>3, <3>4
      <4>2. IsFiniteSet(JoinsOf(u)' \ {o})
        BY <2>3, FS_Subset
      <4>3. Cardinality(JoinsOf(u)) <= Cardinality(JoinsOf(u)' \ {o})
        BY <4>1, <4>2, FS_Subset
      <4>4. Cardinality((JoinsOf(u)' \ {o}) \cup {o}) = Cardinality(JoinsOf(u)' \ {o}) + 1
        BY <4>2, FS_AddElement
      <4>5. Cardinality(JoinsOf(u)' \ {o}) \in Nat
        BY <4>2, FS_CardinalityType
      <4>6. Cardinality(JoinsOf(u)') = Cardinality(JoinsOf(u)' \ {o}) + 1
        BY <4>1, <4>4
      <4> QED
        BY <2>3, <4>3, <4>5, <4>6
    <3> QED
      BY <2>2, <2>3, <3>1, <3>5, BoundAssumption
  <2> QED
    BY <1>1, <2>2, <2>4, <2>5
<1>7. ASSUME NEW r \in Session
      PROVE  Past(r)'
  <2>1. CASE r = s
    <3>1. tx'[r] = IdleTx
      BY <1>1, <2>1 DEF TypeOK
    <3> QED
      BY <3>1 DEF Past, Leaving, Earning, IdleTx
  <2>2. CASE r # s
    <3>1. tx'[r] = tx[r]
      BY <1>1, <2>2 DEF TypeOK
    <3> QED
      BY <1>2, <1>3, <3>1, PastKept DEF History
  <2> QED
    BY <2>1, <2>2
<1> QED
  BY <1>4, <1>5, <1>6, <1>7 DEF History

\* What Telegram, time and an abort do.
LEMMA RestHistory ==
  ASSUME TypeOK, TypeOK', LockDiscipline, History,
         Environment \/ UNCHANGED vars \/ \E s \in Session : Abort(s)
  PROVE  History'
<1>1. UNCHANGED <<paid, charged>>
  BY DEF Environment, JoinChannel, LeaveChannel, RestrictMember, DropPendingUpdates,
         GuaranteeEnds, vars, Abort
<1>2. \A c \in Channel : member[c] \subseteq User
  BY DEF TypeOK
<1>3. ASSUME NEW c \in Channel, NEW u \in User
      PROVE  (WasIn(c, u) => WasIn(c, u)') /\ (Gone(c, u) => Gone(c, u)')
  <2>1. quit \subseteq quit'
    BY DEF Environment, JoinChannel, LeaveChannel, RestrictMember, DropPendingUpdates,
           GuaranteeEnds, vars, Abort, telegram
  <2>2. u \in member[c] => u \in member'[c] \/ <<c, u>> \in quit'
    <3>1. ASSUME NEW d \in Channel, NEW v \in User, JoinChannel(d, v)
          PROVE  u \in member[c] => u \in member'[c]
      BY <3>1 DEF JoinChannel, TypeOK
    <3>2. ASSUME NEW d \in Channel, NEW v \in User, LeaveChannel(d, v)
          PROVE  u \in member[c] => u \in member'[c] \/ <<c, u>> \in quit'
      BY <3>2 DEF LeaveChannel, TypeOK
    <3>3. ASSUME NEW d \in Channel, NEW v \in User, RestrictMember(d, v)
          PROVE  member' = member
      BY <3>3 DEF RestrictMember
    <3>4. ASSUME \/ DropPendingUpdates \/ UNCHANGED vars
                 \/ \E o \in Order : GuaranteeEnds(o)
                 \/ \E s \in Session : Abort(s)
          PROVE  member' = member
      BY <3>4 DEF DropPendingUpdates, vars, GuaranteeEnds, Abort, telegram
    <3> QED
      BY <3>1, <3>2, <3>3, <3>4 DEF Environment
  <2> QED
    BY <2>1, <2>2 DEF WasIn, Gone
<1>4. /\ events' \subseteq quit'
      /\ \A c \in Channel, u \in User : <<c, u>> \in restricted' => c \in Group
  <2>1. ASSUME NEW d \in Channel, NEW v \in User,
               JoinChannel(d, v) \/ LeaveChannel(d, v) \/ RestrictMember(d, v)
        PROVE  /\ events' \subseteq quit'
               /\ \A c \in Channel, u \in User : <<c, u>> \in restricted' => c \in Group
    BY <2>1 DEF JoinChannel, LeaveChannel, RestrictMember, History, Seen
  <2>2. ASSUME \/ DropPendingUpdates \/ UNCHANGED vars
               \/ \E o \in Order : GuaranteeEnds(o)
               \/ \E s \in Session : Abort(s)
        PROVE  events' \subseteq events /\ UNCHANGED <<restricted, quit>>
    BY <2>2 DEF DropPendingUpdates, vars, GuaranteeEnds, Abort, telegram
  <2> QED
    BY <2>1, <2>2 DEF Environment, History, Seen
<1>5. Seen' /\ ChargedLeft' /\ ReferralEarned'
  <2>1. Seen'
    BY <1>1, <1>3, <1>4, OrderAssumption DEF History, Seen
  <2>2. ChargedLeft'
    BY <1>1, <1>3, OrderAssumption DEF History, ChargedLeft, Gone
  <2>3. ReferralEarned'
    BY <1>1 DEF History, ReferralEarned, JoinsOf
  <2> QED
    BY <2>1, <2>2, <2>3
<1>6. ASSUME NEW r \in Session
      PROVE  Past(r)'
  <2>1. tx'[r] \in {tx[r], IdleTx}
    BY DEF Environment, JoinChannel, LeaveChannel, RestrictMember, DropPendingUpdates,
           GuaranteeEnds, vars, Abort, Ends, TypeOK
  <2>2. \A c \in Claim : paid[c] <= paid'[c]
    BY <1>1 DEF TypeOK
  <2>3. CASE tx'[r] = tx[r]
    BY <1>3, <2>2, <2>3, PastKept DEF History
  <2>4. CASE tx'[r] = IdleTx
    BY <2>4 DEF Past, Leaving, Earning, IdleTx
  <2> QED
    BY <2>1, <2>3, <2>4
<1> QED
  BY <1>5, <1>6 DEF History

LEMMA InductiveHistory == Spec => [](TypeOK /\ LockDiscipline /\ History)
<1>1. Init => History
  <2> SUFFICES ASSUME Init PROVE History
    OBVIOUS
  <2>1. Seen
    BY ClaimType, OrderAssumption DEF Init, Seen
  <2>2. ChargedLeft /\ ReferralEarned
    BY DEF Init, ChargedLeft, ReferralEarned, Claim
  <2>3. \A s \in Session : Past(s)
    BY DEF Init, Past, Leaving, Earning, IdleTx
  <2> QED
    BY <2>1, <2>2, <2>3 DEF History
<1>2. TypeOK /\ TypeOK' /\ LockDiscipline /\ History /\ [Next]_vars => History'
  <2> SUFFICES ASSUME TypeOK, TypeOK', LockDiscipline, History, [Next]_vars
               PROVE  History'
    OBVIOUS
  <2> QED
    BY StartsHistory, ProceedHistory, CommitHistory, RestHistory DEF Next, Step
<1> QED
  BY <1>1, <1>2, Inductive, PTL DEF Spec

\* Nobody is charged for a leave who has not taken the reward or has not left,
\* whoever handles the leave and however late (handle_member_left).
THEOREM OnlyLeaversCharged == Spec => []ChargedLeft
BY InductiveHistory, PTL DEF History

\* No referrer is paid before the referee has the joins that earn it, the one
\* being handled included (reward_referral_if_eligible).
THEOREM ReferralsEarned == Spec => []ReferralEarned
BY InductiveHistory, PTL DEF History

(***************************************************************************)
(* The buttons of an open order, when no call to Telegram fails            *)
(***************************************************************************)
Open == {"in_progress", "refilling"}

\* The status of an order as a session in the state t sees it.
Sees(t, o) == IF t.mine[o].status = t.seen[o].status THEN order[o].status
                                                     ELSE t.mine[o].status

\* An order that s has locked shows its buttons if s is about to commit it as
\* open, and also if s may still be rolled back and it is open in the table.
Shows(s) ==
  LET t == tx[s]
  IN  /\ t.pc \in {"looked", "referred"} => Clickable(t.seen[t.at])
      /\ \A o \in Order : lock[o] = s =>
           /\ Sees(t, o) \in Open => post[o] = "open"
           /\ order[o].status \in Open /\ t.pc # "done" => post[o] = "open"

Shown == OpenOrderHasButtons /\ \A s \in Session : Shows(s)

\* A step of s, to the state x, keeps the lock, the post and the status that s
\* sees of an order, or takes the lock and opens the post or gives up the order.
ShowsAfter(s, x, o) ==
  \/ /\ lock'[o] = lock[o] /\ post'[o] = post[o]
     /\ Sees(x, o) \in {Sees(tx[s], o), order[o].status}
  \/ /\ lock'[o] = s
     /\ \/ post'[o] = "open"
        \/ Sees(x, o) \notin Open /\ (order[o].status \in Open => x.pc = "done")

LEMMA ShownStep ==
  ASSUME TypeOK, TypeOK', Shown, NEW s \in Session, NEW x, order' = order,
         tx' = [tx EXCEPT ![s] = x], tx[s].pc # "done",
         x.pc \in {"looked", "referred"} => Clickable(x.seen[x.at]),
         \A o \in Order : ShowsAfter(s, x, o)
  PROVE  Shown'
<1>0. tx'[s] = x /\ \A t \in Session : t # s => tx'[t] = tx[t]
  BY DEF TypeOK
<1>1. OpenOrderHasButtons'
  <2> SUFFICES ASSUME NEW o \in Order, Clickable(order[o]), lock'[o] = Nobody
               PROVE  post'[o] = "open"
    BY DEF OpenOrderHasButtons
  <2>1. lock'[o] = lock[o] /\ post'[o] = post[o]
    BY NobodyAssumption DEF ShowsAfter
  <2> QED
    BY <2>1 DEF Shown, OpenOrderHasButtons
<1>2. ASSUME NEW t \in Session, t # s
      PROVE  Shows(t)'
  <2>1. tx'[t] = tx[t] /\ Shows(t)
    BY <1>0, <1>2 DEF Shown
  <2>2. ASSUME NEW o \in Order, lock'[o] = t
        PROVE  lock[o] = t /\ post'[o] = post[o]
    BY <1>2, <2>2 DEF ShowsAfter
  <2> QED
    BY <2>1, <2>2 DEF Shows, Sees
<1>3. Shows(s)'
  <2>1. ASSUME NEW o \in Order, lock'[o] = s
        PROVE  /\ Sees(x, o) \in Open => post'[o] = "open"
               /\ order[o].status \in Open /\ x.pc # "done" => post'[o] = "open"
    <3>1. CASE /\ lock'[o] = lock[o] /\ post'[o] = post[o]
               /\ Sees(x, o) \in {Sees(tx[s], o), order[o].status}
      BY <2>1, <3>1 DEF Shown, Shows
    <3>2. CASE \/ post'[o] = "open"
               \/ Sees(x, o) \notin Open /\ (order[o].status \in Open => x.pc = "done")
      BY <3>2
    <3> QED
      BY <3>1, <3>2 DEF ShowsAfter
  <2>2. \A o \in Order : Sees(x, o)' = Sees(x, o)
    BY DEF Sees
  <2> QED
    BY <1>0, <2>1, <2>2 DEF Shows, Sees, Clickable
<1> QED
  BY <1>1, <1>2, <1>3 DEF Shown

\* Loading rows changes of no order what a session sees but to what it is.
LEMMA LoadsSees ==
  ASSUME NEW s \in Session, NEW t \in Tx, NEW S, NEW o \in Order
  PROVE  Sees(Loads(s, t, S), o) \in {Sees(t, o), order[o].status}
BY DEF Loads, Sees, Tx

LEMMA IdleSees ==
  ASSUME NEW o \in Order
  PROVE  Sees(IdleTx, o) = order[o].status
BY DEF Sees, IdleTx

\* The locks of users are not the locks of orders.
LEMMA UsersLocks ==
  ASSUME NEW s, NEW K \in SUBSET User, Lock(s, K), NEW o \in Order,
         lock \in [User \cup Order -> Session \cup {Nobody}]
  PROVE  lock'[o] = lock[o]
BY RowAssumption DEF Lock

LEMMA StartsShown ==
  ASSUME TypeOK, TypeOK', Shown, NEW s \in Session, Starts(s)
  PROVE  Shown'
<1> USE OrderAssumption, IdleType
<1>0. /\ lock \in [User \cup Order -> Session \cup {Nobody}]
      /\ tx \in [Session -> Tx]
  BY DEF TypeOK
<1>1. ASSUME NEW o \in Order, PlaceOrder(s, o)
      PROVE  Shown'
  <2> DEFINE x == [IdleTx EXCEPT !.pc = "placed", !.actor = OwnerOf[o], !.at = o,
                                 !.mine[o].status = "queued"]
  <2>1. /\ tx' = [tx EXCEPT ![s] = x] /\ tx[s].pc = "idle" /\ order[o].status = "absent"
        /\ order' = order /\ post' = post /\ Lock(s, {OwnerOf[o], o})
    BY <1>1 DEF PlaceOrder
  <2>2. /\ x.pc = "placed" /\ Sees(x, o) = "queued"
        /\ \A p \in Order : p # o => Sees(x, p) = order[p].status
    BY DEF IdleTx, Sees, NoRow
  <2>3. lock'[o] = s /\ \A p \in Order : p # o => lock'[p] = lock[p]
    BY <1>0, <2>1, RowAssumption DEF Lock
  <2> HIDE DEF x
  <2>4. \A p \in Order : ShowsAfter(s, x, p)
    BY <2>1, <2>2, <2>3 DEF ShowsAfter, Open
  <2> QED
    BY <2>1, <2>2, <2>4, ShownStep
<1>2. ASSUME NEW u \in User, NEW o \in Order, NEW B \in SUBSET BonusClaim,
             ClickLook(s, u, o, B)
      PROVE  Shown'
  <2> DEFINE x == [IdleTx EXCEPT !.pc = "looked", !.actor = u, !.at = o,
                                 !.seen[o] = order[o], !.mine[o] = order[o],
                                 !.pay = {<<"join", u, o>>} \cup B]
  <2>1. /\ tx' = [tx EXCEPT ![s] = x] /\ tx[s].pc = "idle" /\ Clickable(order[o])
        /\ order' = order /\ post' = post /\ Lock(s, {u})
    BY <1>2 DEF ClickLook
  <2>2. /\ x.at = o /\ x.seen[o] = order[o] /\ x.pc = "looked"
        /\ \A p \in Order : Sees(x, p) = order[p].status
    BY DEF IdleTx, Sees
  <2>3. \A p \in Order : lock'[p] = lock[p]
    BY <1>0, <2>1, UsersLocks
  <2> HIDE DEF x
  <2>4. \A p \in Order : ShowsAfter(s, x, p)
    BY <2>1, <2>2, <2>3 DEF ShowsAfter
  <2> QED
    BY <2>1, <2>2, <2>4, ShownStep
<1>3. ASSUME NEW c \in Channel, NEW u \in User,
             NEW by \in {u} \cup {OwnerOf[o] : o \in Order}, LeftUpdate(s, c, u, by)
      PROVE  Shown'
  <2> DEFINE t == [[IdleTx EXCEPT !.actor = by]
                     EXCEPT !.pc = "loop", !.leaver = u, !.work = Covered(s, c)]
             x == Loads(s, t, Covered(s, c))
  <2>0. by \in User /\ Covered(s, c) \in SUBSET Order
    BY DEF Covered
  <2>1. t \in Tx
    BY <2>0 DEF Tx
  <2>2. t.pc = "loop" /\ \A p \in Order : Sees(t, p) = order[p].status
    BY DEF IdleTx, Sees
  <2>3. /\ tx' = [tx EXCEPT ![s] = x] /\ tx[s].pc = "idle"
        /\ order' = order /\ post' = post /\ Lock(s, {by})
    BY <1>3 DEF LeftUpdate, Handles
  <2> HIDE DEF t
  <2>4. x.pc = "loop" /\ \A p \in Order : Sees(x, p) = order[p].status
    BY <2>1, <2>2, LoadsSees, LoadsKeeps
  <2>5. \A p \in Order : lock'[p] = lock[p]
    BY <1>0, <2>0, <2>3, UsersLocks
  <2> HIDE DEF x
  <2>6. \A p \in Order : ShowsAfter(s, x, p)
    BY <2>3, <2>4, <2>5 DEF ShowsAfter
  <2> QED
    BY <2>3, <2>4, <2>6, ShownStep
<1>4. ASSUME RecheckStart(s)
      PROVE  Shown'
  <2> DEFINE live == {o \in Order : Guaranteed(order[o])}
             t == [IdleTx EXCEPT !.pc = "loop", !.rounds = live]
             x == Loads(s, t, live)
  <2>1. t \in Tx
    BY DEF Tx, IdleTx
  <2>2. t.pc = "loop" /\ \A p \in Order : Sees(t, p) = order[p].status
    BY DEF IdleTx, Sees
  <2>3. /\ tx' = [tx EXCEPT ![s] = x] /\ tx[s].pc = "idle" /\ UNCHANGED <<order, post, lock>>
    BY <1>4 DEF RecheckStart
  <2> HIDE DEF t
  <2>4. x.pc = "loop" /\ \A p \in Order : Sees(x, p) = order[p].status
    BY <2>1, <2>2, LoadsSees, LoadsKeeps
  <2> HIDE DEF x
  <2>6. \A p \in Order : ShowsAfter(s, x, p)
    BY <2>3, <2>4 DEF ShowsAfter
  <2> QED
    BY <2>3, <2>4, <2>6, ShownStep
<1> QED
  BY <1>1, <1>2, <1>3, <1>4 DEF Starts

\* A step that changes of s what no other sees: its place in the handler.
LEMMA QuietShown ==
  ASSUME TypeOK, TypeOK', Shown, NEW s \in Session, NEW x, order' = order, post' = post,
         tx' = [tx EXCEPT ![s] = x], tx[s].pc # "done",
         \A o \in Order : lock'[o] = lock[o],
         x.pc = "referred" => tx[s].pc = "looked" /\ x.at = tx[s].at /\ x.seen = tx[s].seen,
         x.pc # "looked",
         \A o \in Order : Sees(x, o) \in {Sees(tx[s], o), order[o].status}
  PROVE  Shown'
<1>1. \A o \in Order : ShowsAfter(s, x, o)
  BY DEF ShowsAfter
<1>2. x.pc \in {"looked", "referred"} => Clickable(x.seen[x.at])
  BY DEF Shown, Shows
<1> QED
  BY <1>1, <1>2, ShownStep

LEMMA ProceedShown ==
  ASSUME TypeOK, TypeOK', LockDiscipline, Shown, NEW s \in Session,
         Proceed(s), ~Commit(s)
  PROVE  Shown'
<1> USE OrderAssumption
<1> DEFINE t == tx[s]
           o == t.at
<1>0. t \in Tx /\ WorksOn(s) /\ Shows(s)
  BY DEF TypeOK, LockDiscipline, Disciplined, Shown
<1>x. /\ tx \in [Session -> Tx] /\ post \in [Order -> {"absent", "open", "closed"}]
      /\ lock \in [User \cup Order -> Session \cup {Nobody}]
  BY DEF TypeOK
<1>m. t.mine \in [Order -> Row] /\ t.seen \in [Order -> Row]
  BY <1>0 DEF Tx
\* The steps that write the order worked on and end the handler's work.
<1>a. ASSUME NEW x, tx' = [tx EXCEPT ![s] = x], order' = order, t.pc # "done",
             x.pc \in {"done", "loop"}, o \in Order, lock'[o] = s,
             \A p \in Order : p # o => lock'[p] = lock[p],
             NEW edit, post' = [post EXCEPT ![o] = edit],
             edit = "open" \/ (Sees(x, o) \notin Open /\ x.pc = "done"),
             \A p \in Order : p # o => x.mine[p] = t.mine[p] /\ x.seen[p] = t.seen[p]
      PROVE  Shown'
  <2>1. \A p \in Order : p # o => Sees(x, p) = Sees(t, p)
    BY <1>a DEF Sees
  <2>2. post'[o] = edit /\ \A p \in Order : p # o => post'[p] = post[p]
    BY <1>x, <1>a
  <2>3. \A p \in Order : ShowsAfter(s, x, p)
    BY <1>a, <2>1, <2>2 DEF ShowsAfter
  <2> QED
    BY <1>a, <2>3, ShownStep
\* Paying the commission takes only the row of a referrer.
<1>c. ASSUME NEW C \in SUBSET CommissionClaim, Commissioned(o, C), o \in Order,
             Lock(s, {ReferrerOf[c[2]] : c \in C})
      PROVE  \A p \in Order : lock'[p] = lock[p]
  <2>1. {ReferrerOf[c[2]] : c \in C} \subseteq User
    <3> SUFFICES ASSUME NEW c \in C
                 PROVE  ReferrerOf[c[2]] \in User
      OBVIOUS
    <3>1. ReferrerOf[OwnerOf[o]] # Nobody /\ c = <<"commission", OwnerOf[o], o>>
      BY <1>c DEF Commissioned
    <3> QED
      BY <1>c, <3>1, ReferrerAssumption
  <2> QED
    BY <1>x, <1>c, <2>1, UsersLocks
<1>1. ASSUME NEW C \in SUBSET CommissionClaim, PostOrder(s, C)
      PROVE  Shown'
  <2> DEFINE x == [t EXCEPT !.pc = "done", !.pay = C, !.mine[o].status = "in_progress"]
  <2>0. o \in Order /\ lock[o] = s /\ t.pc = "placed"
    BY <1>0, <1>1 DEF PostOrder, WorksOn
  <2>1. tx' = [tx EXCEPT ![s] = x] /\ order' = order /\ post' = [post EXCEPT ![o] = "open"]
    BY <1>0, <1>x, <1>1 DEF PostOrder, Tx
  <2>2. x.pc = "done" /\ \A p \in Order : p # o => x.mine[p] = t.mine[p] /\ x.seen[p] = t.seen[p]
    BY <1>0, <1>m DEF Tx
  <2>3. \A p \in Order : lock'[p] = lock[p]
    BY <1>1, <1>c, <2>0 DEF PostOrder
  <2>4. lock'[o] = s /\ \A p \in Order : p # o => lock'[p] = lock[p]
    BY <2>0, <2>3
  <2> HIDE DEF x
  <2> QED
    BY <1>a, <2>0, <2>1, <2>2, <2>4
\* A refused post leaves an order that cannot be joined yet.
<1>2. ASSUME NEW C \in SUBSET CommissionClaim, PostFails(s, C)
      PROVE  Shown'
  <2> DEFINE x == [t EXCEPT !.pc = "done", !.pay = C]
  <2>0. o \in Order /\ t.pc = "placed"
    BY <1>0, <1>2 DEF PostFails, WorksOn
  <2>1. tx' = [tx EXCEPT ![s] = x] /\ order' = order /\ post' = post
    BY <1>0, <1>x, <1>2 DEF PostFails, Tx
  <2>2. x.pc = "done" /\ x.seen = t.seen /\ x.mine = t.mine
    BY <1>0 DEF Tx
  <2>3. \A p \in Order : lock'[p] = lock[p]
    BY <1>2, <1>c, <2>0 DEF PostFails
  <2> HIDE DEF x
  <2>4. \A p \in Order : Sees(x, p) \in {Sees(t, p), order[p].status}
    BY <2>2 DEF Sees
  <2> QED
    BY <2>0, <2>1, <2>2, <2>3, <2>4, QuietShown
<1>3. ASSUME NEW B \in SUBSET BonusClaim, ClickReferral(s, B)
      PROVE  Shown'
  <2> DEFINE r == <<"referral", t.actor, ReferrerOf[t.actor]>>
             x == [t EXCEPT !.pc = "referred", !.pay = @ \cup {r} \cup B]
  <2>1. tx' = [tx EXCEPT ![s] = x]
    BY <1>0, <1>x, <1>3 DEF ClickReferral, Tx
  <2>2. /\ order' = order /\ post' = post /\ t.pc = "looked"
        /\ Lock(s, {ReferrerOf[t.actor]}) /\ ReferralDue(t.actor)
    BY <1>3 DEF ClickReferral
  <2>3. x.pc = "referred" /\ x.at = o /\ x.seen = t.seen /\ x.mine = t.mine
    BY <1>0 DEF Tx
  <2>4. \A p \in Order : lock'[p] = lock[p]
    BY <1>0, <1>x, <2>2, UsersLocks, ReferrerAssumption DEF ReferralDue, WorksOn
  <2> HIDE DEF x
  <2>5. \A p \in Order : Sees(x, p) \in {Sees(t, p), order[p].status}
    BY <2>3 DEF Sees
  <2> QED
    BY <2>1, <2>2, <2>3, <2>4, <2>5, QuietShown
<1>4. ASSUME NEW B \in SUBSET BonusClaim, ClickComplete(s, B)
      PROVE  Shown'
  <2> DEFINE full == [status |-> "completed", progress |-> t.mine[o].progress + 1,
                      guarantee |-> "live"]
             x == [t EXCEPT !.pc = "done", !.pay = @ \cup B, !.mine[o] = full]
  <2>0. o \in Order /\ t.pc = "referred" /\ Clickable(t.seen[o])
    BY <1>0, <1>4 DEF ClickComplete, WorksOn, Shows
  <2>1. tx' = [tx EXCEPT ![s] = x]
    BY <1>0, <1>x, <1>4 DEF ClickComplete, Tx
  <2>2. /\ order' = order /\ post' = [post EXCEPT ![o] = "closed"]
        /\ Lock(s, {o, OwnerOf[o]})
    BY <1>4 DEF ClickComplete
  <2>3. /\ x.pc = "done" /\ x.seen = t.seen /\ x.mine[o] = full
        /\ \A p \in Order : p # o => x.mine[p] = t.mine[p]
    BY <1>0, <1>m, <2>0 DEF Tx
  <2>4. Sees(x, o) \notin Open
    BY <2>0, <2>3 DEF Sees, Clickable, Open
  <2>5. lock'[o] = s /\ \A p \in Order : p # o => lock'[p] = lock[p]
    BY <1>x, <2>0, <2>2, RowAssumption DEF Lock
  <2> HIDE DEF x
  <2> QED
    BY <1>x, <1>a, <2>0, <2>1, <2>2, <2>3, <2>4, <2>5
<1>5. ASSUME ClickNoReferral(s)
      PROVE  Shown'
  <2> DEFINE x == [t EXCEPT !.pc = "referred"]
  <2>1. /\ tx' = [tx EXCEPT ![s] = x] /\ t.pc = "looked"
        /\ order' = order /\ post' = post /\ lock' = lock
    BY <1>0, <1>x, <1>5 DEF ClickNoReferral, Tx
  <2>2. x.pc = "referred" /\ x.at = o /\ x.seen = t.seen /\ x.mine = t.mine
    BY <1>0 DEF Tx
  <2> HIDE DEF x
  <2>3. \A p \in Order : Sees(x, p) \in {Sees(t, p), order[p].status}
    BY <2>2 DEF Sees
  <2> QED
    BY <2>1, <2>2, <2>3, QuietShown
<1>6. ASSUME ClickCount(s)
      PROVE  Shown'
  <2> DEFINE x == [t EXCEPT !.pc = "done", !.mine[o].progress = @ + 1]
  <2>0. o \in Order /\ t.pc = "referred"
    BY <1>0, <1>6 DEF ClickCount, WorksOn
  <2>1. tx' = [tx EXCEPT ![s] = x]
    BY <1>0, <1>x, <1>6 DEF ClickCount, Tx
  <2>2. order' = order /\ post' = [post EXCEPT ![o] = "open"] /\ Lock(s, {o})
    BY <1>6 DEF ClickCount
  <2>3. x.pc = "done" /\ \A p \in Order : p # o => x.mine[p] = t.mine[p] /\ x.seen[p] = t.seen[p]
    BY <1>0, <1>m DEF Tx
  <2>4. lock'[o] = s /\ \A p \in Order : p # o => lock'[p] = lock[p]
    BY <1>x, <2>0, <2>2 DEF Lock
  <2> HIDE DEF x
  <2> QED
    BY <1>x, <1>a, <2>0, <2>1, <2>2, <2>3, <2>4
<1>7. ASSUME LeftMark(s)
      PROVE  Shown'
  <2> DEFINE x == [t EXCEPT !.pc = "loop", !.gone = @ \cup {<<o, t.leaver>>},
                            !.mine[o] = Refilled(@)]
  <2>0. o \in Order /\ t.leaver \in User /\ t.pc = "mark"
    BY <1>0, <1>7 DEF LeftMark, WorksOn
  <2>1. tx' = [tx EXCEPT ![s] = x]
    BY <1>0, <1>x, <1>7 DEF LeftMark, Tx
  <2>2. order' = order /\ post' = [post EXCEPT ![o] = "open"] /\ Lock(s, {o, t.leaver})
    BY <1>7 DEF LeftMark
  <2>3. x.pc = "loop" /\ \A p \in Order : p # o => x.mine[p] = t.mine[p] /\ x.seen[p] = t.seen[p]
    BY <1>0, <1>m DEF Tx
  <2>4. lock'[o] = s /\ \A p \in Order : p # o => lock'[p] = lock[p]
    BY <1>x, <2>0, <2>2, RowAssumption DEF Lock
  <2> HIDE DEF x
  <2> QED
    BY <1>x, <1>a, <2>0, <2>1, <2>2, <2>3, <2>4
\* The other steps of a leave and of a recheck touch no post and take no lock.
<1>8. ASSUME NEW x, tx' = [tx EXCEPT ![s] = x], t.pc = "loop", x.pc \in {"loop", "mark"},
             order' = order, post' = post, lock' = lock,
             \A p \in Order : Sees(x, p) \in {Sees(t, p), order[p].status}
      PROVE  Shown'
  BY <1>8, QuietShown
<1>9. ASSUME NEW x, tx' = [tx EXCEPT ![s] = x], t.pc = "loop", x.pc \in {"loop", "mark"},
             order' = order, post' = post, lock' = lock, x.seen = t.seen, x.mine = t.mine
      PROVE  Shown'
  <2>1. \A p \in Order : Sees(x, p) = Sees(t, p)
    BY <1>9 DEF Sees
  <2> QED
    BY <1>8, <1>9, <2>1
<1>10. ASSUME NEW p \in Order, LeftFound(s, p)
       PROVE  Shown'
  <2> DEFINE x == [t EXCEPT !.pc = "mark", !.at = p, !.work = @ \ {p}]
  <2>1. /\ tx' = [tx EXCEPT ![s] = x] /\ t.pc = "loop"
        /\ order' = order /\ post' = post /\ lock' = lock
    BY <1>0, <1>x, <1>10 DEF LeftFound, Tx
  <2>2. x.pc = "mark" /\ x.seen = t.seen /\ x.mine = t.mine
    BY <1>0 DEF Tx
  <2> HIDE DEF x
  <2> QED
    BY <1>9, <2>1, <2>2
<1>11. ASSUME NEW p \in Order, LeftSkip(s, p)
       PROVE  Shown'
  <2> DEFINE x == [t EXCEPT !.work = @ \ {p}]
  <2>1. /\ tx' = [tx EXCEPT ![s] = x] /\ t.pc = "loop"
        /\ order' = order /\ post' = post /\ lock' = lock
    BY <1>0, <1>x, <1>11 DEF LeftSkip, Tx
  <2>2. x.pc = t.pc /\ x.seen = t.seen /\ x.mine = t.mine
    BY <1>0 DEF Tx
  <2> HIDE DEF x
  <2> QED
    BY <1>9, <2>1, <2>2
<1>12. ASSUME NEW p \in Order, NEW T \in SUBSET User, RecheckOrder(s, p, T)
       PROVE  Shown'
  <2> DEFINE n == t.checked + Cardinality(T)
             x == [t EXCEPT !.at = p, !.rounds = @ \ {p}, !.checks = T, !.checked = n]
  <2>1. /\ tx' = [tx EXCEPT ![s] = x] /\ t.pc = "loop"
        /\ order' = order /\ post' = post /\ lock' = lock
    BY <1>0, <1>x, <1>12 DEF RecheckOrder, Between, Tx
  <2>2. x.pc = t.pc /\ x.seen = t.seen /\ x.mine = t.mine
    BY <1>0 DEF Tx
  <2> HIDE DEF x
  <2> QED
    BY <1>9, <2>1, <2>2
<1>13. ASSUME NEW u \in User, RecheckStays(s, u)
       PROVE  Shown'
  <2> DEFINE x == [t EXCEPT !.checks = @ \ {u}]
  <2>1. /\ tx' = [tx EXCEPT ![s] = x] /\ t.pc = "loop"
        /\ order' = order /\ post' = post /\ lock' = lock
    BY <1>0, <1>x, <1>13 DEF RecheckStays, Between, Tx
  <2>2. x.pc = t.pc /\ x.seen = t.seen /\ x.mine = t.mine
    BY <1>0 DEF Tx
  <2> HIDE DEF x
  <2> QED
    BY <1>9, <2>1, <2>2
<1>14. ASSUME NEW u \in User, RecheckGone(s, u)
       PROVE  Shown'
  <2> DEFINE c == ChannelOf[o]
             left == [[t EXCEPT !.checks = @ \ {u}]
                       EXCEPT !.pc = "loop", !.leaver = u, !.work = Covered(s, c)]
             x == Loads(s, left, Covered(s, c))
  <2>1. left \in Tx
    BY <1>0 DEF Tx, Covered
  <2>2. /\ tx' = [tx EXCEPT ![s] = x] /\ t.pc = "loop"
        /\ order' = order /\ post' = post /\ lock' = lock
    BY <1>14 DEF RecheckGone, Between, Handles
  <2>3. left.pc = "loop" /\ left.seen = t.seen /\ left.mine = t.mine
    BY <1>0 DEF Tx
  <2> HIDE DEF left
  <2>4. x.pc = "loop" /\ \A p \in Order : Sees(x, p) \in {Sees(left, p), order[p].status}
    BY <2>1, <2>3, LoadsKeeps, LoadsSees
  <2>5. \A p \in Order : Sees(left, p) = Sees(t, p)
    BY <2>3 DEF Sees
  <2> HIDE DEF x
  <2> QED
    BY <1>8, <2>2, <2>4, <2>5
<1> QED
  BY <1>1, <1>2, <1>3, <1>4, <1>5, <1>6, <1>7, <1>10, <1>11, <1>12, <1>13, <1>14 DEF Proceed

\* A commit shows to all what the session has seen.
LEMMA CommitShown ==
  ASSUME TypeOK, TypeOK', LockDiscipline, Shown, NEW s \in Session, Commit(s)
  PROVE  Shown'
<1>1. /\ tx' = [tx EXCEPT ![s] = IdleTx] /\ post' = post
      /\ order' = [o \in Order |-> View(s, o)]
      /\ lock' = [k \in User \cup Order |-> IF lock[k] = s THEN Nobody ELSE lock[k]]
  BY DEF Commit, Ends
<1>2. ASSUME NEW o \in Order
      PROVE  order'[o].status = Sees(tx[s], o)
  BY <1>1 DEF View, Merge, Sees
<1>3. ASSUME NEW o \in Order, lock[o] # s
      PROVE  order'[o].status = order[o].status
  BY <1>2, <1>3 DEF LockDiscipline, Disciplined, HoldsOrders, Writes, Sees
<1>4. OpenOrderHasButtons'
  <2> SUFFICES ASSUME NEW o \in Order, order'[o].status \in Open, lock'[o] = Nobody
               PROVE  post'[o] = "open"
    BY DEF OpenOrderHasButtons, Clickable, Open
  <2>1. CASE lock[o] = s
    BY <1>1, <1>2, <2>1 DEF Shown, Shows
  <2>2. CASE lock[o] # s
    BY <1>1, <1>3, <2>2 DEF Shown, OpenOrderHasButtons, Clickable, Open
  <2> QED
    BY <2>1, <2>2
<1>5. ASSUME NEW t \in Session
      PROVE  Shows(t)'
  <2>1. CASE t = s
    <3>1. tx'[t] = IdleTx /\ \A o \in Order : lock'[o] # s
      BY <1>1, <2>1, NobodyAssumption DEF TypeOK
    <3> QED
      BY <2>1, <3>1 DEF Shows, IdleTx
  <2>2. CASE t # s
    <3>1. tx'[t] = tx[t] /\ Shows(t)
      BY <1>1, <2>2 DEF TypeOK, Shown
    <3>2. ASSUME NEW o \in Order, lock'[o] = t
          PROVE  lock[o] = t /\ post'[o] = post[o] /\ order'[o].status = order[o].status
      BY <1>1, <1>3, <2>2, <3>2, NobodyAssumption
    <3> QED
      BY <3>1, <3>2 DEF Shows, Sees
  <2> QED
    BY <2>1, <2>2
<1> QED
  BY <1>4, <1>5 DEF Shown

\* A session that is ended to break a deadlock has no edit to show: it waits
\* for the lock of the order first.
LEMMA AbortShown ==
  ASSUME TypeOK, TypeOK', Shown, Failing \subseteq {"post"}, NEW s \in Session, Abort(s)
  PROVE  Shown'
<1>1. /\ tx' = [tx EXCEPT ![s] = IdleTx] /\ post' = post /\ order' = order
      /\ lock' = [k \in User \cup Order |-> IF lock[k] = s THEN Nobody ELSE lock[k]]
      /\ Deadlocked(s)
  BY DEF Abort, ProcessOf, Ends
<1>2. tx[s].pc # "done"
  <2>1. WaitsFor(s) # {}
    BY <1>1 DEF Deadlocked
  <2> QED
    BY <2>1 DEF WaitsFor, Needs
<1>3. OpenOrderHasButtons'
  <2> SUFFICES ASSUME NEW o \in Order, order[o].status \in Open, lock'[o] = Nobody
               PROVE  post[o] = "open"
    BY <1>1 DEF OpenOrderHasButtons, Clickable, Open
  <2> QED
    BY <1>1, <1>2 DEF Shown, Shows, OpenOrderHasButtons, Clickable, Open
<1>4. ASSUME NEW t \in Session
      PROVE  Shows(t)'
  <2>1. CASE t = s
    <3>1. tx'[t] = IdleTx /\ \A o \in Order : lock'[o] # s
      BY <1>1, <2>1, NobodyAssumption DEF TypeOK
    <3> QED
      BY <2>1, <3>1 DEF Shows, IdleTx
  <2>2. CASE t # s
    <3>1. tx'[t] = tx[t] /\ Shows(t)
      BY <1>1, <2>2 DEF TypeOK, Shown
    <3>2. ASSUME NEW o \in Order, lock'[o] = t
          PROVE  lock[o] = t
      BY <1>1, <2>2, <3>2, NobodyAssumption
    <3> QED
      BY <1>1, <3>1, <3>2 DEF Shows, Sees
  <2> QED
    BY <2>1, <2>2
<1> QED
  BY <1>3, <1>4 DEF Shown

LEMMA EnvironmentShown ==
  ASSUME TypeOK, TypeOK', Shown, Environment \/ UNCHANGED vars
  PROVE  Shown'
<1>1. post' = post /\ lock' = lock /\ tx' = tx
  BY DEF Environment, JoinChannel, LeaveChannel, RestrictMember, DropPendingUpdates,
         GuaranteeEnds, vars
<1>2. \A o \in Order : order'[o].status = order[o].status
  <2>1. ASSUME NEW p \in Order, GuaranteeEnds(p)
        PROVE  \A o \in Order : order'[o].status = order[o].status
    BY <2>1 DEF GuaranteeEnds, TypeOK, Row
  <2>2. \/ order' = order
        \/ \E p \in Order : GuaranteeEnds(p)
    BY DEF Environment, JoinChannel, LeaveChannel, RestrictMember, DropPendingUpdates, vars
  <2> QED
    BY <2>1, <2>2
<1> QED
  BY <1>1, <1>2 DEF Shown, OpenOrderHasButtons, Shows, Sees, Clickable

\* Where no process crashes, an order that can be joined and that no session is
\* writing shows its buttons, however clicks, leaves, rechecks and posts that
\* Telegram refuses interleave (update_collector_message).
THEOREM OpenOrdersShown ==
  ASSUME Failing \subseteq {"post"}
  PROVE  Spec => []OpenOrderHasButtons
<1>1. Init => Shown
  BY NobodyAssumption DEF Init, Shown, OpenOrderHasButtons, Shows, Clickable, NoRow, IdleTx
<1>2. TypeOK /\ TypeOK' /\ LockDiscipline /\ Shown /\ [Next]_vars => Shown'
  <2> SUFFICES ASSUME TypeOK, TypeOK', LockDiscipline, Shown, [Next]_vars
               PROVE  Shown'
    OBVIOUS
  <2> QED
    BY StartsShown, ProceedShown, CommitShown, AbortShown, EnvironmentShown DEF Next, Step
<1>3. Shown => OpenOrderHasButtons
  BY DEF Shown
<1> QED
  BY <1>1, <1>2, <1>3, Inductive, PTL DEF Spec

(***************************************************************************)
(* Progress, target and charges, and what lost updates do to them          *)
(***************************************************************************)
\* The progress of an order as a session in the state t sees it.
Progress(t, o) == IF t.mine[o].progress = t.seen[o].progress THEN order[o].progress
                                                             ELSE t.mine[o].progress

\* The participants who have not left: in the tables, and for a session that is
\* about to commit what it did in the state t.
Stay(o) == {u \in User : paid[<<"join", u, o>>] > 0 /\ charged[<<o, u>>] = 0}

Here(t, o) ==
  {u \in User : /\ \/ paid[<<"join", u, o>>] > 0
                   \/ <<"join", u, o>> \in t.pay /\ t.pc = "done"
                /\ charged[<<o, u>>] = 0
                /\ <<o, u>> \notin t.gone}

\* An order is completed exactly when its target is reached.
Fits(status, progress, o) ==
  /\ status = "absent" => progress = 0
  /\ IF status = "completed" THEN progress = TargetOf[o] ELSE progress < TargetOf[o]

\* The tables are right about an order.
Exact(o) ==
  /\ Fits(order[o].status, order[o].progress, o)
  /\ order[o].progress = Cardinality(Stay(o))
  /\ \A u \in User : charged[<<o, u>>] <= 1

\* What a session has loaded is what the table still holds.
Current(t, o) ==
  \/ t.seen[o].status = order[o].status /\ t.seen[o].progress = order[o].progress
  \/ t.seen[o] = NoRow /\ t.mine[o] = NoRow

\* A session in the state t is right about an order, and would leave the tables
\* right if it committed.
Right(t, o) ==
  /\ Current(t, o)
  /\ Fits(Sees(t, o), Progress(t, o), o)
  /\ Progress(t, o) = Cardinality(Here(t, o))
  /\ t.pc = "mark" /\ t.at = o => t.leaver \in Here(t, o)
  /\ \A u \in User : <<o, u>> \in t.gone => charged[<<o, u>>] = 0

\* What a session knows without the tables: it writes only what it has loaded.
Local(t) ==
  /\ t.pc = "idle" => t = IdleTx
  /\ t.pc \in {"placed", "looked", "referred", "done"} => t.gone = {}
  /\ t.pc \in {"looked", "referred"} =>
       /\ Clickable(t.seen[t.at]) /\ t.mine[t.at] = t.seen[t.at]
       /\ <<"join", t.actor, t.at>> \in t.pay
       /\ \A u \in User, o \in Order : <<"join", u, o>> \in t.pay => u = t.actor /\ o = t.at
  /\ t.pc = "done" => \A u \in User, o \in Order :
       <<"join", u, o>> \in t.pay => t.seen[o] # NoRow /\ t.mine[o] # t.seen[o]
  /\ t.pc \in {"loop", "mark"} => \A o \in Order :
       t.seen[o].status = "absent" => t.seen[o] = NoRow /\ t.mine[o] = NoRow
  /\ \A o \in t.work : t.seen[o].status # "absent"
  /\ t.pc = "mark" => t.seen[t.at].status # "absent"
  /\ \A p \in t.gone : t.seen[p[1]].status # "absent"

Locals == \A s \in Session : Local(tx[s])

\* The tables and the sessions of F are right about an order.
Counted(F, o) == Exact(o) /\ \A s \in F : Right(tx[s], o)

\* A step of s that writes no table keeps s right about every order.
Moves(s) ==
  \E x : /\ tx' = [tx EXCEPT ![s] = x]
         /\ Local(x)
         /\ \A o \in Order : Right(tx[s], o) => Right(x, o)

\* A step that leaves the rows of an order alone leaves the tables right about
\* it ...
LEMMA ExactKept ==
  ASSUME NEW o \in Order, Exact(o),
         order'[o].status = order[o].status, order'[o].progress = order[o].progress,
         \A u \in User : /\ paid'[<<"join", u, o>>] = paid[<<"join", u, o>>]
                         /\ charged'[<<o, u>>] = charged[<<o, u>>]
  PROVE  Exact(o)'
<1>1. Stay(o)' = Stay(o)
  BY DEF Stay
<1> QED
  BY <1>1 DEF Exact, Fits

\* ... and a session in any state.
LEMMA RightTables ==
  ASSUME NEW o \in Order, NEW x, Right(x, o),
         order'[o].status = order[o].status, order'[o].progress = order[o].progress,
         \A u \in User : /\ paid'[<<"join", u, o>>] = paid[<<"join", u, o>>]
                         /\ charged'[<<o, u>>] = charged[<<o, u>>]
  PROVE  Right(x, o)'
<1>1. Here(x, o)' = Here(x, o)
  BY DEF Here
<1>2. Sees(x, o)' = Sees(x, o) /\ Progress(x, o)' = Progress(x, o)
  BY DEF Sees, Progress
<1>3. Current(x, o)'
  BY DEF Right, Current
<1> QED
  BY <1>1, <1>2, <1>3 DEF Right, Fits

\* A session that has not loaded an order is right about it if the tables are.
LEMMA UnloadedRight ==
  ASSUME NEW o \in Order, NEW x, Local(x), x.seen[o] = NoRow, x.mine[o] = NoRow,
         x.pc = "mark" => x.at \in Order, Exact(o)'
  PROVE  Right(x, o)'
<1>1. \A u \in User : /\ <<o, u>> \notin x.gone
                      /\ ~(<<"join", u, o>> \in x.pay /\ x.pc = "done")
  BY DEF Local, NoRow
<1>2. Here(x, o)' = Stay(o)'
  BY <1>1 DEF Here, Stay
<1>3. ~(x.pc = "mark" /\ x.at = o)
  BY DEF Local, NoRow
<1>4. /\ Current(x, o)' /\ Sees(x, o)' = order'[o].status
      /\ Progress(x, o)' = order'[o].progress
  BY DEF Current, Sees, Progress
<1>5. Fits(order'[o].status, order'[o].progress, o) /\ order'[o].progress = Cardinality(Stay(o)')
  BY DEF Exact, Fits
<1> QED
  BY <1>1, <1>2, <1>3, <1>4, <1>5 DEF Right, Fits

LEMMA IdleLocal == Local(IdleTx)
BY DEF Local, IdleTx

LEMMA MovesCounted ==
  ASSUME TypeOK, Locals, NEW s \in Session, Moves(s),
         order' = order, paid' = paid, charged' = charged
  PROVE  Locals' /\ \A F \in SUBSET Session, o \in Order : Counted(F, o) => Counted(F, o)'
<1>1. PICK x : /\ tx' = [tx EXCEPT ![s] = x] /\ Local(x)
               /\ \A o \in Order : Right(tx[s], o) => Right(x, o)
  BY DEF Moves
<1>2. tx'[s] = x /\ \A t \in Session : t # s => tx'[t] = tx[t]
  BY <1>1 DEF TypeOK
<1>3. \A t \in Session : Local(tx'[t])
  BY <1>1, <1>2 DEF Locals
<1>4. Locals'
  BY <1>3 DEF Locals, Local
<1>5. ASSUME NEW F \in SUBSET Session, NEW o \in Order, Counted(F, o)
      PROVE  Counted(F, o)'
  <2>1. Exact(o)'
    BY <1>5, ExactKept DEF Counted
  <2>2. ASSUME NEW t \in F
        PROVE  Right(tx[t], o)'
    <3>1. Right(tx'[t], o)
      BY <1>1, <1>2, <1>5, <2>2 DEF Counted
    <3> QED
      BY <3>1 DEF Right, Current, Fits, Sees, Progress, Here
  <2> QED
    BY <2>1, <2>2 DEF Counted
<1> QED
  BY <1>4, <1>5

\* A session that has loaded an order sees its own row of it.
LEMMA LoadedSees ==
  ASSUME NEW t, NEW o \in Order, Current(t, o), t.seen[o] # NoRow \/ t.mine[o] # NoRow
  PROVE  Sees(t, o) = t.mine[o].status /\ Progress(t, o) = t.mine[o].progress
BY DEF Current, Sees, Progress

\* A step that counts nobody in or out of an order.
LEMMA RightKept ==
  ASSUME NEW t, NEW x, NEW o \in Order, Right(t, o), t.pc # "done",
         x.seen[o] = t.seen[o], x.mine[o] = t.mine[o], x.gone = t.gone,
         x.pc = "done" => \A u \in User : <<"join", u, o>> \notin x.pay,
         x.pc = "mark" /\ x.at = o => x.leaver \in Here(x, o)
  PROVE  Right(x, o)
<1>1. Here(x, o) = Here(t, o)
  BY DEF Here
<1> QED
  BY <1>1 DEF Right, Current, Sees, Progress

\* Rows loaded afresh are rows of the table.
LEMMA LoadsRight ==
  ASSUME NEW s \in Session, NEW t \in Tx, NEW S \in SUBSET Order, NEW o \in Order,
         Right(t, o), t.pc = "loop",
         tx[s].seen[o].status = "absent" =>
           /\ View(s, o).status = order[o].status
           /\ View(s, o).progress = order[o].progress
           /\ t.seen[o] = NoRow /\ t.mine[o] = NoRow
  PROVE  Right(Loads(s, t, S), o)
<1> DEFINE x == Loads(s, t, S)
<1>1. x.pc = t.pc /\ x.gone = t.gone
  BY LoadsKeeps
<1>2. \/ x.seen[o] = t.seen[o] /\ x.mine[o] = t.mine[o]
      \/ /\ tx[s].seen[o].status = "absent"
         /\ x.seen[o] = View(s, o) /\ x.mine[o] = View(s, o)
  BY DEF Loads, Tx
<1> HIDE DEF x
<1>3. Here(x, o) = Here(t, o)
  BY <1>1 DEF Here
<1>4. Sees(x, o) = Sees(t, o) /\ Progress(x, o) = Progress(t, o) /\ Current(x, o)
  BY <1>2 DEF Sees, Progress, Current, Right
<1> QED
  BY <1>1, <1>3, <1>4 DEF Right, x

\* A session that is not at a click or a confirmation sees the rows it has not
\* loaded as they are.
LEMMA UnloadedView ==
  ASSUME TypeOK, Locals, NEW s \in Session, tx[s].pc \in {"idle", "loop", "mark"},
         NEW o \in Order, tx[s].seen[o].status = "absent"
  PROVE  tx[s].seen[o] = NoRow /\ tx[s].mine[o] = NoRow /\ View(s, o) = order[o]
<1>1. tx[s].seen[o] = NoRow /\ tx[s].mine[o] = NoRow
  <2>1. Local(tx[s])
    BY DEF Locals
  <2>2. CASE tx[s].pc = "idle"
    <3>1. tx[s] = IdleTx
      BY <2>1, <2>2 DEF Local
    <3> QED
      BY <3>1 DEF IdleTx
  <2>3. CASE tx[s].pc \in {"loop", "mark"}
    BY <2>1, <2>3 DEF Local
  <2> QED
    BY <2>2, <2>3
<1>2. order[o] \in Row
  BY DEF TypeOK
<1> QED
  BY <1>1, <1>2 DEF View, Merge, Row, NoRow

\* The start of a leave or of a recheck, and of a leave within a recheck.
LEMMA LoopMoves ==
  ASSUME TypeOK, Locals, NEW s \in Session, tx[s].pc \in {"idle", "loop"},
         NEW t \in Tx, NEW S \in SUBSET Order, tx' = [tx EXCEPT ![s] = Loads(s, t, S)],
         t.pc = "loop", t.work \subseteq S, t.seen = tx[s].seen, t.mine = tx[s].mine,
         t.gone = tx[s].gone, \A o \in S : Guaranteed(View(s, o))
  PROVE  Moves(s)
<1> DEFINE x == Loads(s, t, S)
<1>1. x.pc = "loop" /\ x.gone = t.gone /\ x.work = t.work
  BY LoadsKeeps
<1>2. Local(tx[s])
  BY DEF Locals
<1>3. ASSUME NEW o \in Order, Right(tx[s], o)
      PROVE  Right(x, o)
  <2>1. Right(t, o)
    <3>1. Here(t, o) = Here(tx[s], o)
      BY DEF Here
    <3> QED
      BY <1>3, <3>1 DEF Right, Current, Sees, Progress
  <2> QED
    BY <2>1, UnloadedView, LoadsRight
<1>4. ASSUME NEW o \in Order
      PROVE  \/ x.seen[o] = tx[s].seen[o] /\ x.mine[o] = tx[s].mine[o]
                /\ (o \in S => x.seen[o].status # "absent")
             \/ o \in S /\ x.seen[o] = View(s, o)
  BY DEF Loads, Tx
<1>5. \A o \in S : x.seen[o].status # "absent"
  BY <1>4 DEF Guaranteed
<1>6. \A o \in Order : tx[s].seen[o].status = "absent" =>
        tx[s].seen[o] = NoRow /\ tx[s].mine[o] = NoRow
  BY UnloadedView
<1>7. \A p \in t.gone : p[1] \in Order /\ tx[s].seen[p[1]].status # "absent"
  BY <1>2 DEF Local, Tx
<1> HIDE DEF x
<1>8. \A o \in Order : x.seen[o].status = "absent" => x.seen[o] = NoRow /\ x.mine[o] = NoRow
  BY <1>4, <1>5, <1>6
<1>9. \A p \in x.gone : x.seen[p[1]].status # "absent"
  BY <1>1, <1>4, <1>5, <1>7
<1>10. Local(x)
  BY <1>1, <1>5, <1>8, <1>9 DEF Local
<1> QED
  BY <1>3, <1>10 DEF Moves, x

LEMMA StartsMoves ==
  ASSUME TypeOK, Locals, NEW s \in Session, Starts(s)
  PROVE  Moves(s)
<1> USE OrderAssumption, IdleType
<1>0. tx \in [Session -> Tx] /\ order \in [Order -> Row]
  BY DEF TypeOK
<1>i. tx[s].pc = "idle" => tx[s] = IdleTx
  BY DEF Locals, Local
<1>1. ASSUME NEW o \in Order, PlaceOrder(s, o)
      PROVE  Moves(s)
  <2> DEFINE x == [IdleTx EXCEPT !.pc = "placed", !.actor = OwnerOf[o], !.at = o,
                                 !.mine[o].status = "queued"]
  <2>1. tx' = [tx EXCEPT ![s] = x] /\ order[o].status = "absent" /\ tx[s] = IdleTx
    BY <1>i, <1>1 DEF PlaceOrder
  <2>2. /\ x.pc = "placed" /\ x.gone = {} /\ x.work = {} /\ x.pay = {}
        /\ x.seen = [p \in Order |-> NoRow] /\ x.mine[o].status = "queued"
        /\ x.mine[o].progress = 0 /\ \A p \in Order : p # o => x.mine[p] = NoRow
    BY DEF IdleTx, NoRow
  <2> HIDE DEF x
  <2>3. Local(x)
    BY <2>2 DEF Local
  <2>4. ASSUME NEW p \in Order, Right(IdleTx, p)
        PROVE  Right(x, p)
    <3>1. Here(x, p) = Here(IdleTx, p)
      BY <2>2 DEF Here, IdleTx
    <3>2. CASE p # o
      BY <2>2, <2>4, <3>1, <3>2 DEF Right, Current, Sees, Progress, IdleTx
    <3>3. CASE p = o
      <4>1. Sees(IdleTx, o) = "absent" /\ Progress(IdleTx, o) = order[o].progress
        BY <2>1 DEF Sees, Progress, IdleTx
      <4>2. order[o].progress = 0
        BY <2>4, <3>3, <4>1 DEF Right, Fits
      <4>3. Sees(x, o) = "queued" /\ Progress(x, o) = 0 /\ Current(x, o)
        BY <2>1, <2>2, <4>2 DEF Sees, Progress, Current, NoRow
      <4>4. Fits("queued", 0, o)
        BY DEF Fits
      <4> QED
        BY <2>2, <2>4, <3>1, <3>3, <4>1, <4>2, <4>3, <4>4 DEF Right
    <3> QED
      BY <3>2, <3>3
  <2> QED
    BY <2>1, <2>3, <2>4 DEF Moves
<1>2. ASSUME NEW u \in User, NEW o \in Order, NEW B \in SUBSET BonusClaim,
             ClickLook(s, u, o, B)
      PROVE  Moves(s)
  <2> DEFINE x == [IdleTx EXCEPT !.pc = "looked", !.actor = u, !.at = o,
                                 !.seen[o] = order[o], !.mine[o] = order[o],
                                 !.pay = {<<"join", u, o>>} \cup B]
  <2>1. tx' = [tx EXCEPT ![s] = x] /\ Clickable(order[o]) /\ tx[s] = IdleTx
    BY <1>i, <1>2 DEF ClickLook
  <2>2. /\ x.pc = "looked" /\ x.actor = u /\ x.at = o /\ x.gone = {} /\ x.work = {}
        /\ x.pay = {<<"join", u, o>>} \cup B
        /\ x.seen[o] = order[o] /\ x.mine[o] = order[o]
        /\ \A p \in Order : p # o => x.seen[p] = NoRow /\ x.mine[p] = NoRow
    BY DEF IdleTx
  <2> HIDE DEF x
  <2>3. Local(x)
    <3>1. \A c \in B : c[1] = "bonus"
      BY DEF BonusClaim
    <3>2. \A v \in User, p \in Order : <<"join", v, p>> \in x.pay => v = u /\ p = o
      BY <2>2, <3>1
    <3> QED
      BY <2>1, <2>2, <3>2 DEF Local
  <2>4. ASSUME NEW p \in Order, Right(IdleTx, p)
        PROVE  Right(x, p)
    <3>1. Here(x, p) = Here(IdleTx, p)
      BY <2>2 DEF Here, IdleTx
    <3>2. Sees(x, p) = Sees(IdleTx, p) /\ Progress(x, p) = Progress(IdleTx, p) /\ Current(x, p)
      BY <2>2 DEF Sees, Progress, Current, IdleTx
    <3> QED
      BY <2>2, <2>4, <3>1, <3>2 DEF Right
  <2> QED
    BY <2>1, <2>3, <2>4 DEF Moves
<1>3. ASSUME NEW c \in Channel, NEW u \in User,
             NEW by \in {u} \cup {OwnerOf[o] : o \in Order}, LeftUpdate(s, c, u, by)
      PROVE  Moves(s)
  <2> DEFINE t == [[IdleTx EXCEPT !.actor = by]
                     EXCEPT !.pc = "loop", !.leaver = u, !.work = Covered(s, c)]
  <2>0. by \in User /\ Covered(s, c) \in SUBSET Order
    BY DEF Covered
  <2>1. t \in Tx
    BY <2>0 DEF Tx
  <2>2. /\ t.pc = "loop" /\ t.work = Covered(s, c) /\ t.seen = IdleTx.seen
        /\ t.mine = IdleTx.mine /\ t.gone = IdleTx.gone
    BY DEF IdleTx
  <2>3. tx' = [tx EXCEPT ![s] = Loads(s, t, Covered(s, c))] /\ tx[s].pc = "idle"
    BY <1>3 DEF LeftUpdate, Handles
  <2>4. \A o \in Covered(s, c) : Guaranteed(View(s, o))
    BY DEF Covered
  <2> HIDE DEF t
  <2> QED
    BY <1>i, <2>0, <2>1, <2>2, <2>3, <2>4, LoopMoves
<1>4. ASSUME RecheckStart(s)
      PROVE  Moves(s)
  <2> DEFINE live == {o \in Order : Guaranteed(order[o])}
             t == [IdleTx EXCEPT !.pc = "loop", !.rounds = live]
  <2>1. t \in Tx
    BY DEF Tx, IdleTx
  <2>2. /\ t.pc = "loop" /\ t.work = {} /\ t.seen = IdleTx.seen
        /\ t.mine = IdleTx.mine /\ t.gone = IdleTx.gone
    BY DEF IdleTx
  <2>3. tx' = [tx EXCEPT ![s] = Loads(s, t, live)] /\ tx[s].pc = "idle"
    BY <1>4 DEF RecheckStart
  <2>4. \A o \in live : Guaranteed(View(s, o))
    <3>1. \A o \in Order : tx[s].seen[o].status = "absent"
      BY <1>i, <2>3 DEF IdleTx, NoRow
    <3> QED
      BY <2>3, <3>1, UnloadedView
  <2> HIDE DEF t
  <2> QED
    BY <1>i, <2>1, <2>2, <2>3, <2>4, LoopMoves
<1> QED
  BY <1>1, <1>2, <1>3, <1>4 DEF Starts

\* One participant more, or one less.
LEMMA CountOne ==
  ASSUME NEW H \in SUBSET User, NEW u \in User
  PROVE  /\ u \notin H => Cardinality(H \cup {u}) = Cardinality(H) + 1
         /\ u \in H => Cardinality(H \ {u}) = Cardinality(H) - 1 /\ Cardinality(H) > 0
         /\ Cardinality(H) \in Nat
<1>1. IsFiniteSet(H)
  BY FiniteAssumption, FS_Subset
<1>2. Cardinality(H) \in Nat
  BY <1>1, FS_CardinalityType
<1>3. u \in H => Cardinality(H) # 0
  BY <1>1, FS_EmptySet
<1>4. u \notin H => Cardinality(H \cup {u}) = Cardinality(H) + 1
  BY <1>1, FS_AddElement
<1>5. u \in H => Cardinality(H \ {u}) = Cardinality(H) - 1
  BY <1>1, FS_RemoveElement
<1> QED
  BY <1>2, <1>3, <1>4, <1>5

\* Whoever is charged for leaving an order has joined it.
LEMMA ChargedJoined ==
  ASSUME ChargedLeft, NEW o \in Order, NEW u \in User, charged[<<o, u>>] > 0
  PROVE  paid[<<"join", u, o>>] > 0
<1> DEFINE p == <<o, u>>
<1>1. /\ p \in Order \X User /\ charged[p] > 0
      /\ <<"join", p[2], p[1]>> = <<"join", u, o>>
  OBVIOUS
<1> HIDE DEF p
<1>2. paid[<<"join", p[2], p[1]>>] > 0
  BY <1>1 DEF ChargedLeft
<1> QED
  BY <1>1, <1>2

LEMMA ProceedMoves ==
  ASSUME TypeOK, LockDiscipline, History, Locals,
         NEW s \in Session, Proceed(s), ~Commit(s)
  PROVE  Moves(s)
<1> USE OrderAssumption
<1> DEFINE t == tx[s]
           o == t.at
<1>0. t \in Tx /\ WorksOn(s) /\ HoldsClaims(s) /\ Local(t) /\ Leaving(t)
  BY DEF TypeOK, LockDiscipline, Disciplined, Locals, History, Past
<1>x. /\ tx \in [Session -> Tx] /\ order \in [Order -> Row]
      /\ charged \in [Order \X User -> Nat]
  BY DEF TypeOK
<1>m. t.mine \in [Order -> Row] /\ t.seen \in [Order -> Row]
  BY <1>0 DEF Tx
\* The steps that neither change a row nor mark a participation.
<1>k. ASSUME NEW x, tx' = [tx EXCEPT ![s] = x], t.pc # "done",
             x.seen = t.seen, x.mine = t.mine, x.gone = t.gone, Local(x),
             x.pc = "done" => \A u \in User, p \in Order : <<"join", u, p>> \notin x.pay,
             x.pc = "mark" => x.leaver \in Here(x, x.at)
      PROVE  Moves(s)
  BY <1>k, RightKept DEF Moves
<1>1. ASSUME NEW C \in SUBSET CommissionClaim, PostOrder(s, C)
      PROVE  Moves(s)
  <2> DEFINE x == [t EXCEPT !.pc = "done", !.pay = C, !.mine[o].status = "in_progress"]
  <2>0. /\ o \in Order /\ t.pc = "placed" /\ t.seen[o] = NoRow /\ t.mine[o].status = "queued"
    BY <1>0, <1>1 DEF PostOrder, WorksOn
  <2>1. tx' = [tx EXCEPT ![s] = x]
    BY <1>0, <1>x, <1>1 DEF PostOrder, Tx
  <2>2. /\ x.pc = "done" /\ x.pay = C /\ x.seen = t.seen /\ x.gone = t.gone
        /\ x.work = t.work /\ x.mine[o].status = "in_progress"
        /\ x.mine[o].progress = t.mine[o].progress
        /\ \A p \in Order : p # o => x.mine[p] = t.mine[p]
    <3>1. t.mine[o] \in Row
      BY <1>m, <2>0
    <3> QED
      BY <1>0, <1>m, <2>0, <3>1 DEF Tx, Row
  <2>3. \A u \in User, p \in Order : <<"join", u, p>> \notin x.pay
    BY <2>2 DEF CommissionClaim
  <2> HIDE DEF x
  <2>4. Local(x)
    BY <1>0, <2>0, <2>2, <2>3 DEF Local
  <2>5. ASSUME NEW p \in Order, Right(t, p)
        PROVE  Right(x, p)
    <3>1. CASE p # o
      BY <2>0, <2>2, <2>3, <2>5, <3>1, RightKept
    <3>2. CASE p = o
      <4>1. Here(x, o) = Here(t, o)
        BY <2>0, <2>2, <2>3 DEF Here
      <4>2. Right(t, o) /\ Current(t, o) /\ Sees(t, o) = "queued"
        BY <2>0, <2>5, <3>2 DEF Right, Sees, NoRow
      <4>3. Current(x, o) /\ Sees(x, o) = "in_progress" /\ Progress(x, o) = Progress(t, o)
        BY <2>0, <2>2, <4>2 DEF Current, Sees, Progress, NoRow
      <4> QED
        BY <2>2, <3>2, <4>1, <4>2, <4>3 DEF Right, Fits
    <3> QED
      BY <3>1, <3>2
  <2> QED
    BY <2>1, <2>4, <2>5 DEF Moves
<1>2. ASSUME NEW C \in SUBSET CommissionClaim, PostFails(s, C)
      PROVE  Moves(s)
  <2> DEFINE x == [t EXCEPT !.pc = "done", !.pay = C]
  <2>1. tx' = [tx EXCEPT ![s] = x] /\ t.pc = "placed"
    BY <1>0, <1>x, <1>2 DEF PostFails, Tx
  <2>2. /\ x.pc = "done" /\ x.pay = C /\ x.seen = t.seen /\ x.gone = t.gone
        /\ x.work = t.work /\ x.mine = t.mine
    BY <1>0 DEF Tx
  <2>3. \A u \in User, p \in Order : <<"join", u, p>> \notin x.pay
    BY <2>2 DEF CommissionClaim
  <2> HIDE DEF x
  <2>4. Local(x)
    BY <1>0, <2>1, <2>2, <2>3 DEF Local
  <2> QED
    BY <1>k, <2>1, <2>2, <2>3, <2>4
<1>3. ASSUME NEW B \in SUBSET BonusClaim, ClickReferral(s, B)
      PROVE  Moves(s)
  <2> DEFINE r == <<"referral", t.actor, ReferrerOf[t.actor]>>
             x == [t EXCEPT !.pc = "referred", !.pay = @ \cup {r} \cup B]
  <2>1. tx' = [tx EXCEPT ![s] = x] /\ t.pc = "looked"
    BY <1>0, <1>x, <1>3 DEF ClickReferral, Tx
  <2>2. /\ x.pc = "referred" /\ x.pay = t.pay \cup {r} \cup B /\ x.seen = t.seen
        /\ x.gone = t.gone /\ x.work = t.work /\ x.mine = t.mine /\ x.at = o
        /\ x.actor = t.actor
    BY <1>0 DEF Tx
  <2>3. r[1] = "referral" /\ \A c \in B : c[1] = "bonus"
    BY DEF BonusClaim
  <2> HIDE DEF x, r
  <2>4. \A u \in User, p \in Order : <<"join", u, p>> \in x.pay => <<"join", u, p>> \in t.pay
    BY <2>2, <2>3
  <2>5. Local(x)
    BY <1>0, <2>1, <2>2, <2>4 DEF Local
  <2> QED
    BY <1>k, <2>1, <2>2, <2>5
<1>5. ASSUME ClickNoReferral(s)
      PROVE  Moves(s)
  <2> DEFINE x == [t EXCEPT !.pc = "referred"]
  <2>1. tx' = [tx EXCEPT ![s] = x] /\ t.pc = "looked"
    BY <1>0, <1>x, <1>5 DEF ClickNoReferral, Tx
  <2>2. /\ x.pc = "referred" /\ x.pay = t.pay /\ x.seen = t.seen
        /\ x.gone = t.gone /\ x.work = t.work /\ x.mine = t.mine /\ x.at = o
        /\ x.actor = t.actor
    BY <1>0 DEF Tx
  <2> HIDE DEF x
  <2>3. Local(x)
    BY <1>0, <2>1, <2>2 DEF Local
  <2> QED
    BY <1>k, <2>1, <2>2, <2>3
\* A click counts its user in, who was not counted yet.
<1>c. ASSUME NEW x, tx' = [tx EXCEPT ![s] = x], t.pc = "referred", x.pc = "done",
             x.seen = t.seen, x.gone = t.gone, x.work = t.work, t.pay \subseteq x.pay,
             \A u \in User, p \in Order : <<"join", u, p>> \in x.pay => <<"join", u, p>> \in t.pay,
             \A p \in Order : p # o => x.mine[p] = t.mine[p],
             x.mine[o].progress = t.mine[o].progress + 1,
             \/ x.mine[o].status = t.mine[o].status /\ ~Fills(s)
             \/ x.mine[o].status = "completed" /\ Fills(s)
      PROVE  Moves(s)
  <2>0. o \in Order /\ t.actor \in User
    BY <1>0, <1>c DEF WorksOn
  <2>a. /\ Clickable(t.seen[o]) /\ t.mine[o] = t.seen[o] /\ <<"join", t.actor, o>> \in t.pay
        /\ \A u \in User, p \in Order : <<"join", u, p>> \in t.pay => u = t.actor /\ p = o
    BY <1>0, <1>c DEF Local
  <2>b. t.seen[o] # NoRow /\ x.mine[o] # t.seen[o]
    <3>1. t.seen[o].progress \in Nat
      BY <1>m, <2>0 DEF Row
    <3> QED
      BY <1>c, <2>a, <3>1 DEF Clickable, NoRow
  <2>1. Local(x)
    BY <1>0, <1>c, <2>0, <2>a, <2>b DEF Local
  <2>2. ASSUME NEW p \in Order, p # o, Right(t, p)
        PROVE  Right(x, p)
    <3>1. \A u \in User : <<"join", u, p>> \notin x.pay
      BY <1>c, <2>2, <2>a
    <3> QED
      BY <1>c, <2>2, <3>1, RightKept
  <2>3. ASSUME Right(t, o)
        PROVE  Right(x, o)
    <3>a. paid[<<"join", t.actor, o>>] = 0
      BY <1>0, <2>a DEF HoldsClaims
    <3>1. t.actor \notin Here(t, o)
      BY <1>c, <3>a DEF Here
    <3>2. Here(x, o) = Here(t, o) \cup {t.actor}
      <4>2. charged[<<o, t.actor>>] = 0
        <5>1. ~(charged[<<o, t.actor>>] > 0)
          BY <2>0, <3>a, ChargedJoined DEF History
        <5>2. charged[<<o, t.actor>>] \in Nat
          BY <1>x, <2>0
        <5> QED
          BY <5>1, <5>2
      <4>3. <<o, t.actor>> \notin t.gone
        BY <1>0, <3>a DEF Leaving
      <4>4. \A u \in User : <<"join", u, o>> \in x.pay <=> u = t.actor
        BY <1>c, <2>0, <2>a
      <4> QED
        BY <1>c, <2>0, <4>2, <4>3, <4>4 DEF Here
    <3>3. /\ Cardinality(Here(x, o)) = Cardinality(Here(t, o)) + 1
          /\ Cardinality(Here(t, o)) \in Nat
      <4>1. Here(t, o) \in SUBSET User
        BY DEF Here
      <4> QED
        BY <2>0, <3>1, <3>2, <4>1, CountOne
    <3>4. /\ Right(t, o) /\ t.seen[o] # NoRow /\ t.seen[o].progress \in Nat
          /\ t.seen[o].status \in {"in_progress", "refilling"}
      BY <1>m, <2>0, <2>3, <2>a DEF Clickable, NoRow, Row
    <3>5. Sees(t, o) = t.mine[o].status /\ Progress(t, o) = t.mine[o].progress
      BY <2>0, <3>4, LoadedSees DEF Right
    <3>6. /\ Current(x, o) /\ Progress(x, o) = t.mine[o].progress + 1
          /\ Sees(x, o) = x.mine[o].status
      BY <1>c, <2>a, <3>4 DEF Right, Current, Progress, Sees
    <3>7. Fits(Sees(x, o), Progress(x, o), o)
      <4>1. TargetOf[o] \in Nat /\ t.mine[o].progress \in Nat /\ t.mine[o].progress < TargetOf[o]
        BY <2>0, <2>a, <3>4, <3>5 DEF Right, Fits
      <4>2. Fills(s) <=> t.mine[o].progress + 1 >= TargetOf[o]
        BY DEF Fills
      <4>3. CASE x.mine[o].status = t.mine[o].status /\ ~Fills(s)
        BY <2>a, <3>4, <3>6, <4>1, <4>2, <4>3 DEF Fits
      <4>4. CASE x.mine[o].status = "completed" /\ Fills(s)
        BY <3>6, <4>1, <4>2, <4>4 DEF Fits
      <4> QED
        BY <1>c, <4>3, <4>4
    <3>8. x.gone = {}
      BY <1>0, <1>c DEF Local
    <3> QED
      BY <1>c, <3>3, <3>4, <3>5, <3>6, <3>7, <3>8 DEF Right
  <2> QED
    BY <1>c, <2>1, <2>2, <2>3 DEF Moves
<1>4. ASSUME NEW B \in SUBSET BonusClaim, ClickComplete(s, B)
      PROVE  Moves(s)
  <2> DEFINE full == [status |-> "completed", progress |-> t.mine[o].progress + 1,
                      guarantee |-> "live"]
             x == [t EXCEPT !.pc = "done", !.pay = @ \cup B, !.mine[o] = full]
  <2>0. o \in Order /\ t.pc = "referred" /\ Fills(s)
    BY <1>0, <1>4 DEF ClickComplete, WorksOn
  <2>1. tx' = [tx EXCEPT ![s] = x]
    BY <1>0, <1>x, <1>4 DEF ClickComplete, Tx
  <2>2. /\ x.pc = "done" /\ x.seen = t.seen /\ x.gone = t.gone /\ x.work = t.work
        /\ x.pay = t.pay \cup B /\ x.mine[o] = full
        /\ \A p \in Order : p # o => x.mine[p] = t.mine[p]
    BY <1>0, <1>m, <2>0 DEF Tx
  <2>3. x.mine[o].status = "completed" /\ x.mine[o].progress = t.mine[o].progress + 1
    BY <2>2
  <2>4. \A c \in B : c[1] = "bonus"
    BY DEF BonusClaim
  <2> HIDE DEF x, full
  <2>5. \A u \in User, p \in Order : <<"join", u, p>> \in x.pay => <<"join", u, p>> \in t.pay
    BY <2>2, <2>4
  <2> QED
    BY <1>c, <2>0, <2>1, <2>2, <2>3, <2>5
<1>6. ASSUME ClickCount(s)
      PROVE  Moves(s)
  <2> DEFINE x == [t EXCEPT !.pc = "done", !.mine[o].progress = @ + 1]
  <2>0. o \in Order /\ t.pc = "referred" /\ ~Fills(s)
    BY <1>0, <1>6 DEF ClickCount, WorksOn
  <2>1. tx' = [tx EXCEPT ![s] = x]
    BY <1>0, <1>x, <1>6 DEF ClickCount, Tx
  <2>2. /\ x.pc = "done" /\ x.seen = t.seen /\ x.gone = t.gone /\ x.work = t.work
        /\ x.pay = t.pay
        /\ \A p \in Order : p # o => x.mine[p] = t.mine[p]
    BY <1>0, <1>m, <2>0 DEF Tx
  <2>3. x.mine[o].status = t.mine[o].status /\ x.mine[o].progress = t.mine[o].progress + 1
    <3>1. t.mine[o] \in Row
      BY <1>m, <2>0
    <3> QED
      BY <1>0, <1>m, <2>0, <3>1 DEF Tx, Row
  <2> HIDE DEF x
  <2> QED
    BY <1>c, <2>0, <2>1, <2>2, <2>3
<1>7. ASSUME LeftMark(s)
      PROVE  Moves(s)
  <2> DEFINE row == Refilled(t.mine[o])
             x == [t EXCEPT !.pc = "loop", !.gone = @ \cup {<<o, t.leaver>>}, !.mine[o] = row]
  <2>0. /\ o \in Order /\ t.leaver \in User /\ t.pc = "mark"
        /\ t.seen[o].status # "absent"
    BY <1>0, <1>7 DEF LeftMark, WorksOn, Local
  <2>1. tx' = [tx EXCEPT ![s] = x]
    BY <1>0, <1>x, <1>7 DEF LeftMark, Tx
  <2>2. /\ x.pc = "loop" /\ x.seen = t.seen /\ x.gone = t.gone \cup {<<o, t.leaver>>}
        /\ x.work = t.work /\ x.mine[o] = row
        /\ \A p \in Order : p # o => x.mine[p] = t.mine[p]
    BY <1>0, <1>m, <2>0 DEF Tx
  <2>3. /\ row.status = "refilling" /\ t.mine[o].progress \in Nat
        /\ t.mine[o].progress > 0 => row.progress = t.mine[o].progress - 1
    <3>1. t.mine[o] \in Row
      BY <1>m, <2>0
    <3> QED
      BY <3>1 DEF Row, Refilled
  <2> HIDE DEF x, row
  <2>4. Local(x)
    <3>2. \A p \in x.gone : x.seen[p[1]].status # "absent"
      BY <1>0, <2>0, <2>2 DEF Local
    <3>3. \A p \in Order : x.seen[p].status = "absent" => x.seen[p] = NoRow /\ x.mine[p] = NoRow
      BY <1>0, <2>0, <2>2 DEF Local
    <3>4. \A p \in x.work : x.seen[p].status # "absent"
      BY <1>0, <2>2 DEF Local
    <3> QED
      BY <2>2, <3>2, <3>3, <3>4 DEF Local
  <2>5. ASSUME NEW p \in Order, p # o, Right(t, p)
        PROVE  Right(x, p)
    <3>1. \A u \in User : <<p, u>> \in x.gone <=> <<p, u>> \in t.gone
      BY <2>2, <2>5
    <3>2. Here(x, p) = Here(t, p)
      BY <2>0, <2>2, <3>1 DEF Here
    <3> QED
      BY <2>2, <2>5, <3>1, <3>2 DEF Right, Current, Sees, Progress
  <2>6. ASSUME Right(t, o)
        PROVE  Right(x, o)
    <3>0. t.leaver \in Here(t, o)
      BY <2>0, <2>6 DEF Right
    <3>1. Here(x, o) = Here(t, o) \ {t.leaver}
      BY <2>0, <2>2 DEF Here
    <3>2. /\ Cardinality(Here(x, o)) = Cardinality(Here(t, o)) - 1
          /\ Cardinality(Here(t, o)) \in Nat /\ Cardinality(Here(t, o)) > 0
      <4>1. Here(t, o) \in SUBSET User
        BY DEF Here
      <4> QED
        BY <2>0, <3>0, <3>1, <4>1, CountOne
    <3>3. Right(t, o) /\ t.seen[o] # NoRow
      BY <2>0, <2>6 DEF NoRow
    <3>4. Progress(t, o) = t.mine[o].progress
      BY <2>0, <3>3, LoadedSees DEF Right
    <3>5. row.progress = t.mine[o].progress - 1
      BY <2>3, <3>2, <3>3, <3>4 DEF Right
    <3>6. Current(x, o) /\ Sees(x, o) = "refilling" /\ Progress(x, o) = row.progress
      BY <2>2, <2>3, <3>3 DEF Right, Current, Sees, Progress
    <3>7. Fits(Sees(x, o), Progress(x, o), o)
      <4>1. TargetOf[o] \in Nat /\ t.mine[o].progress <= TargetOf[o]
        BY <2>0, <2>3, <3>3, <3>4 DEF Right, Fits
      <4> QED
        BY <2>3, <3>5, <3>6, <4>1 DEF Fits
    <3>8. \A u \in User : <<o, u>> \in x.gone => charged[<<o, u>>] = 0
      BY <2>2, <2>6, <3>0 DEF Right, Here
    <3> QED
      BY <2>2, <3>2, <3>3, <3>4, <3>5, <3>6, <3>7, <3>8 DEF Right
  <2> QED
    BY <2>1, <2>4, <2>5, <2>6 DEF Moves
<1>8. ASSUME NEW p \in Order, LeftFound(s, p)
      PROVE  Moves(s)
  <2> DEFINE x == [t EXCEPT !.pc = "mark", !.at = p, !.work = @ \ {p}]
  <2>1. /\ tx' = [tx EXCEPT ![s] = x] /\ t.pc = "loop" /\ p \in t.work
        /\ OpenPart(s, p, t.leaver)
    BY <1>0, <1>x, <1>8 DEF LeftFound, Tx
  <2>2. /\ x.pc = "mark" /\ x.at = p /\ x.work = t.work \ {p} /\ x.leaver = t.leaver
        /\ x.seen = t.seen /\ x.mine = t.mine /\ x.gone = t.gone
    BY <1>0 DEF Tx
  <2> HIDE DEF x
  <2>3. t.leaver \in Here(x, p)
    BY <1>0, <2>1, <2>2 DEF Here, OpenPart, WorksOn
  <2>4. Local(x)
    BY <1>0, <2>1, <2>2 DEF Local
  <2> QED
    BY <1>k, <2>1, <2>2, <2>3, <2>4
\* The other steps of a leave and of a recheck.
<1>l. ASSUME NEW x, tx' = [tx EXCEPT ![s] = x], t.pc = "loop", x.pc = "loop",
             x.seen = t.seen, x.mine = t.mine, x.gone = t.gone, x.work \subseteq t.work
      PROVE  Moves(s)
  <2>1. Local(x)
    BY <1>0, <1>l DEF Local
  <2> QED
    BY <1>k, <1>l, <2>1
<1>9. ASSUME NEW p \in Order, LeftSkip(s, p)
      PROVE  Moves(s)
  <2> DEFINE x == [t EXCEPT !.work = @ \ {p}]
  <2>1. tx' = [tx EXCEPT ![s] = x] /\ t.pc = "loop"
    BY <1>0, <1>x, <1>9 DEF LeftSkip, Tx
  <2>2. x.pc = t.pc /\ x.seen = t.seen /\ x.mine = t.mine /\ x.gone = t.gone
        /\ x.work \subseteq t.work
    BY <1>0 DEF Tx
  <2> HIDE DEF x
  <2> QED
    BY <1>l, <2>1, <2>2
<1>10. ASSUME NEW p \in Order, NEW T \in SUBSET User, RecheckOrder(s, p, T)
       PROVE  Moves(s)
  <2> DEFINE n == t.checked + Cardinality(T)
             x == [t EXCEPT !.at = p, !.rounds = @ \ {p}, !.checks = T, !.checked = n]
  <2>1. tx' = [tx EXCEPT ![s] = x] /\ t.pc = "loop"
    BY <1>0, <1>x, <1>10 DEF RecheckOrder, Between, Tx
  <2>2. x.pc = t.pc /\ x.seen = t.seen /\ x.mine = t.mine /\ x.gone = t.gone
        /\ x.work \subseteq t.work
    BY <1>0 DEF Tx
  <2> HIDE DEF x
  <2> QED
    BY <1>l, <2>1, <2>2
<1>11. ASSUME NEW u \in User, RecheckStays(s, u)
       PROVE  Moves(s)
  <2> DEFINE x == [t EXCEPT !.checks = @ \ {u}]
  <2>1. tx' = [tx EXCEPT ![s] = x] /\ t.pc = "loop"
    BY <1>0, <1>x, <1>11 DEF RecheckStays, Between, Tx
  <2>2. x.pc = t.pc /\ x.seen = t.seen /\ x.mine = t.mine /\ x.gone = t.gone
        /\ x.work \subseteq t.work
    BY <1>0 DEF Tx
  <2> HIDE DEF x
  <2> QED
    BY <1>l, <2>1, <2>2
<1>12. ASSUME NEW u \in User, RecheckGone(s, u)
       PROVE  Moves(s)
  <2> DEFINE c == ChannelOf[o]
             left == [[t EXCEPT !.checks = @ \ {u}]
                       EXCEPT !.pc = "loop", !.leaver = u, !.work = Covered(s, c)]
  <2>1. left \in Tx /\ Covered(s, c) \in SUBSET Order
    BY <1>0 DEF Tx, Covered
  <2>2. tx' = [tx EXCEPT ![s] = Loads(s, left, Covered(s, c))] /\ t.pc = "loop"
    BY <1>12 DEF RecheckGone, Between, Handles
  <2>3. /\ left.pc = "loop" /\ left.seen = t.seen /\ left.mine = t.mine /\ left.gone = t.gone
        /\ left.work = Covered(s, c)
    BY <1>0 DEF Tx
  <2>4. \A p \in Covered(s, c) : Guaranteed(View(s, p))
    BY DEF Covered
  <2> HIDE DEF left
  <2> QED
    BY <2>1, <2>2, <2>3, <2>4, LoopMoves
<1> QED
  BY <1>1, <1>2, <1>3, <1>4, <1>5, <1>6, <1>7, <1>8, <1>9, <1>10, <1>11, <1>12 DEF Proceed

\* Only a commit writes the tables of orders, claims and participations.
LEMMA StartsTables ==
  ASSUME NEW s \in Session, Starts(s)
  PROVE  order' = order /\ paid' = paid /\ charged' = charged
BY DEF Starts, PlaceOrder, ClickLook, LeftUpdate, RecheckStart

LEMMA ProceedTables ==
  ASSUME NEW s \in Session, Proceed(s), ~Commit(s)
  PROVE  order' = order /\ paid' = paid /\ charged' = charged
BY DEF Proceed, PostOrder, PostFails, ClickReferral, ClickComplete, ClickNoReferral,
       ClickCount, LeftFound, LeftSkip, LeftMark, RecheckOrder, RecheckStays, RecheckGone

\* A commit keeps right the tables and those who have not loaded the orders it
\* has written, if the session that commits was right about them.
LEMMA CommitCounted ==
  ASSUME TypeOK, LockDiscipline, Locals, NEW s \in Session, Commit(s), NEW o \in Order,
         NEW F \in SUBSET Session, NEW G \in SUBSET F, s \notin G, Counted(F, o),
         o \in Writes(s) => s \in F /\ \A r \in G : tx[r].seen[o] = NoRow
  PROVE  Counted(G, o)'
<1> DEFINE t == tx[s]
<1>0. t \in Tx /\ Local(t) /\ WorksOn(s) /\ HoldsOrders(s)
  BY DEF TypeOK, LockDiscipline, Disciplined, Locals
<1>1. /\ \A r \in G : tx'[r] = tx[r] /\ tx[r] \in Tx /\ Local(tx[r])
      /\ order' = [p \in Order |-> View(s, p)]
      /\ \A u \in User : paid'[<<"join", u, o>>] =
           IF <<"join", u, o>> \in t.pay THEN paid[<<"join", u, o>>] + 1
                                         ELSE paid[<<"join", u, o>>]
      /\ \A u \in User : charged'[<<o, u>>] =
           IF <<o, u>> \in t.gone THEN charged[<<o, u>>] + 1 ELSE charged[<<o, u>>]
  BY ClaimType DEF Commit, Ends, TypeOK, Locals
<1>2. t.pc = "done" \/ (t.pc = "loop" /\ t.pay = {})
  BY <1>0 DEF Commit, Finished, WorksOn
<1>3. CASE o \in Writes(s)
  <2>1. Right(t, o) /\ Exact(o)
    BY <1>3 DEF Counted
  <2>2. order'[o].status = Sees(t, o) /\ order'[o].progress = Progress(t, o)
    BY <1>1 DEF View, Merge, Sees, Progress
  <2>3. Stay(o)' = Here(t, o)
    <3> SUFFICES ASSUME NEW u \in User
                 PROVE  /\ paid'[<<"join", u, o>>] > 0 <=>
                              \/ paid[<<"join", u, o>>] > 0
                              \/ <<"join", u, o>> \in t.pay /\ t.pc = "done"
                        /\ charged'[<<o, u>>] = 0 <=> charged[<<o, u>>] = 0 /\ <<o, u>> \notin t.gone
      BY DEF Stay, Here
    <3>1. paid[<<"join", u, o>>] \in Nat /\ charged[<<o, u>>] \in Nat
      BY ClaimType DEF TypeOK
    <3> QED
      BY <1>1, <1>2, <3>1
  <2>4. ASSUME NEW u \in User
        PROVE  charged'[<<o, u>>] <= 1
    <3>1. <<o, u>> \in t.gone => charged[<<o, u>>] = 0
      BY <2>1 DEF Right
    <3>2. charged[<<o, u>>] <= 1
      BY <2>1 DEF Exact
    <3> QED
      BY <1>1, <3>1, <3>2
  <2>5. Exact(o)'
    BY <2>1, <2>2, <2>3, <2>4 DEF Exact, Right, Fits
  <2>6. ASSUME NEW r \in G
        PROVE  Right(tx[r], o)'
    <3>1. tx[r].seen[o] = NoRow
      BY <1>3
    <3>2. tx[r].mine[o] = NoRow
      <4>1. lock[o] = s /\ r # s
        BY <1>0, <1>3 DEF HoldsOrders
      <4>2. HoldsOrders(r)
        BY DEF LockDiscipline, Disciplined
      <4> QED
        BY <3>1, <4>1, <4>2 DEF HoldsOrders, Writes
    <3>3. tx[r].pc = "mark" => tx[r].at \in Order
      BY DEF LockDiscipline, Disciplined, WorksOn
    <3> DEFINE x == tx'[r]
    <3>4. /\ Local(x) /\ x.seen[o] = NoRow /\ x.mine[o] = NoRow
          /\ x.pc = "mark" => x.at \in Order
      BY <1>1, <3>1, <3>2, <3>3
    <3> QED
      BY <2>5, <3>4, UnloadedRight DEF Right, Current, Sees, Progress, Here
  <2> QED
    BY <2>5, <2>6 DEF Counted
<1>4. CASE o \notin Writes(s)
  <2>1. t.mine[o] = t.seen[o] /\ \A u \in User : <<o, u>> \notin t.gone
    BY <1>4 DEF Writes
  <2>2. order'[o] = order[o]
    <3>1. order[o] \in Row
      BY DEF TypeOK
    <3> QED
      BY <1>1, <2>1, <3>1, MergeSame DEF View
  <2>3. ASSUME NEW u \in User
        PROVE  /\ paid'[<<"join", u, o>>] = paid[<<"join", u, o>>]
               /\ charged'[<<o, u>>] = charged[<<o, u>>]
    <3>1. <<"join", u, o>> \notin t.pay
      BY <1>0, <1>2, <2>1 DEF Local
    <3> QED
      BY <1>1, <2>1, <3>1
  <2>4. Exact(o)'
    BY <2>2, <2>3, ExactKept DEF Counted
  <2>5. ASSUME NEW r \in G
        PROVE  Right(tx[r], o)'
    <3> DEFINE x == tx'[r]
    <3>1. Right(x, o)
      BY <1>1 DEF Counted
    <3> QED
      BY <2>2, <2>3, <3>1, RightTables DEF Right, Current, Sees, Progress, Here, Fits
  <2> QED
    BY <2>4, <2>5 DEF Counted
<1> QED
  BY <1>3, <1>4

\* The environment and a session that is rolled back write no counter.
LEMMA RestCounted ==
  ASSUME TypeOK, Locals, Environment \/ UNCHANGED vars \/ \E s \in Session : Abort(s),
         NEW o \in Order, NEW F \in SUBSET Session, Counted(F, o)
  PROVE  \A G \in SUBSET F : (\A r \in G : tx'[r] = tx[r]) => Counted(G, o)'
<1>1. paid' = paid /\ charged' = charged
  BY DEF Environment, JoinChannel, LeaveChannel, RestrictMember, DropPendingUpdates,
         GuaranteeEnds, vars, Abort
<1>2. order'[o].status = order[o].status /\ order'[o].progress = order[o].progress
  <2>1. ASSUME NEW p \in Order, GuaranteeEnds(p)
        PROVE  order'[o].status = order[o].status /\ order'[o].progress = order[o].progress
    BY <2>1 DEF GuaranteeEnds, TypeOK, Row
  <2>2. \/ order' = order
        \/ \E p \in Order : GuaranteeEnds(p)
    BY DEF Environment, JoinChannel, LeaveChannel, RestrictMember, DropPendingUpdates, vars, Abort
  <2> QED
    BY <2>1, <2>2
<1>3. Exact(o)'
  BY <1>1, <1>2, ExactKept DEF Counted
<1>4. ASSUME NEW r \in F, tx'[r] = tx[r]
      PROVE  Right(tx[r], o)'
  <2> DEFINE x == tx'[r]
  <2>1. Right(x, o)
    BY <1>4 DEF Counted
  <2> QED
    BY <1>1, <1>2, <2>1, RightTables DEF Right, Current, Sees, Progress, Here, Fits
<1> QED
  BY <1>3, <1>4 DEF Counted

\* Who is idle or stays as it was after a step that ends a session or none.
LEMMA EndsLocals ==
  ASSUME TypeOK, Locals, Environment \/ UNCHANGED vars \/ \E s \in Session : Ends(s)
  PROVE  Locals'
<1>1. \A r \in Session : tx'[r] = tx[r] \/ tx'[r] = IdleTx
  BY DEF Environment, JoinChannel, LeaveChannel, RestrictMember, DropPendingUpdates,
         GuaranteeEnds, vars, Ends, TypeOK
<1>2. \A r \in Session : Local(tx'[r])
  BY <1>1, IdleLocal DEF Locals
<1> QED
  BY <1>2 DEF Locals, Local

LEMMA InductiveLocals == Spec => [](TypeOK /\ LockDiscipline /\ History /\ Locals)
<1>1. Init => Locals
  BY IdleLocal DEF Init, Locals
<1>2. TypeOK /\ LockDiscipline /\ History /\ Locals /\ [Next]_vars => Locals'
  <2> SUFFICES ASSUME TypeOK, LockDiscipline, History, Locals, [Next]_vars
               PROVE  Locals'
    OBVIOUS
  <2>1. ASSUME NEW s \in Session, Starts(s)
        PROVE  Locals'
    BY <2>1, StartsMoves, StartsTables, MovesCounted
  <2>2. ASSUME NEW s \in Session, Proceed(s), ~Commit(s)
        PROVE  Locals'
    BY <2>2, ProceedMoves, ProceedTables, MovesCounted
  <2>3. ASSUME NEW s \in Session, Commit(s) \/ Abort(s)
        PROVE  Locals'
    BY <2>3, EndsLocals DEF Commit, Abort
  <2> QED
    BY <2>1, <2>2, <2>3, EndsLocals DEF Next, Step
<1> QED
  BY <1>1, <1>2, InductiveHistory, PTL DEF Spec

\* Any step: the sessions that run on and are right about an order after it, if
\* whoever writes the order was, and nobody else of them has it loaded.
LEMMA CountedStep ==
  ASSUME TypeOK, LockDiscipline, History, Locals, Locals', [Next]_vars, NEW o \in Order,
         NEW F \in SUBSET Session, NEW G \in SUBSET Session, Counted(F, o),
         \A r \in G : r \in F \/ tx'[r].pc = "idle",
         \A s \in Session : Commit(s) /\ o \in Writes(s) =>
           s \in F /\ \A r \in G \ {s} : tx'[r].pc = "idle" \/ tx[r].seen[o] = NoRow
  PROVE  Counted(G, o)'
<1>0. PICK H \in SUBSET Session : H = {r \in G : tx'[r].pc # "idle"}
  OBVIOUS
<1>1. H \in SUBSET F
  BY <1>0
<1>2. ASSUME NEW s \in Session, Starts(s) \/ (Proceed(s) /\ ~Commit(s))
      PROVE  Counted(H, o)'
  <2>1. Moves(s) /\ order' = order /\ paid' = paid /\ charged' = charged
    BY <1>2, StartsMoves, StartsTables, ProceedMoves, ProceedTables
  <2>2. Counted(F, o)'
    BY <2>1, MovesCounted
  <2> QED
    BY <1>1, <2>2 DEF Counted
<1>3. ASSUME NEW s \in Session, Commit(s) \/ Abort(s)
      PROVE  s \notin H /\ \A r \in H : tx'[r] = tx[r]
  BY <1>0, <1>1, <1>3 DEF Commit, Abort, Ends, TypeOK, IdleTx
<1>4. ASSUME NEW s \in Session, Commit(s)
      PROVE  Counted(H, o)'
  <2>1. s \notin H
    BY <1>3, <1>4
  <2>2. o \in Writes(s) => s \in F /\ \A r \in H : tx[r].seen[o] = NoRow
    BY <1>0, <1>4, <2>1
  <2> QED
    BY <1>1, <1>4, <2>1, <2>2, CommitCounted
<1>5. ASSUME NEW s \in Session, Abort(s)
      PROVE  Counted(H, o)'
  BY <1>1, <1>3, <1>5, RestCounted
<1>6. ASSUME Environment \/ UNCHANGED vars
      PROVE  Counted(H, o)'
  <2>1. tx' = tx
    BY <1>6 DEF Environment, JoinChannel, LeaveChannel, RestrictMember, DropPendingUpdates,
                GuaranteeEnds, vars
  <2> QED
    BY <1>1, <1>6, <2>1, RestCounted
<1>7. Counted(H, o)'
  BY <1>2, <1>4, <1>5, <1>6 DEF Next, Step
<1>8. ASSUME NEW r \in G, tx'[r].pc = "idle"
      PROVE  Right(tx[r], o)'
  <2> DEFINE x == tx'[r]
  <2>1. x = IdleTx
    BY <1>8 DEF Locals, Local
  <2>2. /\ Local(x) /\ x.seen[o] = NoRow /\ x.mine[o] = NoRow
        /\ x.pc = "mark" => x.at \in Order
    BY <2>1, IdleLocal DEF IdleTx
  <2> QED
    BY <1>7, <2>2, UnloadedRight DEF Counted, Right, Current, Sees, Progress, Here
<1> QED
  BY <1>0, <1>7, <1>8 DEF Counted

\* Before anything happens nothing is counted.
LEMMA InitCounted ==
  ASSUME Init, NEW o \in Order, NEW F \in SUBSET Session
  PROVE  Counted(F, o)
<1>1. Stay(o) = {} /\ Here(IdleTx, o) = {}
  BY ClaimType DEF Init, Stay, Here, IdleTx
<1>2. TargetOf[o] > 0 /\ order[o] = NoRow /\ \A u \in User : charged[<<o, u>>] = 0
  BY OrderAssumption DEF Init
<1>3. Exact(o)
  BY <1>1, <1>2, FS_EmptySet DEF Exact, Fits, NoRow
<1>4. /\ Current(IdleTx, o) /\ Sees(IdleTx, o) = "absent" /\ Progress(IdleTx, o) = 0
      /\ IdleTx.pc = "idle" /\ IdleTx.gone = {}
  BY <1>2 DEF Current, Sees, Progress, IdleTx, NoRow
<1>5. Right(IdleTx, o)
  BY <1>1, <1>2, <1>4, FS_EmptySet DEF Right, Fits
<1> QED
  BY <1>3, <1>5 DEF Counted, Init

\* What Exact says in the terms of the properties.
LEMMA ExactCounts ==
  ASSUME TypeOK, ChargedLeft, NEW o \in Order, Exact(o)
  PROVE  /\ order[o].progress = Cardinality(Joined(o)) - Cardinality(Left(o))
         /\ order[o].status = "completed" => order[o].progress >= TargetOf[o]
         /\ Clickable(order[o]) => order[o].progress < TargetOf[o]
<1>1. Left(o) \subseteq Joined(o)
  <2> SUFFICES ASSUME NEW u \in User, charged[<<o, u>>] > 0
               PROVE  paid[<<"join", u, o>>] > 0
    BY DEF Left, Joined
  <2> QED
    BY ChargedJoined
<1>2. Stay(o) = Joined(o) \ Left(o)
  BY DEF Stay, Joined, Left, TypeOK
<1>3. IsFiniteSet(Joined(o))
  <2>1. Joined(o) \subseteq User
    BY DEF Joined
  <2> QED
    BY <2>1, FiniteAssumption, FS_Subset
<1>4. Joined(o) \cap Left(o) = Left(o)
  BY <1>1
<1>5. Cardinality(Joined(o) \ Left(o)) = Cardinality(Joined(o)) - Cardinality(Left(o))
  BY <1>3, <1>4, FS_Difference
<1>6. TargetOf[o] \in Nat
  BY OrderAssumption
<1> QED
  BY <1>2, <1>5, <1>6 DEF Exact, Fits, Clickable

(***************************************************************************)
(* Until an update is lost ...                                             *)
(***************************************************************************)
\* The history variables only watch: a behaviour with them is one of Orders.
THEOREM HistoryWatches == HSpec => Spec
<1>1. HInit => Init
  BY DEF HInit
<1>2. [HNext]_hvars => [Next]_vars
  BY DEF HNext, hvars, vars
<1> QED
  BY <1>1, <1>2, PTL DEF HSpec, Spec

\* The sessions whose copy of an order is up to date.
Fresh(o) == {s \in Session : <<s, o>> \notin stale}

CountedUnlessOverwritten == \A o \in Order \ overwritten : Counted(Fresh(o), o)

LEMMA InductiveCounted ==
  HSpec => [](TypeOK /\ History /\ CountedUnlessOverwritten)
<1>1. HInit => CountedUnlessOverwritten
  BY InitCounted DEF HInit, CountedUnlessOverwritten, Fresh
<1>2. /\ TypeOK /\ LockDiscipline /\ History /\ Locals /\ Locals' /\ [HNext]_hvars
      /\ CountedUnlessOverwritten
      => CountedUnlessOverwritten'
  <2> SUFFICES ASSUME TypeOK, LockDiscipline, History, Locals, Locals', [HNext]_hvars,
                      CountedUnlessOverwritten, NEW o \in Order, o \notin overwritten'
               PROVE  Counted(Fresh(o), o)'
    BY DEF CountedUnlessOverwritten
  <2>0. PICK G \in SUBSET Session : G = {s \in Session : <<s, o>> \notin stale'}
    OBVIOUS
  <2>1. o \notin overwritten /\ [Next]_vars
    BY DEF HNext, hvars, vars
  <2>2. Counted(Fresh(o), o) /\ Fresh(o) \in SUBSET Session
    BY <2>1 DEF CountedUnlessOverwritten, Fresh
  <2>3. \A r \in G : r \in Fresh(o) \/ tx'[r].pc = "idle"
    BY <2>0 DEF HNext, hvars, Fresh
  <2>4. ASSUME NEW s \in Session, Commit(s), o \in Writes(s)
        PROVE  /\ s \in Fresh(o)
               /\ \A r \in G \ {s} : tx'[r].pc = "idle" \/ tx[r].seen[o] = NoRow
    <3>1. HNext
      BY <2>4 DEF hvars, vars, Commit, Ends, Finished, TypeOK, IdleTx
    <3>2. s \in Fresh(o)
      BY <2>4, <3>1 DEF HNext, Fresh
    <3>3. ASSUME NEW r \in G \ {s}, tx'[r].pc # "idle", tx[r].seen[o] # NoRow
          PROVE  FALSE
      <4>1. <<r, o>> \in Outdated
        BY <2>4, <3>3 DEF Outdated, Has
      <4> QED
        BY <2>0, <3>1, <3>3, <4>1 DEF HNext
    <3> QED
      BY <3>2, <3>3
  <2>5. Counted(G, o)'
    BY <2>1, <2>2, <2>3, <2>4, CountedStep
  <2> QED
    BY <2>0, <2>5 DEF Counted, Fresh
<1> QED
  BY <1>1, <1>2, HistoryWatches, InductiveLocals, PTL DEF HSpec

\* However sessions interleave and fail: until an update of an order is lost,
\* progress_count is the number of rewarded participants who have not left, and
\* the order is completed exactly when its target is reached
\* (handle_collector_click, handle_member_left).
THEOREM CountsExact == HSpec => []CountsExactUnlessOverwritten
<1>1. TypeOK /\ History /\ CountedUnlessOverwritten => CountsExactUnlessOverwritten
  BY ExactCounts DEF History, CountedUnlessOverwritten, CountsExactUnlessOverwritten, Counted
<1> QED
  BY <1>1, InductiveCounted, PTL

\* Until then no leave is charged twice, although updates and rechecks may
\* handle the same one.
THEOREM LeavesOnceUnlessOverwritten == HSpec => []ChargedOnceUnlessOverwritten
<1>1. CountedUnlessOverwritten => ChargedOnceUnlessOverwritten
  BY DEF CountedUnlessOverwritten, ChargedOnceUnlessOverwritten, Counted, Exact
<1> QED
  BY <1>1, InductiveCounted, PTL

(***************************************************************************)
(* Paid orders are posted, when no call to Telegram fails                  *)
(***************************************************************************)
\* Only the session that places an order knows it as queued.
Queued(t, o) ==
  /\ t.seen[o].status # "queued"
  /\ t.mine[o].status = "queued" => t.pc = "placed" /\ t.at = o

NoneQueued == \A s \in Session, o \in Order : Queued(tx[s], o)

\* What a session of an order that is not queued sees of it is not queued.
LEMMA ViewPosted ==
  ASSUME TypeOK, PaidOrderPosted, NoneQueued, NEW s \in Session, NEW o \in Order,
         tx[s].pc # "placed"
  PROVE  View(s, o).status # "queued"
BY DEF PaidOrderPosted, NoneQueued, Queued, View, Merge

LEMMA LoadsPosted ==
  ASSUME TypeOK, PaidOrderPosted, NoneQueued, NEW s \in Session, tx[s].pc # "placed",
         NEW t, t.seen = tx[s].seen, t.mine = tx[s].mine, NEW S, NEW o \in Order
  PROVE  Queued(Loads(s, t, S), o)
<1>1. View(s, o).status # "queued"
  BY ViewPosted
<1>2. t.seen[o].status # "queued" /\ t.mine[o].status # "queued"
  BY DEF NoneQueued, Queued
<1> QED
  BY <1>1, <1>2 DEF Loads, Queued, Tx

\* What a step of s does to its own state is all that matters to NoneQueued.
LEMMA OwnQueued ==
  ASSUME TypeOK, NoneQueued, NEW s \in Session, NEW x, tx' = [tx EXCEPT ![s] = x],
         \A o \in Order : Queued(x, o)
  PROVE  NoneQueued'
BY DEF NoneQueued, Queued, TypeOK

LEMMA StartsPosted ==
  ASSUME TypeOK, Locals, PaidOrderPosted, NoneQueued, NEW s \in Session, Starts(s)
  PROVE  NoneQueued'
<1>1. tx[s].pc = "idle" /\ tx[s] = IdleTx
  BY DEF Locals, Local, Starts, PlaceOrder, ClickLook, LeftUpdate, RecheckStart
<1>2. ASSUME NEW o \in Order, PlaceOrder(s, o)
      PROVE  NoneQueued'
  <2> DEFINE x == [IdleTx EXCEPT !.pc = "placed", !.actor = OwnerOf[o],
                                 !.at = o, !.mine[o].status = "queued"]
  <2>1. tx' = [tx EXCEPT ![s] = x]
    BY <1>2 DEF PlaceOrder
  <2>2. \A p \in Order : Queued(x, p)
    BY DEF Queued, IdleTx, NoRow
  <2> QED
    BY <2>1, <2>2, OwnQueued
<1>3. ASSUME NEW u \in User, NEW o \in Order, NEW B \in SUBSET BonusClaim,
             ClickLook(s, u, o, B)
      PROVE  NoneQueued'
  <2> DEFINE x == [IdleTx EXCEPT !.pc = "looked", !.actor = u, !.at = o,
                          !.seen[o] = order[o], !.mine[o] = order[o],
                          !.pay = {<<"join", u, o>>} \cup B]
  <2>1. tx' = [tx EXCEPT ![s] = x]
    BY <1>3 DEF ClickLook
  <2>2. \A p \in Order : Queued(x, p)
    BY DEF Queued, IdleTx, NoRow, PaidOrderPosted
  <2> QED
    BY <2>1, <2>2, OwnQueued
<1>4. ASSUME NEW c \in Channel, NEW u \in User, NEW by, LeftUpdate(s, c, u, by)
      PROVE  NoneQueued'
  <2> DEFINE t == [[IdleTx EXCEPT !.actor = by]
                     EXCEPT !.pc = "loop", !.leaver = u, !.work = Covered(s, c)]
             x == Loads(s, t, Covered(s, c))
  <2>1. tx' = [tx EXCEPT ![s] = x]
    BY <1>4 DEF LeftUpdate, Handles
  <2>2. t.seen = tx[s].seen /\ t.mine = tx[s].mine
    BY <1>1 DEF IdleTx
  <2>3. \A p \in Order : Queued(x, p)
    BY <1>1, <2>2, LoadsPosted
  <2> QED
    BY <2>1, <2>3, OwnQueued
<1>5. ASSUME RecheckStart(s)
      PROVE  NoneQueued'
  <2> DEFINE live == {o \in Order : Guaranteed(order[o])}
             t == [IdleTx EXCEPT !.pc = "loop", !.rounds = live]
             x == Loads(s, t, live)
  <2>1. tx' = [tx EXCEPT ![s] = x]
    BY <1>5 DEF RecheckStart
  <2>2. t.seen = tx[s].seen /\ t.mine = tx[s].mine
    BY <1>1 DEF IdleTx
  <2>3. \A p \in Order : Queued(x, p)
    BY <1>1, <2>2, LoadsPosted
  <2> QED
    BY <2>1, <2>3, OwnQueued
<1> QED
  BY <1>2, <1>3, <1>4, <1>5 DEF Starts

LEMMA ProceedPosted ==
  ASSUME "post" \notin Failing, TypeOK, PaidOrderPosted, NoneQueued, NEW s \in Session, Proceed(s),
         ~Commit(s)
  PROVE  NoneQueued'
<1> DEFINE t == tx[s]
<1>1. t \in Tx /\ \A o \in Order : Queued(t, o)
  BY DEF TypeOK, NoneQueued
<1>2. ASSUME NEW C \in SUBSET CommissionClaim, PostOrder(s, C)
      PROVE  NoneQueued'
  <2> DEFINE x == [t EXCEPT !.pc = "done", !.pay = C, !.mine[t.at].status = "in_progress"]
  <2>1. tx' = [tx EXCEPT ![s] = x]
    BY <1>2 DEF PostOrder, TypeOK
  <2>2. \A o \in Order : Queued(x, o)
    BY <1>1 DEF Queued, Tx, Row
  <2> QED
    BY <2>1, <2>2, OwnQueued
<1>3. ASSUME NEW B \in SUBSET BonusClaim, ClickReferral(s, B) \/ ClickNoReferral(s)
      PROVE  NoneQueued'
  <2>1. /\ tx'[s].seen = t.seen /\ tx'[s].mine = t.mine /\ t.pc = "looked"
        /\ \A r \in Session \ {s} : tx'[r] = tx[r]
    BY <1>1, <1>3 DEF ClickReferral, ClickNoReferral, TypeOK, Tx
  <2> QED
    BY <2>1 DEF NoneQueued, Queued
<1>4. ASSUME ClickCount(s) \/ \E B \in SUBSET BonusClaim : ClickComplete(s, B)
      PROVE  NoneQueued'
  <2>1. /\ tx'[s].seen = t.seen /\ t.pc = "referred"
        /\ \A o \in Order : tx'[s].mine[o].status \in {t.mine[o].status, "completed"}
        /\ \A r \in Session \ {s} : tx'[r] = tx[r]
    <3>1. CASE ClickCount(s)
      BY <1>1, <3>1 DEF ClickCount, TypeOK, Tx, Row
    <3>2. ASSUME NEW B \in SUBSET BonusClaim, ClickComplete(s, B)
          PROVE  /\ tx'[s].seen = t.seen /\ t.pc = "referred"
                 /\ \A o \in Order : tx'[s].mine[o].status \in {t.mine[o].status, "completed"}
                 /\ \A r \in Session \ {s} : tx'[r] = tx[r]
      BY <1>1, <3>2 DEF ClickComplete, TypeOK, Tx, Row
    <3> QED
      BY <1>4, <3>1, <3>2
  <2> QED
    BY <2>1 DEF NoneQueued, Queued
<1>5. ASSUME NEW o \in Order, LeftFound(s, o) \/ LeftSkip(s, o)
      PROVE  NoneQueued'
  <2>1. /\ tx'[s].seen = t.seen /\ tx'[s].mine = t.mine /\ t.pc = "loop"
        /\ \A r \in Session \ {s} : tx'[r] = tx[r]
    BY <1>1, <1>5 DEF LeftFound, LeftSkip, TypeOK, Tx
  <2> QED
    BY <2>1 DEF NoneQueued, Queued
<1>6. ASSUME LeftMark(s)
      PROVE  NoneQueued'
  <2>1. /\ tx'[s].seen = t.seen /\ t.pc = "mark"
        /\ \A o \in Order : tx'[s].mine[o].status \in {t.mine[o].status, "refilling"}
        /\ \A r \in Session \ {s} : tx'[r] = tx[r]
    BY <1>1, <1>6 DEF LeftMark, Refilled, TypeOK, Tx, Row
  <2> QED
    BY <2>1 DEF NoneQueued, Queued
<1>7. ASSUME NEW o \in Order, NEW T \in SUBSET User, RecheckOrder(s, o, T)
      PROVE  NoneQueued'
  <2>1. /\ tx'[s].seen = t.seen /\ tx'[s].mine = t.mine /\ t.pc = "loop"
        /\ \A r \in Session \ {s} : tx'[r] = tx[r]
    BY <1>1, <1>7 DEF RecheckOrder, Between, TypeOK, Tx
  <2> QED
    BY <2>1 DEF NoneQueued, Queued
<1>8. ASSUME NEW u \in User, RecheckStays(s, u)
      PROVE  NoneQueued'
  <2>1. /\ tx'[s].seen = t.seen /\ tx'[s].mine = t.mine /\ t.pc = "loop"
        /\ \A r \in Session \ {s} : tx'[r] = tx[r]
    BY <1>1, <1>8 DEF RecheckStays, Between, TypeOK, Tx
  <2> QED
    BY <2>1 DEF NoneQueued, Queued
<1>9. ASSUME NEW u \in User, RecheckGone(s, u)
      PROVE  NoneQueued'
  <2> DEFINE c == ChannelOf[t.at]
             y == [[t EXCEPT !.checks = @ \ {u}]
                     EXCEPT !.pc = "loop", !.leaver = u, !.work = Covered(s, c)]
             x == Loads(s, y, Covered(s, c))
  <2>1. tx' = [tx EXCEPT ![s] = x] /\ t.pc = "loop"
    BY <1>9 DEF RecheckGone, Between, Handles
  <2>2. y.seen = t.seen /\ y.mine = t.mine
    BY <1>1 DEF Tx
  <2>3. \A p \in Order : Queued(x, p)
    BY <2>1, <2>2, LoadsPosted
  <2> QED
    BY <2>1, <2>3, OwnQueued
<1> QED
  BY <1>2, <1>3, <1>4, <1>5, <1>6, <1>7, <1>8, <1>9 DEF Proceed, PostFails

\* Where Telegram takes every post, no order that was paid for stays queued,
\* whatever crashes: it is posted by the session that placed it, or rolled back
\* with it (confirm_order, post_order_to_collector).
THEOREM PaidOrdersPosted ==
  ASSUME "post" \notin Failing
  PROVE  Spec => []PaidOrderPosted
<1>1. Init => PaidOrderPosted /\ NoneQueued
  BY DEF Init, PaidOrderPosted, NoneQueued, Queued, NoRow, IdleTx
<1>2. TypeOK /\ Locals /\ PaidOrderPosted /\ NoneQueued /\ [Next]_vars
      => PaidOrderPosted' /\ NoneQueued'
  <2> SUFFICES ASSUME TypeOK, Locals, PaidOrderPosted, NoneQueued, [Next]_vars
               PROVE  PaidOrderPosted' /\ NoneQueued'
    OBVIOUS
  <2>1. ASSUME NEW s \in Session, Starts(s) \/ (Proceed(s) /\ ~Commit(s))
        PROVE  PaidOrderPosted' /\ NoneQueued'
    <3>1. order' = order
      BY <2>1, StartsTables, ProceedTables
    <3>2. NoneQueued'
      BY <2>1, StartsPosted, ProceedPosted
    <3> QED
      BY <3>1, <3>2 DEF PaidOrderPosted
  <2>2. ASSUME NEW s \in Session, Ends(s)
        PROVE  NoneQueued'
    <3>1. \A o \in Order : Queued(IdleTx, o)
      BY DEF Queued, IdleTx, NoRow
    <3> QED
      BY <2>2, <3>1, OwnQueued DEF Ends
  <2>3. ASSUME NEW s \in Session, Commit(s)
        PROVE  PaidOrderPosted'
    <3>1. tx[s].pc # "placed" /\ order' = [o \in Order |-> View(s, o)]
      BY <2>3 DEF Commit, Finished
    <3> QED
      BY <3>1, ViewPosted DEF PaidOrderPosted
  <2>4. ASSUME Environment \/ UNCHANGED vars \/ \E s \in Session : Abort(s)
        PROVE  PaidOrderPosted'
    <3>1. ASSUME NEW o \in Order
          PROVE  order'[o].status = order[o].status
      <4>1. ASSUME NEW p \in Order, GuaranteeEnds(p)
            PROVE  order'[o].status = order[o].status
        BY <4>1 DEF GuaranteeEnds, TypeOK, Row
      <4>2. ASSUME ~\E p \in Order : GuaranteeEnds(p)
            PROVE  order' = order
        BY <2>4, <4>2 DEF Environment, JoinChannel, LeaveChannel, RestrictMember,
                          DropPendingUpdates, vars, Abort
      <4> QED
        BY <4>1, <4>2
    <3> QED
      BY <3>1 DEF PaidOrderPosted
  <2>5. ASSUME Environment \/ UNCHANGED vars
        PROVE  NoneQueued'
    <3>1. tx' = tx
      BY <2>5 DEF Environment, JoinChannel, LeaveChannel, RestrictMember, DropPendingUpdates,
                  GuaranteeEnds, vars
    <3> QED
      BY <3>1 DEF NoneQueued, Queued
  <2> QED
    BY <2>1, <2>2, <2>3, <2>4, <2>5 DEF Next, Step, Commit, Abort
<1> QED
  BY <1>1, <1>2, InductiveLocals, PTL DEF Spec

(***************************************************************************)
(* Handlers end                                                            *)
(***************************************************************************)
\* How many steps a click or the confirmation of an order is from its end.
Rank == [pc \in {"idle", "placed", "looked", "referred", "done", "loop", "mark"} |->
           CASE pc \in {"placed", "looked"} -> 3
             [] pc = "referred" -> 2
             [] pc \in {"done", "mark"} -> 1
             [] OTHER -> 0]

\* A session in the state x is nearer to its end than in the state t: fewer
\* orders to recheck; as many, and fewer participants; then fewer orders that a
\* leave is to be charged for; then a later place in the handler.
Nearer(x, t) ==
  LET rounds == Cardinality(x.rounds) - Cardinality(t.rounds)
      checks == Cardinality(x.checks) - Cardinality(t.checks)
      work == Cardinality(x.work) - Cardinality(t.work)
  IN  \/ rounds < 0
      \/ rounds = 0 /\ checks < 0
      \/ rounds = 0 /\ checks = 0 /\ work < 0
      \/ rounds = 0 /\ checks = 0 /\ work = 0 /\ Rank[x.pc] < Rank[t.pc]

\* Taking an element out of a finite set makes it smaller.
LEMMA OneLess ==
  ASSUME NEW S, IsFiniteSet(S), NEW T \in SUBSET S, NEW e \in T
  PROVE  /\ Cardinality(T) \in Nat
         /\ Cardinality(T \ {e}) - Cardinality(T) < 0
<1>1. IsFiniteSet(T)
  BY FS_Subset
<1>2. Cardinality(T) \in Nat
  BY <1>1, FS_CardinalityType
<1>3. Cardinality(T \ {e}) = Cardinality(T) - 1
  BY <1>1, FS_RemoveElement
<1> QED
  BY <1>2, <1>3

\* What a session has left to do is finite.
LEMMA SizesType ==
  ASSUME TypeOK, NEW s \in Session
  PROVE  /\ Cardinality(tx[s].rounds) \in Nat
         /\ Cardinality(tx[s].checks) \in Nat
         /\ Cardinality(tx[s].work) \in Nat
         /\ IsFiniteSet(User) /\ IsFiniteSet(Order)
         /\ tx[s].rounds \in SUBSET Order /\ tx[s].work \in SUBSET Order
         /\ tx[s].checks \in SUBSET User
<1>1. tx[s].rounds \in SUBSET Order /\ tx[s].work \in SUBSET Order /\ tx[s].checks \in SUBSET User
  BY DEF TypeOK, Tx
<1> QED
  BY <1>1, FiniteAssumption, FS_Subset, FS_CardinalityType

\* A step of a session that has started ends it or brings it nearer to its end.
LEMMA ProceedNearer ==
  ASSUME TypeOK, NEW s \in Session, Proceed(s)
  PROVE  tx'[s] = IdleTx \/ Nearer(tx'[s], tx[s])
<1> DEFINE t == tx[s]
           x == tx'[s]
<1>1. t \in Tx
  BY DEF TypeOK
<1>2. CASE \/ \E C \in SUBSET CommissionClaim : PostOrder(s, C) \/ PostFails(s, C)
           \/ \E B \in SUBSET BonusClaim : ClickReferral(s, B) \/ ClickComplete(s, B)
           \/ ClickNoReferral(s) \/ ClickCount(s) \/ LeftMark(s)
  <2>1. /\ x.rounds = t.rounds /\ x.checks = t.checks /\ x.work = t.work
        /\ \/ t.pc \in {"placed", "referred"} /\ x.pc = "done"
           \/ t.pc = "looked" /\ x.pc = "referred"
           \/ t.pc = "mark" /\ x.pc = "loop"
    <3>1. ASSUME NEW C \in SUBSET CommissionClaim, PostOrder(s, C) \/ PostFails(s, C)
          PROVE  /\ x.rounds = t.rounds /\ x.checks = t.checks /\ x.work = t.work
                 /\ t.pc = "placed" /\ x.pc = "done"
      BY <1>1, <3>1 DEF PostOrder, PostFails, TypeOK, Tx
    <3>2. ASSUME NEW B \in SUBSET BonusClaim, ClickReferral(s, B)
          PROVE  /\ x.rounds = t.rounds /\ x.checks = t.checks /\ x.work = t.work
                 /\ t.pc = "looked" /\ x.pc = "referred"
      BY <1>1, <3>2 DEF ClickReferral, TypeOK, Tx
    <3>3. ASSUME NEW B \in SUBSET BonusClaim, ClickComplete(s, B)
          PROVE  /\ x.rounds = t.rounds /\ x.checks = t.checks /\ x.work = t.work
                 /\ t.pc = "referred" /\ x.pc = "done"
      BY <1>1, <3>3 DEF ClickComplete, TypeOK, Tx
    <3>4. CASE ClickNoReferral(s) \/ ClickCount(s)
      BY <1>1, <3>4 DEF ClickNoReferral, ClickCount, TypeOK, Tx
    <3>5. CASE LeftMark(s)
      BY <1>1, <3>5 DEF LeftMark, TypeOK, Tx
    <3> QED
      BY <1>2, <3>1, <3>2, <3>3, <3>4, <3>5
  <2>2. Rank[x.pc] < Rank[t.pc]
    BY <2>1 DEF Rank
  <2> QED
    BY <2>1, <2>2, SizesType DEF Nearer
<1>3. ASSUME NEW o \in Order, LeftFound(s, o) \/ LeftSkip(s, o)
      PROVE  Nearer(x, t)
  <2>1. x.rounds = t.rounds /\ x.checks = t.checks /\ x.work = t.work \ {o} /\ o \in t.work
    BY <1>1, <1>3 DEF LeftFound, LeftSkip, TypeOK, Tx
  <2> QED
    BY <2>1, SizesType, OneLess DEF Nearer
<1>4. ASSUME NEW o \in Order, NEW T \in SUBSET User, RecheckOrder(s, o, T)
      PROVE  Nearer(x, t)
  <2>1. x.rounds = t.rounds \ {o} /\ o \in t.rounds
    BY <1>1, <1>4 DEF RecheckOrder, TypeOK, Tx
  <2> QED
    BY <2>1, SizesType, OneLess DEF Nearer
<1>5. ASSUME NEW u \in User, RecheckStays(s, u) \/ RecheckGone(s, u)
      PROVE  Nearer(x, t)
  <2>1. x.rounds = t.rounds /\ x.checks = t.checks \ {u} /\ u \in t.checks
    <3>1. CASE RecheckStays(s, u)
      BY <1>1, <3>1 DEF RecheckStays, TypeOK, Tx
    <3>2. CASE RecheckGone(s, u)
      <4> DEFINE y == [t EXCEPT !.checks = @ \ {u}]
      <4>1. x = Handles(s, y, ChannelOf[t.at], u) /\ u \in t.checks
        BY <3>2 DEF RecheckGone, TypeOK
      <4>2. x.rounds = t.rounds /\ x.checks = t.checks \ {u}
        BY <1>1, <4>1 DEF Handles, Loads, Tx
      <4> QED
        BY <4>1, <4>2
    <3> QED
      BY <1>5, <3>1, <3>2
  <2> QED
    BY <2>1, SizesType, OneLess DEF Nearer
<1>6. CASE Commit(s)
  BY <1>6 DEF Commit, Ends, TypeOK
<1> QED
  BY <1>2, <1>3, <1>4, <1>5, <1>6 DEF Proceed

\* No handler runs for ever, whatever the other sessions do to the tables
\* meanwhile: only its own steps change what a session has left to do, and each
\* of them ends it or brings it nearer to its end.
THEOREM HandlersEnd ==
  Spec => [][\A s \in Session :
               /\ Proceed(s) => tx'[s] = IdleTx \/ Nearer(tx'[s], tx[s])
               /\ tx'[s] # tx[s] => Starts(s) \/ Proceed(s) \/ Abort(s)]_vars
<1> DEFINE Variant(s) == /\ Proceed(s) => tx'[s] = IdleTx \/ Nearer(tx'[s], tx[s])
                         /\ tx'[s] # tx[s] => Starts(s) \/ Proceed(s) \/ Abort(s)
<1>1. TypeOK /\ [Next]_vars => [\A s \in Session : Variant(s)]_vars
  <2> SUFFICES ASSUME TypeOK, Next, NEW s \in Session, tx'[s] # tx[s]
               PROVE  Starts(s) \/ Proceed(s) \/ Abort(s)
    BY ProceedNearer
  <2>1. ASSUME NEW r \in Session, Step(r)
        PROVE  r = s
    <3>1. \A q \in Session \ {r} : tx'[q] = tx[q]
      <4>1. CASE Starts(r) \/ Commit(r) \/ Abort(r)
        BY <4>1 DEF Starts, PlaceOrder, ClickLook, LeftUpdate, RecheckStart, Commit, Abort,
                    Ends, TypeOK
      <4>2. CASE Proceed(r) /\ ~Commit(r)
        BY <4>2 DEF Proceed, PostOrder, PostFails, ClickReferral, ClickComplete,
                    ClickNoReferral, ClickCount, LeftFound, LeftSkip, LeftMark, RecheckOrder,
                    RecheckStays, RecheckGone, TypeOK
      <4> QED
        BY <2>1, <4>1, <4>2 DEF Step
    <3> QED
      BY <3>1
  <2>2. ~Environment
    BY DEF Environment, JoinChannel, LeaveChannel, RestrictMember, DropPendingUpdates,
           GuaranteeEnds
  <2> QED
    BY <2>1, <2>2 DEF Next, Step
<1> QED
  BY <1>1, Inductive, PTL DEF Spec
=============================================================================
