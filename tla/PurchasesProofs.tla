-------------------------- MODULE PurchasesProofs --------------------------
(***************************************************************************)
(* Proofs about Purchases.  What a session has loaded of a request or of a *)
(* buyer is what the tables hold until another session commits them: that  *)
(* is what the inductive invariant says.                                   *)
(***************************************************************************)
EXTENDS Purchases, TLAPS

Deciding == {"approve", "approved", "reject", "rejected"}

\* A request that exists has a buyer and asks for something.
Placed ==
  \A r \in Request : request[r].status # "absent" =>
    request[r].buyer \in User /\ request[r].offer \in Offer

\* What a session knows of the request it is about.
KnowsRequest(s) ==
  LET r == tx[s].item
  IN  /\ tx[s].pc = "idle" => tx[s].has = {}
      /\ tx[s].pc \notin {"idle", "read", "ready"} => r \in Request /\ r \in tx[s].has
      /\ tx[s].pc \notin {"idle"} => tx[s].actor \in User
      /\ tx[s].pc \in Deciding => request[r].status # "absent"
      /\ tx[s].pc \in Deciding /\ <<s, r>> \notin stale => request[r].status = "pending"
      /\ tx[s].pc \in {"approve", "approved"} => request[r].buyer \in tx[s].has
      /\ tx[s].pc = "bought" => /\ request[r].status = "absent" /\ lock[r] = s
                                /\ tx[s].offer \in Offer

\* What it knows of the panels of the users it has loaded, and the end it has
\* computed for the buyer's.
KnowsPanels(s) ==
  LET r == tx[s].item
      u == request[r].buyer
      p == request[r].offer
  IN  /\ \A v \in User \cap tx[s].has : <<s, v>> \notin stale => tx[s].panel[v] = panel[v]
      /\ tx[s].pc \in {"approve", "approved"} /\ p \in Plan /\ u \notin overwritten
         /\ <<s, u>> \notin stale =>
           /\ bought[u] + Days[p] <= tx[s].expires
           /\ tx[s].expires <= now + bought[u] + Days[p]

Inv ==
  /\ TypeOK /\ DecisionUnlessOverwritten /\ DaysKeptUnlessOverwritten
  /\ Placed
  /\ \A s \in Session : KnowsRequest(s) /\ KnowsPanels(s)

LEMMA InitInv == Init => Inv
<1> SUFFICES ASSUME Init PROVE Inv
  OBVIOUS
<1> USE RowAssumption, DaysAssumption DEF Init
<1>1. NoPanel \in Panel
  BY DEF NoPanel, Panel
<1>2. IdleTx \in Tx
  BY <1>1 DEF IdleTx, Tx
<1>3. TypeOK
  BY <1>1, <1>2 DEF TypeOK, NoRequest
<1>4. DecisionUnlessOverwritten /\ DaysKeptUnlessOverwritten
  BY DEF DecisionUnlessOverwritten, DaysKeptUnlessOverwritten, NoRequest, NoPanel
<1>5. Placed
  BY DEF Placed, NoRequest
<1>6. ASSUME NEW s \in Session PROVE KnowsRequest(s) /\ KnowsPanels(s)
  BY DEF KnowsRequest, KnowsPanels, IdleTx, Deciding
<1> QED
  BY <1>3, <1>4, <1>5, <1>6 DEF Inv

LEMMA LockType ==
  ASSUME TypeOK, NEW s \in Session, NEW K, Lock(s, K)
  PROVE  lock' \in [Rows -> Session \cup {Nobody}]
BY DEF TypeOK, Lock

LEMMA IdleType == IdleTx \in Tx
BY DEF IdleTx, Tx, NoPanel, Panel

\* Locks that are taken are free or one's own, those of others stay.
LEMMA LockKeeps ==
  ASSUME TypeOK, NEW s \in Session, NEW K, Lock(s, K), NEW t \in Session, NEW k \in Rows,
         lock[k] = t
  PROVE  lock'[k] = t
BY RowAssumption DEF TypeOK, Lock

\* Steps that write nothing: the tables stay, the session goes on in state n.
LEMMA Inside ==
  ASSUME Inv, NEW s \in Session, NEW n \in Tx,
         tx' = [tx EXCEPT ![s] = n], UNCHANGED <<tables, now>>,
         lock' \in [Rows -> Session \cup {Nobody}],
         \A t \in Session, k \in Rows : t # s /\ lock[k] = t => lock'[k] = t,
         stale' = stale \/ stale' = {p \in stale : p[1] # s}, overwritten' = overwritten,
         KnowsRequest(s)', KnowsPanels(s)'
  PROVE  Inv'
<1> USE DEF tables, history
<1>1. TypeOK'
  BY DEF Inv, TypeOK
<1>2. DecisionUnlessOverwritten' /\ DaysKeptUnlessOverwritten' /\ Placed'
  BY DEF Inv, DecisionUnlessOverwritten, DaysKeptUnlessOverwritten, Placed
<1>3. \A t \in Session : tx'[t] = IF t = s THEN n ELSE tx[t]
  BY DEF Inv, TypeOK
<1>4. \A t \in Session, k \in Rows : t # s => (<<t, k>> \in stale' <=> <<t, k>> \in stale)
  OBVIOUS
<1>5. ASSUME NEW t \in Session, t # s PROVE KnowsRequest(t)' /\ KnowsPanels(t)'
  <2>1. tx'[t] = tx[t]
    BY <1>3, <1>5
  <2>2. KnowsRequest(t) /\ KnowsPanels(t)
    BY DEF Inv
  <2>3. KnowsRequest(t)'
    BY <1>4, <1>5, <2>1, <2>2 DEF KnowsRequest, Rows, Deciding
  <2>4. tx[t].pc \in {"approve", "approved"} => request[tx[t].item].buyer \in User
    BY <2>2 DEF KnowsRequest, Deciding, Inv, Placed
  <2>5. KnowsPanels(t)'
    BY <1>4, <1>5, <2>1, <2>2, <2>4 DEF KnowsPanels, Rows
  <2> QED
    BY <2>3, <2>5
<1> QED
  BY <1>1, <1>2, <1>5 DEF Inv

\* Loading rows: their copies are the rows.
LEMMA LoadedKnows ==
  ASSUME Inv, NEW s \in Session, NEW t \in Tx, NEW K \in SUBSET Rows,
         t.has = tx[s].has, t.panel = tx[s].panel
  PROVE  /\ Loaded(t, K) \in Tx
         /\ Loaded(t, K).has = t.has \cup K
         /\ Loaded(t, K).pc = t.pc /\ Loaded(t, K).actor = t.actor
         /\ Loaded(t, K).item = t.item /\ Loaded(t, K).offer = t.offer
         /\ Loaded(t, K).expires = t.expires
         /\ \A v \in User \cap (t.has \cup K) :
              <<s, v>> \notin stale => Loaded(t, K).panel[v] = panel[v]
<1> DEFINE P == [u \in User |-> IF u \in K \ t.has THEN panel[u] ELSE t.panel[u]]
<1>1. Loaded(t, K) = [t EXCEPT !.has = t.has \cup K, !.panel = P]
  BY DEF Loaded, Tx
<1>2. P \in [User -> Panel]
  BY DEF Inv, TypeOK, Tx
<1>3. \A v \in User \cap (t.has \cup K) : <<s, v>> \notin stale => P[v] = panel[v]
  BY DEF Inv, KnowsPanels
<1> HIDE DEF P
<1> QED
  BY <1>1, <1>2, <1>3 DEF Tx

LEMMA ReceiveInv ==
  ASSUME Inv, NEW s \in Session, NEW u \in User, Receive(s, u)
  PROVE  Inv'
<1> DEFINE t == [IdleTx EXCEPT !.pc = "read", !.actor = u]
           n == Loaded(t, {u})
<1> USE DEF tables, history
<1>1. tx[s].has = {} /\ tx[s] \in Tx
  BY DEF Receive, Inv, KnowsRequest, TypeOK
<1>2. t \in Tx /\ t.has = {} /\ t.pc = "read" /\ t.actor = u
  BY IdleType DEF IdleTx, Tx
<1>3. tx' = [tx EXCEPT ![s] = n]
  BY DEF Receive, Load
<1> DEFINE P == [v \in User |-> IF v = u THEN panel[v] ELSE t.panel[v]]
<1>4. n = [t EXCEPT !.has = {u}, !.panel = P]
  BY <1>2 DEF Loaded, Tx
<1> HIDE DEF t
<1>5. P \in [User -> Panel] /\ P[u] = panel[u]
  BY <1>2 DEF Inv, TypeOK, Tx
<1> HIDE DEF P
<1>6. /\ n \in Tx /\ n.has = {u} /\ n.pc = "read" /\ n.actor = u
      /\ n.panel[u] = panel[u]
  <2> DEFINE K == {u}
  <2>1. K \in SUBSET Rows
    BY DEF Rows
  <2> HIDE DEF K
  <2>2. n = [t EXCEPT !.has = K, !.panel = P]
    BY <1>4 DEF K
  <2>3. n \in Tx /\ n.has = K /\ n.pc = "read" /\ n.actor = u /\ n.panel = P
    BY <1>2, <1>5, <2>1, <2>2 DEF Tx
  <2> QED
    BY <1>5, <2>3 DEF K
<1> HIDE DEF n
<1>7. tx'[s] = n
  BY <1>3 DEF Inv, TypeOK
<1>8. KnowsRequest(s)' /\ KnowsPanels(s)'
  BY <1>6, <1>7 DEF KnowsRequest, KnowsPanels, Deciding, Receive
<1> QED
  BY <1>3, <1>6, <1>8, Inside DEF Receive, Inv, TypeOK, lost

LEMMA TakeRowInv ==
  ASSUME Inv, NEW s \in Session, TakeRow(s)
  PROVE  Inv'
<1> DEFINE n == [tx[s] EXCEPT !.pc = "ready"]
<1>1. tx[s] \in Tx
  BY DEF Inv, TypeOK
<1>2. tx' = [tx EXCEPT ![s] = n]
  BY DEF TakeRow
<1>3. /\ n \in Tx /\ n.has = tx[s].has /\ n.pc = "ready" /\ n.actor = tx[s].actor
      /\ n.panel = tx[s].panel
  BY <1>1 DEF Tx
<1> HIDE DEF n
<1>4. tx'[s] = n
  BY <1>2 DEF Inv, TypeOK
<1>5. KnowsRequest(s)' /\ KnowsPanels(s)'
  <2>1. KnowsRequest(s) /\ KnowsPanels(s) /\ tx[s].pc = "read"
    BY DEF Inv, TakeRow
  <2> QED
    BY <1>3, <1>4, <2>1 DEF KnowsRequest, KnowsPanels, Deciding, TakeRow, tables, history, lost
<1>7. \A t \in Session, k \in Rows : t # s /\ lock[k] = t => lock'[k] = t
  BY LockKeeps DEF TakeRow, Inv
<1>8. lock' \in [Rows -> Session \cup {Nobody}]
  BY LockType DEF TakeRow, Inv, TypeOK
<1> QED
  BY <1>2, <1>3, <1>5, <1>7, <1>8, Inside DEF TakeRow, lost

LEMMA BuyInv ==
  ASSUME Inv, NEW s \in Session, NEW r \in Request, NEW o \in Offer, Buy(s, r, o)
  PROVE  Inv'
<1> DEFINE t == [tx[s] EXCEPT !.pc = "bought", !.item = r, !.offer = o]
           n == Loaded(t, {r})
<1>1. tx[s] \in Tx /\ KnowsRequest(s) /\ {r} \in SUBSET Rows
  BY DEF Inv, TypeOK, Rows
<1>2. /\ t \in Tx /\ t.has = tx[s].has /\ t.panel = tx[s].panel
      /\ t.pc = "bought" /\ t.item = r /\ t.offer = o /\ t.actor = tx[s].actor
  BY <1>1 DEF Tx, Offer
<1>3. tx' = [tx EXCEPT ![s] = n]
  BY DEF Buy, Load
<1> HIDE DEF t
<1>4. /\ n \in Tx /\ n.has = tx[s].has \cup {r} /\ n.pc = "bought"
      /\ n.item = r /\ n.offer = o /\ n.actor = tx[s].actor
      /\ \A v \in User \cap (tx[s].has \cup {r}) : <<s, v>> \notin stale => n.panel[v] = panel[v]
  BY <1>1, <1>2, LoadedKnows
<1> HIDE DEF n
<1>5. tx'[s] = n
  BY <1>3 DEF Inv, TypeOK
<1>7. lock'[r] = s
  BY <1>1 DEF Buy, Lock
<1>8. KnowsRequest(s)' /\ KnowsPanels(s)'
  BY <1>1, <1>4, <1>5, <1>7 DEF KnowsRequest, KnowsPanels, Deciding, Buy, tables, lost
<1>9. /\ lock' \in [Rows -> Session \cup {Nobody}]
      /\ \A v \in Session, k \in Rows : v # s /\ lock[k] = v => lock'[k] = v
  BY LockType, LockKeeps DEF Buy, Inv
<1> QED
  BY <1>3, <1>4, <1>8, <1>9, Inside DEF Buy, lost

LEMMA ApproveLookInv ==
  ASSUME Inv, NEW s \in Session, NEW r \in Request, ApproveLook(s, r)
  PROVE  Inv'
<1> DEFINE u == request[r].buyer
           p == request[r].offer
           t == [tx[s] EXCEPT !.pc = "approve", !.item = r]
           m == Loaded(t, {r, u})
           n == IF p \in Plan
                THEN [m EXCEPT !.expires = Renewed(m.panel[u].expires, Days[p])]
                ELSE m
<1>1. tx[s] \in Tx /\ KnowsRequest(s)
  BY DEF Inv, TypeOK
<1>2. u \in User /\ p \in Offer /\ request[r].status = "pending"
  BY DEF ApproveLook, Open, Inv, Placed
<1>3. {r, u} \in SUBSET Rows
  BY <1>2 DEF Rows
<1>4. /\ t \in Tx /\ t.has = tx[s].has /\ t.panel = tx[s].panel
      /\ t.pc = "approve" /\ t.item = r /\ t.actor = tx[s].actor
  BY <1>1 DEF Tx
<1>5. tx' = [tx EXCEPT ![s] = n]
  BY DEF ApproveLook
<1> HIDE DEF t
<1>6. /\ m \in Tx /\ m.has = tx[s].has \cup {r, u} /\ m.pc = "approve"
      /\ m.item = r /\ m.actor = tx[s].actor
      /\ \A v \in User \cap (tx[s].has \cup {r, u}) : <<s, v>> \notin stale => m.panel[v] = panel[v]
  BY <1>1, <1>3, <1>4, LoadedKnows
<1> HIDE DEF m
<1>7. /\ m.panel[u].expires \in Nat /\ panel[u].expires \in Nat
      /\ now \in Nat /\ bought[u] \in Nat /\ (p \in Plan => Days[p] \in Nat)
  BY <1>2, <1>6, DaysAssumption DEF Inv, TypeOK, Tx, Panel
<1>8. Renewed(m.panel[u].expires, Days[p]) \in Nat \/ p \notin Plan
  BY <1>7 DEF Renewed
<1>9. /\ n \in Tx /\ n.has = m.has /\ n.pc = m.pc /\ n.item = m.item
      /\ n.actor = m.actor /\ n.panel = m.panel
      /\ p \in Plan => n.expires = Renewed(m.panel[u].expires, Days[p])
  BY <1>6, <1>8 DEF Tx
<1> HIDE DEF n
<1>10. tx'[s] = n
  BY <1>5 DEF Inv, TypeOK
<1>12. KnowsRequest(s)'
  BY <1>1, <1>2, <1>6, <1>9, <1>10 DEF KnowsRequest, Deciding, ApproveLook, tables, lost
<1>13. ASSUME p \in Plan, u \notin overwritten, <<s, u>> \notin stale
       PROVE  /\ bought[u] + Days[p] <= n.expires
              /\ n.expires <= now + bought[u] + Days[p]
  <2>1. m.panel[u] = panel[u]
    BY <1>2, <1>6, <1>13
  <2>2. bought[u] <= panel[u].expires /\ panel[u].expires <= now + bought[u]
    BY <1>2, <1>13 DEF Inv, DaysKeptUnlessOverwritten
  <2>3. n.expires = (IF panel[u].expires > now THEN panel[u].expires ELSE now) + Days[p]
    BY <1>9, <1>13, <2>1 DEF Renewed
  <2> QED
    BY <1>7, <1>13, <2>2, <2>3
<1>14. KnowsPanels(s)'
  <2>1. /\ request' = request /\ panel' = panel /\ bought' = bought /\ now' = now
        /\ stale' = stale /\ overwritten' = overwritten
    BY DEF ApproveLook, tables, history, lost
  <2>2. tx'[s].item = r /\ tx'[s].has = tx[s].has \cup {r, u}
    BY <1>6, <1>9, <1>10
  <2>3. \A v \in User \cap tx'[s].has : <<s, v>> \notin stale => tx'[s].panel[v] = panel[v]
    BY <1>6, <1>9, <1>10, <2>2
  <2> QED
    BY <1>10, <1>13, <2>1, <2>2, <2>3 DEF KnowsPanels
<1>15. /\ lock' \in [Rows -> Session \cup {Nobody}]
       /\ \A v \in Session, k \in Rows : v # s /\ lock[k] = v => lock'[k] = v
  BY DEF ApproveLook, Inv, TypeOK
<1> QED
  BY <1>5, <1>9, <1>12, <1>14, <1>15, Inside DEF ApproveLook, lost

LEMMA RejectLookInv ==
  ASSUME Inv, NEW s \in Session, NEW r \in Request, RejectLook(s, r)
  PROVE  Inv'
<1> DEFINE t == [tx[s] EXCEPT !.pc = "reject", !.item = r]
           n == Loaded(t, {r})
<1>1. tx[s] \in Tx /\ KnowsRequest(s) /\ {r} \in SUBSET Rows
  BY DEF Inv, TypeOK, Rows
<1>2. /\ t \in Tx /\ t.has = tx[s].has /\ t.panel = tx[s].panel
      /\ t.pc = "reject" /\ t.item = r /\ t.actor = tx[s].actor
  BY <1>1 DEF Tx
<1>3. tx' = [tx EXCEPT ![s] = n]
  BY DEF RejectLook, Load
<1> HIDE DEF t
<1>4. /\ n \in Tx /\ n.has = tx[s].has \cup {r} /\ n.pc = "reject"
      /\ n.item = r /\ n.actor = tx[s].actor
      /\ \A v \in User \cap (tx[s].has \cup {r}) : <<s, v>> \notin stale => n.panel[v] = panel[v]
  BY <1>1, <1>2, LoadedKnows
<1> HIDE DEF n
<1>5. tx'[s] = n
  BY <1>3 DEF Inv, TypeOK
<1>7. KnowsRequest(s)' /\ KnowsPanels(s)'
  BY <1>1, <1>4, <1>5 DEF KnowsRequest, KnowsPanels, Deciding, RejectLook, Open, tables, lost
<1>8. /\ lock' \in [Rows -> Session \cup {Nobody}]
      /\ \A v \in Session, k \in Rows : v # s /\ lock[k] = v => lock'[k] = v
  BY DEF RejectLook, Inv, TypeOK
<1> QED
  BY <1>3, <1>4, <1>7, <1>8, Inside DEF RejectLook, lost

\* The flush of a decision changes nothing that is known.
LEMMA FlushInv ==
  ASSUME Inv, NEW s \in Session, NEW K, Lock(s, K),
         NEW p \in {"approved", "rejected"},
         p = "approved" => tx[s].pc = "approve",
         p = "rejected" => tx[s].pc = "reject",
         tx' = [tx EXCEPT ![s].pc = p],
         UNCHANGED <<tables, now, lost>>
  PROVE  Inv'
<1> DEFINE n == [tx[s] EXCEPT !.pc = p]
<1>1. tx[s] \in Tx
  BY DEF Inv, TypeOK
<1>2. tx' = [tx EXCEPT ![s] = n]
  OBVIOUS
<1>3. /\ n \in Tx /\ n.has = tx[s].has /\ n.pc = p /\ n.actor = tx[s].actor
      /\ n.panel = tx[s].panel /\ n.item = tx[s].item /\ n.expires = tx[s].expires
  BY <1>1 DEF Tx
<1> HIDE DEF n
<1>4. tx'[s] = n
  BY <1>2 DEF Inv, TypeOK
<1>5. KnowsRequest(s) /\ KnowsPanels(s)
  BY DEF Inv
<1>6. KnowsRequest(s)'
  BY <1>3, <1>4, <1>5 DEF KnowsRequest, Deciding, tables, lost
<1>7. KnowsPanels(s)'
  BY <1>3, <1>4, <1>5 DEF KnowsPanels, tables, history, lost
<1>9. \A t \in Session, k \in Rows : t # s /\ lock[k] = t => lock'[k] = t
  BY LockKeeps DEF Inv
<1>10. lock' \in [Rows -> Session \cup {Nobody}]
  BY LockType DEF Inv, TypeOK
<1> QED
  BY <1>2, <1>3, <1>6, <1>7, <1>9, <1>10, Inside DEF lost

(***************************************************************************)
(* The end of a session                                                    *)
(***************************************************************************)

\* A session that ends knows nothing and has nothing.
LEMMA EndsKnows ==
  ASSUME Inv, NEW s \in Session, NEW D, Ends(s, D)
  PROVE  /\ lock' \in [Rows -> Session \cup {Nobody}]
         /\ tx' \in [Session -> Tx]
         /\ tx'[s] = IdleTx /\ (\A t \in Session : t # s => tx'[t] = tx[t])
         /\ \A t \in Session, k \in Rows : t # s /\ lock[k] = t => lock'[k] = t
         /\ KnowsRequest(s)' /\ KnowsPanels(s)' /\ now' = now
<1>1. tx'[s] = IdleTx /\ (\A t \in Session : t # s => tx'[t] = tx[t])
  BY DEF Ends, Inv, TypeOK
<1>2. IdleTx.has = {} /\ IdleTx.pc = "idle"
  BY DEF IdleTx
<1>3. KnowsRequest(s)' /\ KnowsPanels(s)'
  BY <1>1, <1>2 DEF KnowsRequest, KnowsPanels, Deciding
<1>4. now' = now
  BY DEF Ends
<1>5. lock' \in [Rows -> Session \cup {Nobody}] /\ tx' \in [Session -> Tx]
  BY IdleType DEF Ends, Inv, TypeOK
<1>6. \A t \in Session, k \in Rows : t # s /\ lock[k] = t => lock'[k] = t
  BY DEF Ends, Inv, TypeOK
<1> QED
  BY <1>1, <1>3, <1>4, <1>5, <1>6

\* A commit puts the copies that others have of its rows out of date, and records
\* a lost update where its own were.
LEMMA Committed ==
  ASSUME Inv, NEW s \in Session, Commits(s), Written(s) \subseteq Rows
  PROVE  /\ Ends(s, Outdated(s)) /\ tx[s].item \in Written(s)
         /\ stale' \subseteq Session \X Rows
         /\ overwritten \subseteq overwritten' /\ overwritten' \subseteq Rows
         /\ \A k \in Written(s) : k \notin overwritten' => <<s, k>> \notin stale
         /\ \A t \in Session, k \in Rows : t # s /\ <<t, k>> \notin stale' =>
              /\ <<t, k>> \notin stale
              /\ k \in tx[t].has => k \notin Written(s)
<1>1. Ends(s, Outdated(s)) /\ stale' = {p \in stale \cup Outdated(s) : p[1] # s}
  BY DEF Commits, Ends
<1>2. Outdated(s) \subseteq Session \X Rows /\ stale \subseteq Session \X Rows
      /\ overwritten \subseteq Rows
  BY DEF Outdated, Inv, TypeOK
<1>3. \A t \in Session, k \in Rows :
        k \in tx[t].has /\ k \in Written(s) => <<t, k>> \in Outdated(s)
  BY DEF Outdated
<1>4. /\ overwritten' = overwritten \cup {k \in Written(s) : <<s, k>> \in stale}
      /\ tx[s].item \in Written(s)
  BY DEF Commits, Written
<1> HIDE DEF Outdated, Written
<1> QED
  BY <1>1, <1>2, <1>3, <1>4

\* What the other sessions know stays so when s commits its request r and no
\* panels but those it writes.
LEMMA OthersKnow ==
  ASSUME Inv, NEW s \in Session, Commits(s), Written(s) \subseteq Rows,
         NEW r \in Request, r = tx[s].item,
         request' \in [Request -> [buyer : User \cup {Nobody}, offer : Offer \cup {Nobody},
                                   status : {"absent", "pending", "approved", "rejected"}]],
         \A q \in Request : q # r => request'[q] = request[q],
         request'[r].status # "absent",
         request[r].status # "absent" =>
           request'[r].buyer = request[r].buyer /\ request'[r].offer = request[r].offer,
         request[r].status = "absent" => lock[r] = s,
         \A v \in User \ Written(s) : panel'[v] = panel[v] /\ bought'[v] = bought[v],
         NEW t \in Session, t # s
  PROVE  KnowsRequest(t)' /\ KnowsPanels(t)'
<1>1. tx'[t] = tx[t] /\ now' = now /\ overwritten \subseteq overwritten'
      /\ r \in Written(s)
  BY Committed, EndsKnows
<1>2. \A k \in Rows : <<t, k>> \notin stale' =>
        /\ <<t, k>> \notin stale
        /\ k \in tx[t].has => k \notin Written(s)
  BY Committed
<1>3. KnowsRequest(t) /\ KnowsPanels(t) /\ tx[t] \in Tx
  BY DEF Inv, TypeOK
<1>4. tx[t].pc = "bought" => tx[t].item # r
  BY <1>3, RowAssumption DEF KnowsRequest
<1>5. \A k \in Rows : lock[k] = t => lock'[k] = t
  BY Committed, EndsKnows
<1>6. tx[t].pc \in Deciding => /\ tx[t].item \in Request /\ tx[t].item \in tx[t].has
                               /\ request'[tx[t].item].buyer = request[tx[t].item].buyer
                               /\ request'[tx[t].item].offer = request[tx[t].item].offer
                               /\ request'[tx[t].item].status # "absent"
                               /\ request[tx[t].item].status # "absent"
  BY <1>3 DEF KnowsRequest, Deciding
<1>7. tx[t].pc \in Deciding /\ <<t, tx[t].item>> \notin stale' =>
        tx[t].item # r /\ <<t, tx[t].item>> \notin stale
  BY <1>1, <1>2, <1>6 DEF Rows
<1>8. KnowsRequest(t)'
  BY <1>1, <1>3, <1>4, <1>5, <1>6, <1>7 DEF KnowsRequest, Rows, Deciding
<1>9. \A v \in User \cap tx[t].has : <<t, v>> \notin stale' =>
        panel'[v] = panel[v] /\ bought'[v] = bought[v] /\ <<t, v>> \notin stale
  BY <1>2 DEF Rows
<1>10. tx[t].pc \in {"approve", "approved"} =>
         request[tx[t].item].buyer \in User \cap tx[t].has
  BY <1>3, <1>6 DEF KnowsRequest, Deciding, Inv, Placed
<1>11. KnowsPanels(t)'
  BY <1>1, <1>3, <1>6, <1>9, <1>10 DEF KnowsPanels, Deciding
<1> QED
  BY <1>8, <1>11

LEMMA CommitBoughtInv ==
  ASSUME Inv, NEW s \in Session, CommitBought(s)
  PROVE  Inv'
<1> DEFINE r == tx[s].item
           row == [buyer |-> tx[s].actor, offer |-> tx[s].offer, status |-> "pending"]
<1> USE DEF tables, history
<1>1. /\ r \in Request /\ r \in tx[s].has /\ request[r].status = "absent" /\ lock[r] = s
      /\ tx[s].actor \in User /\ tx[s].offer \in Offer
  BY DEF CommitBought, Inv, KnowsRequest
<1>2. /\ Commits(s) /\ request' = [request EXCEPT ![r] = row]
      /\ Written(s) \subseteq Rows
  BY <1>1 DEF CommitBought, Written, Rows
<1>w. /\ stale' \subseteq Session \X Rows /\ overwritten' \subseteq Rows
      /\ overwritten \subseteq overwritten' /\ Ends(s, Outdated(s)) /\ now' = now
  BY <1>2, Committed DEF Ends
<1>3. TypeOK'
  <2>1. row \in [buyer : User \cup {Nobody}, offer : Offer \cup {Nobody},
                 status : {"absent", "pending", "approved", "rejected"}]
    BY <1>1
  <2> HIDE DEF row
  <2>2. request' \in [Request -> [buyer : User \cup {Nobody}, offer : Offer \cup {Nobody},
                                  status : {"absent", "pending", "approved", "rejected"}]]
    BY <1>2, <2>1 DEF Inv, TypeOK
  <2>3. lock' \in [Rows -> Session \cup {Nobody}] /\ tx' \in [Session -> Tx]
    BY <1>2, <1>w, EndsKnows
  <2> QED
    BY <1>2, <1>w, <2>2, <2>3 DEF CommitBought, Inv, TypeOK
<1>4. DecisionUnlessOverwritten'
  BY <1>1, <1>2, <1>w DEF CommitBought, Inv, TypeOK, DecisionUnlessOverwritten
<1>5. DaysKeptUnlessOverwritten'
  BY <1>2, <1>w DEF CommitBought, Inv, DaysKeptUnlessOverwritten
<1>6. Placed'
  BY <1>1, <1>2 DEF Inv, TypeOK, Placed
<1>7. ASSUME NEW t \in Session, t # s PROVE KnowsRequest(t)' /\ KnowsPanels(t)'
  <2>1. /\ request' \in [Request -> [buyer : User \cup {Nobody}, offer : Offer \cup {Nobody},
                                     status : {"absent", "pending", "approved", "rejected"}]]
        /\ \A q \in Request : q # r => request'[q] = request[q]
        /\ request'[r].status # "absent"
    BY <1>1, <1>2, <1>3 DEF Inv, TypeOK
  <2>2. panel' = panel /\ bought' = bought
    BY DEF CommitBought
  <2>3. r = tx[s].item
    OBVIOUS
  <2> HIDE DEF r
  <2> QED
    BY <1>1, <1>2, <1>7, <2>1, <2>2, <2>3, OthersKnow
<1> QED
  BY <1>2, <1>w, <1>3, <1>4, <1>5, <1>6, <1>7, EndsKnows DEF Inv

\* The column status of a request that exists.
LEMMA DecideRow ==
  ASSUME Inv, NEW r \in Request, request[r].status # "absent",
         NEW v \in {"approved", "rejected"},
         request' = [request EXCEPT ![r].status = v]
  PROVE  /\ request' \in [Request -> [buyer : User \cup {Nobody}, offer : Offer \cup {Nobody},
                                      status : {"absent", "pending", "approved", "rejected"}]]
         /\ \A q \in Request : q # r => request'[q] = request[q]
         /\ request'[r].status = v
         /\ request'[r].buyer = request[r].buyer /\ request'[r].offer = request[r].offer
BY DEF Inv, TypeOK

LEMMA CommitApprovedInv ==
  ASSUME Inv, NEW s \in Session, CommitApproved(s)
  PROVE  Inv'
<1> DEFINE t == tx[s]
           r == t.item
           u == request[r].buyer
           p == request[r].offer
           new == Granted(u, t.panel[u], p, t.expires)
<1>1. /\ r \in Request /\ r \in t.has /\ request[r].status # "absent"
      /\ <<s, r>> \notin stale => request[r].status = "pending"
      /\ u \in t.has /\ t \in Tx
  BY DEF CommitApproved, Inv, TypeOK, KnowsRequest, Deciding
<1>2. u \in User /\ p \in Offer
  BY <1>1 DEF Inv, Placed
<1>3. /\ Commits(s) /\ request' = [request EXCEPT ![r].status = "approved"]
      /\ decided' = [decided EXCEPT ![r] = @ + 1]
      /\ granted' = [granted EXCEPT ![r] = @ + 1]
  BY DEF CommitApproved
<1>a. /\ Written(s) = {r} \cup (IF p \in Plan THEN {u} ELSE {})
      /\ Written(s) \subseteq Rows
  BY <1>1, <1>2 DEF CommitApproved, Written, Rows
<1>w. /\ stale' \subseteq Session \X Rows /\ overwritten' \subseteq Rows
      /\ overwritten \subseteq overwritten' /\ Ends(s, Outdated(s)) /\ now' = now
      /\ \A k \in Written(s) : k \notin overwritten' => <<s, k>> \notin stale
  BY <1>3, <1>a, Committed DEF Ends
<1>4. \/ /\ p \in Plan
         /\ panel' = [panel EXCEPT ![u] = new]
         /\ bought' = [bought EXCEPT ![u] = @ + Days[p]]
      \/ panel' = panel /\ bought' = bought
  BY DEF CommitApproved
<1>5. p \in Plan => Days[p] \in Nat /\ Tier[p] \in {Tier[q] : q \in Plan}
  BY DaysAssumption
<1>6. p \in Plan => new \in Panel /\ new.expires = t.expires
  <2>1. t.expires \in Nat /\ panel[u].tier \in {Tier[q] : q \in Plan} \cup {Nobody}
    BY <1>1, <1>2 DEF Inv, TypeOK, Tx, Panel
  <2> QED
    BY <1>5, <2>1 DEF Granted, Panel
<1>7. p \in Plan /\ u \notin overwritten' =>
        bought[u] + Days[p] <= t.expires /\ t.expires <= now + bought[u] + Days[p]
  BY <1>a, <1>w DEF CommitApproved, Inv, KnowsPanels
<1> HIDE DEF new
<1>8. /\ request' \in [Request -> [buyer : User \cup {Nobody}, offer : Offer \cup {Nobody},
                                   status : {"absent", "pending", "approved", "rejected"}]]
      /\ \A q \in Request : q # r => request'[q] = request[q]
      /\ request'[r].status = "approved"
      /\ request'[r].buyer = request[r].buyer /\ request'[r].offer = request[r].offer
  BY <1>1, <1>3, DecideRow
<1>9. panel' \in [User -> Panel] /\ bought' \in [User -> Nat]
  BY <1>2, <1>4, <1>5, <1>6 DEF Inv, TypeOK
<1>10. decided' \in [Request -> Nat] /\ granted' \in [Request -> Nat]
  BY <1>1, <1>3 DEF Inv, TypeOK
<1>11. TypeOK'
  <2>1. lock' \in [Rows -> Session \cup {Nobody}] /\ tx' \in [Session -> Tx]
    BY <1>3, <1>w, EndsKnows
  <2> QED
    BY <1>3, <1>w, <1>8, <1>9, <1>10, <2>1 DEF Inv, TypeOK
<1>12. DecisionUnlessOverwritten'
  <2> SUFFICES ASSUME NEW q \in Request, q \notin overwritten'
               PROVE /\ decided'[q] = (IF request'[q].status \in {"approved", "rejected"}
                                       THEN 1 ELSE 0)
                     /\ granted'[q] = (IF request'[q].status = "approved" THEN 1 ELSE 0)
    BY <1>3 DEF DecisionUnlessOverwritten
  <2>1. /\ decided[q] = (IF request[q].status \in {"approved", "rejected"} THEN 1 ELSE 0)
        /\ granted[q] = (IF request[q].status = "approved" THEN 1 ELSE 0)
    BY <1>w DEF Inv, DecisionUnlessOverwritten
  <2>2. /\ decided'[q] = IF q = r THEN decided[q] + 1 ELSE decided[q]
        /\ granted'[q] = IF q = r THEN granted[q] + 1 ELSE granted[q]
    BY <1>3 DEF Inv, TypeOK
  <2> QED
    BY <1>1, <1>a, <1>w, <1>8, <2>1, <2>2
<1>13. DaysKeptUnlessOverwritten'
  <2> SUFFICES ASSUME NEW v \in User, v \notin overwritten'
               PROVE bought'[v] <= panel'[v].expires /\ panel'[v].expires <= now + bought'[v]
    BY <1>w DEF DaysKeptUnlessOverwritten
  <2>1. bought[v] <= panel[v].expires /\ panel[v].expires <= now + bought[v]
    BY <1>w DEF Inv, DaysKeptUnlessOverwritten
  <2>2. CASE p \in Plan /\ v = u /\ panel' # panel
    <3>1. panel'[u] = new /\ bought'[u] = bought[u] + Days[p]
      BY <1>2, <1>4, <2>2 DEF Inv, TypeOK
    <3> QED
      BY <1>2, <1>5, <1>6, <1>7, <2>2, <3>1 DEF Inv, TypeOK
  <2>3. CASE v # u
    BY <1>4, <2>1, <2>3 DEF Inv, TypeOK
  <2>4. CASE v = u /\ panel' = panel
    <3>1. CASE bought' = bought
      BY <2>1, <2>4, <3>1
    <3>2. CASE bought' # bought
      <4>1. p \in Plan /\ panel'[u] = new /\ bought'[u] = bought[u] + Days[p]
        BY <1>2, <1>4, <3>2 DEF Inv, TypeOK
      <4> QED
        BY <1>2, <1>5, <1>6, <1>7, <2>4, <4>1 DEF Inv, TypeOK
    <3> QED
      BY <3>1, <3>2
  <2>5. p \in Plan \/ panel' = panel
    BY <1>4
  <2> QED
    BY <2>2, <2>3, <2>4, <2>5
<1>14. Placed'
  BY <1>1, <1>8 DEF Inv, Placed
<1>15. ASSUME NEW o \in Session, o # s PROVE KnowsRequest(o)' /\ KnowsPanels(o)'
  <2>1. \A v \in User \ Written(s) : panel'[v] = panel[v] /\ bought'[v] = bought[v]
    BY <1>1, <1>a, <1>4 DEF Inv, TypeOK
  <2>3. r = tx[s].item
    OBVIOUS
  <2> HIDE DEF r
  <2> QED
    BY <1>1, <1>3, <1>a, <1>8, <1>15, <2>1, <2>3, OthersKnow
<1> QED
  BY <1>3, <1>w, <1>11, <1>12, <1>13, <1>14, <1>15, EndsKnows DEF Inv

LEMMA CommitRejectedInv ==
  ASSUME Inv, NEW s \in Session, CommitRejected(s)
  PROVE  Inv'
<1> DEFINE r == tx[s].item
<1>1. /\ r \in Request /\ r \in tx[s].has /\ request[r].status # "absent"
      /\ <<s, r>> \notin stale => request[r].status = "pending"
  BY DEF CommitRejected, Inv, KnowsRequest, Deciding
<1>2. /\ Commits(s) /\ request' = [request EXCEPT ![r].status = "rejected"]
      /\ decided' = [decided EXCEPT ![r] = @ + 1]
      /\ panel' = panel /\ granted' = granted /\ bought' = bought
  BY DEF CommitRejected
<1>a. Written(s) = {r} /\ Written(s) \subseteq Rows
  BY <1>1 DEF CommitRejected, Written, Rows
<1>w. /\ stale' \subseteq Session \X Rows /\ overwritten' \subseteq Rows
      /\ overwritten \subseteq overwritten' /\ Ends(s, Outdated(s)) /\ now' = now
      /\ \A k \in Written(s) : k \notin overwritten' => <<s, k>> \notin stale
  BY <1>2, <1>a, Committed DEF Ends
<1>3. /\ request' \in [Request -> [buyer : User \cup {Nobody}, offer : Offer \cup {Nobody},
                                   status : {"absent", "pending", "approved", "rejected"}]]
      /\ \A q \in Request : q # r => request'[q] = request[q]
      /\ request'[r].status = "rejected"
      /\ request'[r].buyer = request[r].buyer /\ request'[r].offer = request[r].offer
  BY <1>1, <1>2, DecideRow
<1>4. TypeOK'
  <2>1. lock' \in [Rows -> Session \cup {Nobody}] /\ tx' \in [Session -> Tx]
    BY <1>2, <1>w, EndsKnows
  <2>2. decided' \in [Request -> Nat]
    BY <1>1, <1>2 DEF Inv, TypeOK
  <2> QED
    BY <1>2, <1>w, <1>3, <2>1, <2>2 DEF Inv, TypeOK
<1>5. DecisionUnlessOverwritten'
  <2> SUFFICES ASSUME NEW q \in Request, q \notin overwritten'
               PROVE /\ decided'[q] = (IF request'[q].status \in {"approved", "rejected"}
                                       THEN 1 ELSE 0)
                     /\ granted'[q] = (IF request'[q].status = "approved" THEN 1 ELSE 0)
    BY <1>2 DEF DecisionUnlessOverwritten
  <2>1. /\ decided[q] = (IF request[q].status \in {"approved", "rejected"} THEN 1 ELSE 0)
        /\ granted[q] = (IF request[q].status = "approved" THEN 1 ELSE 0)
    BY <1>w DEF Inv, DecisionUnlessOverwritten
  <2>2. decided'[q] = IF q = r THEN decided[q] + 1 ELSE decided[q]
    BY <1>2 DEF Inv, TypeOK
  <2> QED
    BY <1>1, <1>a, <1>w, <1>2, <1>3, <2>1, <2>2
<1>6. DaysKeptUnlessOverwritten'
  BY <1>2, <1>w DEF Inv, DaysKeptUnlessOverwritten
<1>7. Placed'
  BY <1>1, <1>3 DEF Inv, Placed
<1>8. ASSUME NEW o \in Session, o # s PROVE KnowsRequest(o)' /\ KnowsPanels(o)'
  <2>3. r = tx[s].item
    OBVIOUS
  <2> HIDE DEF r
  <2> QED
    BY <1>1, <1>2, <1>a, <1>3, <1>8, <2>3, OthersKnow
<1> QED
  BY <1>2, <1>w, <1>4, <1>5, <1>6, <1>7, <1>8, EndsKnows DEF Inv

LEMMA AbortInv ==
  ASSUME Inv, NEW s \in Session, Abort(s)
  PROVE  Inv'
<1> DEFINE n == IdleTx
<1>1. /\ n \in Tx /\ n.has = {} /\ tx' = [tx EXCEPT ![s] = n]
  BY IdleType DEF Abort, Ends, IdleTx
<1> HIDE DEF n
<1>2. /\ Ends(s, {}) /\ UNCHANGED <<tables, now>> /\ overwritten' = overwritten
      /\ stale' = {p \in stale : p[1] # s}
  BY DEF Abort, Ends
<1> QED
  BY <1>1, <1>2, EndsKnows, Inside

LEMMA TickInv ==
  ASSUME Inv, Tick
  PROVE  Inv'
<1> USE DEF Tick, tables, history, lost
<1>1. now \in Nat /\ now' = now + 1
  BY DEF Inv, TypeOK
<1>2. TypeOK' /\ DecisionUnlessOverwritten' /\ Placed'
  BY <1>1 DEF Inv, TypeOK, DecisionUnlessOverwritten, Placed
<1>3. DaysKeptUnlessOverwritten'
  BY <1>1 DEF Inv, TypeOK, Panel, DaysKeptUnlessOverwritten
<1>4. ASSUME NEW s \in Session PROVE KnowsRequest(s)' /\ KnowsPanels(s)'
  <2>1. KnowsRequest(s) /\ KnowsPanels(s) /\ tx[s].expires \in Nat
    BY DEF Inv, TypeOK, Tx
  <2>2. KnowsRequest(s)'
    BY <2>1 DEF KnowsRequest
  <2>3. \A u \in User, p \in Plan : bought[u] \in Nat /\ Days[p] \in Nat
    BY DaysAssumption DEF Inv, TypeOK
  <2>4. tx[s].pc \in {"approve", "approved"} => request[tx[s].item].buyer \in User
    BY <2>1 DEF KnowsRequest, Deciding, Inv, Placed
  <2>5. KnowsPanels(s)'
    BY <1>1, <2>1, <2>3, <2>4 DEF KnowsPanels
  <2> QED
    BY <2>2, <2>5
<1> QED
  BY <1>2, <1>3, <1>4 DEF Inv

(***************************************************************************)
(* The theorems                                                            *)
(***************************************************************************)
LEMMA StepInv ==
  ASSUME Inv, [Next]_vars
  PROVE  Inv'
<1>1. ASSUME NEW s \in Session, Step(s) PROVE Inv'
  <2>1. CASE \E u \in User : Receive(s, u)
    BY <2>1, ReceiveInv
  <2>2. CASE TakeRow(s)
    BY <2>2, TakeRowInv
  <2>3. CASE \E r \in Request :
               ApproveLook(s, r) \/ RejectLook(s, r) \/ \E o \in Offer : Buy(s, r, o)
    BY <2>3, ApproveLookInv, RejectLookInv, BuyInv
  <2>4. CASE ApproveWrite(s)
    BY <2>4, FlushInv DEF ApproveWrite
  <2>5. CASE RejectWrite(s)
    BY <2>5, FlushInv DEF RejectWrite
  <2>6. CASE CommitBought(s)
    BY <2>6, CommitBoughtInv
  <2>7. CASE CommitApproved(s)
    BY <2>7, CommitApprovedInv
  <2>8. CASE CommitRejected(s)
    BY <2>8, CommitRejectedInv
  <2>9. CASE Abort(s)
    BY <2>9, AbortInv
  <2> QED
    BY <1>1, <2>1, <2>2, <2>3, <2>4, <2>5, <2>6, <2>7, <2>8, <2>9 DEF Step
<1>2. CASE UNCHANGED vars
  BY <1>2 DEF vars, tables, history, lost, Inv, TypeOK, DecisionUnlessOverwritten,
     DaysKeptUnlessOverwritten, Placed, KnowsRequest, KnowsPanels
<1> QED
  BY <1>1, <1>2, TickInv DEF Next

THEOREM InvHolds == Spec => []Inv
BY InitInv, StepInv, PTL DEF Spec

\* Every reachable state of the shop is well typed (models/content.py).
THEOREM PurchasesTypeCorrect == Spec => []TypeOK
BY InvHolds, PTL DEF Inv

\* Until an update of a request is lost it is decided once, and granted if and only
\* if it is approved (approve_purchase, reject_purchase).
THEOREM DecidedAndGranted == Spec => []DecisionUnlessOverwritten
BY InvHolds, PTL DEF Inv

\* Until an update of a buyer is lost they keep every day that was bought
\* (grant_panel), for any plans and any number of renewals.
THEOREM DaysKept == Spec => []DaysKeptUnlessOverwritten
BY InvHolds, PTL DEF Inv
=============================================================================
