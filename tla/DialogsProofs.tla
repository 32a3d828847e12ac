--------------------------- MODULE DialogsProofs ---------------------------
(***************************************************************************)
(* Proofs about Dialogs.  The lock of a user's row makes the handlers of   *)
(* that user's updates run one after the other; the invariant says what    *)
(* Redis holds between two of them and in the middle of one.               *)
(***************************************************************************)
EXTENDS Dialogs, TLAPS

Dealing == {"order", "another order", "gift"}

\* Who has the lock of a row is handling an update of that user.
Holds(s) ==
  LET t == tx[s]
  IN  /\ t.pc # "idle" => t.actor \in User
      /\ t.pc = "idle" => t = IdleTx
      /\ t.pc \notin {"idle", "read"} => lock[t.actor] = s
      /\ \A u \in User : lock[u] = s => t.actor = u /\ t.pc \notin {"idle", "read"}

\* The tokens in the data d of u and in the report that is awaited are given,
\* unused and different.
Fresh(u, k) == k # Nobody => k \in given[u] /\ used[<<u, k>>] = 0

Sound(u, d) ==
  /\ Fresh(u, d.preview) /\ Fresh(u, d.form) /\ Fresh(u, report[u])
  /\ d.preview # Nobody => d.preview # d.form /\ d.preview # report[u]
  /\ d.form # Nobody => d.form # report[u]

\* A token is used at most once, and only when it was given.
Spent(u) == \A k \in Token : used[<<u, k>>] <= 1 /\ (used[<<u, k>>] # 0 => k \in given[u])

\* The handler at s has written one part of the dialog or not told the user.
Writing(s) == tx[s].pc \in {"data last", "state last", "tell"} /\ tx[s].makes # "report"

Mid(u) == \E s \in Session : lock[u] = s /\ Writing(s)

\* Between two handlers that did not fail, the state of a dialog fits its data
\* and what the user was told.
Coherent(u) ==
  u \notin torn /\ ~Mid(u) =>
    /\ state[u] = "confirm" => data[u].order = shown[u]
    /\ state[u] = "contact" => data[u].item = asked[u]
    /\ state[u] = "ticket" => awaited[u]

\* What is left to write fits what will be told.
Plans(s) ==
  LET t == tx[s]
  IN  /\ t.pc \in {"data", "state", "data last", "state last", "tell"} /\ t.makes # "report" =>
           /\ t.state = "confirm" => t.makes = "preview"
           /\ t.state = "contact" => t.makes = "question"
      /\ t.pc = "data" => t.state \notin {"contact", "ticket"}
      /\ t.pc \in {"state", "data last"} => t.state # "ticket"
      /\ t.pc = "data last" => state[t.actor] = t.state
      /\ t.pc = "state last" => data[t.actor] = t.data /\ t.state # "contact"
      /\ t.pc = "tell" /\ t.makes # "report" =>
           /\ state[t.actor] = t.state /\ data[t.actor] = t.data
           /\ t.state = "ticket" => awaited[t.actor]
      /\ t.pc \in {"data", "state", "data last", "state last"} =>
           Sound(t.actor, t.data) /\ t.makes # "report"

\* The token it is about to use is unused, and nobody else's.
Pending(s) ==
  LET t == tx[s]
      u == t.actor
      k == t.token
  IN  /\ t.makes \in Dealing =>
           /\ t.data = NoData
           /\ t.pc \in {"state", "data last", "tell", "done"}
           /\ t.pc = "done" => data[u] = NoData
           /\ k # Nobody => k \in given[u] /\ used[<<u, k>>] = 0 /\ k # report[u]
      /\ t.makes = "report" /\ t.pc = "tell" =>
           /\ k \in given[u] /\ used[<<u, k>>] = 0
           /\ k \notin {data[u].preview, data[u].form, report[u]}
      /\ t.makes = "report" => t.pc \in {"tell", "done"}

\* A session that is sure of it has read the state that is still there.
Sure(s) ==
  LET t == tx[s]
  IN  t.sure =>
        /\ t.pc = "read" => \A o \in Session : o # s => tx[o].actor # t.actor
        /\ t.pc \in {"read", "ready"} => t.raw = state[t.actor]
        /\ t.pc = "ready" => t.actor \notin torn
        /\ t.makes \notin Unexpected

Knows(s) == Holds(s) /\ Plans(s) /\ Pending(s) /\ Sure(s)
Good(u) == Sound(u, data[u]) /\ Spent(u) /\ Coherent(u)

Inv ==
  /\ TypeOK
  /\ \A s \in Session : Knows(s)
  /\ \A u \in User : Good(u)

\* What a session knows is about its user's part of Redis only.
LEMMA Untouched ==
  ASSUME Inv, NEW o \in Session, NEW v \in User, tx[o].actor = v, tx'[o] = tx[o],
         state'[v] = state[v], data'[v] = data[v], report'[v] = report[v],
         given'[v] = given[v], awaited'[v] = awaited[v],
         \A k \in Token : used'[<<v, k>>] = used[<<v, k>>]
  PROVE  Plans(o)' /\ Pending(o)'
<1>1. Plans(o) /\ Pending(o) /\ given[v] \subseteq Token
  BY DEF Inv, TypeOK, Knows
<1>2. \A k \in given[v] : used'[<<v, k>>] = used[<<v, k>>]
  BY <1>1
<1>3. Plans(o)'
  <2>1. (v = tx[o].actor /\ Sound(v, tx[o].data))
         => Sound(tx[o].actor, tx[o].data)'
    BY <1>2 DEF Sound, Fresh
  <2>2. awaited[tx[o].actor] => awaited[tx[o].actor]'
    BY Zenon
  <2> QED
    BY <1>1, <2>1, <2>2 DEF Plans
<1>4. Pending(o)'
  BY <1>1, <1>2 DEF Pending, Dealing, NoData, NoOrder
<1> QED
  BY <1>3, <1>4

LEMMA Types ==
  /\ NoOrder \in Order /\ NoData \in Data /\ IdleTx \in Tx
  /\ IdleTx.pc = "idle" /\ IdleTx.makes \notin Dealing \cup {"report"}
BY DEF NoOrder, Order, NoData, Data, IdleTx, Tx, States, Dealing

LEMMA InitInv == Init => Inv
<1> SUFFICES ASSUME Init PROVE Inv
  OBVIOUS
<1> USE NobodyAssumption DEF Init
<1>1. TypeOK
  BY Types DEF TypeOK, States
<1>2. ASSUME NEW s \in Session PROVE Knows(s)
  BY <1>2 DEF Knows, Holds, Plans, Pending, Sure, IdleTx, Dealing
<1>3. ASSUME NEW u \in User PROVE Good(u)
  <2>1. data[u] = NoData /\ report[u] = Nobody /\ given[u] = {} /\ state[u] = "none"
    OBVIOUS
  <2>2. Sound(u, data[u])
    BY <2>1 DEF Sound, Fresh, NoData
  <2>3. Spent(u)
    BY DEF Spent
  <2>4. Coherent(u)
    BY <2>1 DEF Coherent
  <2> QED
    BY <2>2, <2>3, <2>4 DEF Good
<1> QED
  BY <1>1, <1>2, <1>3 DEF Inv

\* A step of the handler at s touches what belongs to its user and nothing else.
LEMMA Local ==
  ASSUME Inv, NEW s \in Session, NEW u \in User, NEW n \in Tx,
         tx[s].actor = u, tx[s].pc \notin {"idle", "read"},
         n.actor = u, n.pc \notin {"idle", "read"},
         tx' = [tx EXCEPT ![s] = n], lock' = lock, TypeOK',
         \A v \in User : v # u =>
           /\ state'[v] = state[v] /\ data'[v] = data[v] /\ report'[v] = report[v]
           /\ given'[v] = given[v] /\ (v \in torn' <=> v \in torn)
           /\ shown'[v] = shown[v] /\ asked'[v] = asked[v] /\ awaited'[v] = awaited[v]
           /\ \A k \in Token : used'[<<v, k>>] = used[<<v, k>>],
         Plans(s)', Pending(s)', n.sure => n.makes \notin Unexpected,
         n.pc = "ready" => n.raw = state'[u] /\ u \notin torn',
         Good(u)'
  PROVE  Inv'
<1> USE NobodyAssumption
<1>1. \A t \in Session : tx'[t] = IF t = s THEN n ELSE tx[t]
  BY DEF Inv, TypeOK
<1>2. lock[u] = s
  BY DEF Inv, Knows, Holds
<1>3. ASSUME NEW t \in Session PROVE Knows(t)'
  <2>1. CASE t = s
    <3>1. tx'[s] = n
      BY <1>1
    <3>2. Holds(s)'
      BY <1>2, <3>1 DEF Inv, Knows, Holds
    <3>3. Sure(s)'
      BY <3>1 DEF Sure
    <3> QED
      BY <2>1, <3>2, <3>3 DEF Knows
  <2>2. CASE t # s
    <3>1. tx'[t] = tx[t] /\ Knows(t) /\ tx[t] \in Tx
      BY <1>1, <2>2 DEF Inv, TypeOK
    <3>2. Holds(t)'
      BY <3>1 DEF Knows, Holds
    <3>3. CASE tx[t].actor = u \/ tx[t].pc = "idle"
      <4>1. tx[t].pc \in {"idle", "read"}
        BY <1>2, <2>2, <3>1, <3>3 DEF Knows, Holds
      <4>2. Plans(t)' /\ Pending(t)'
        BY <3>1, <4>1 DEF Knows, Plans, Pending
      <4>3. Sure(t)'
        <5>1. ASSUME tx[t].pc = "read" PROVE ~tx[t].sure
          <6>1. tx[t].actor = u
            BY <3>3, <5>1
          <6> QED
            BY <2>2, <3>1, <5>1, <6>1 DEF Knows, Sure
        <5>2. tx[t].pc = "idle" => ~tx[t].sure
          BY <3>1 DEF Knows, Holds, IdleTx
        <5> QED
          BY <3>1, <4>1, <5>1, <5>2 DEF Sure
      <4> QED
        BY <3>2, <4>2, <4>3 DEF Knows
    <3>4. CASE tx[t].actor # u /\ tx[t].pc # "idle"
      <4>1. PICK v \in User : v = tx[t].actor /\ v # u
        BY <3>1, <3>4 DEF Knows, Holds
      <4>2. state'[v] = state[v] /\ (v \in torn' <=> v \in torn)
        BY <4>1
      <4>3. Plans(t)' /\ Pending(t)'
        BY <3>1, <4>1, Untouched
      <4>7. Sure(t)'
        <5>1. tx'[s].actor = tx[s].actor
          BY <1>1
        <5>2. \A o \in Session : tx'[o].actor = tx[o].actor
          BY <1>1, <5>1
        <5> QED
          BY <3>1, <4>1, <4>2, <5>2 DEF Knows, Sure
      <4> QED
        BY <3>2, <4>3, <4>7 DEF Knows
    <3> QED
      BY <3>3, <3>4
  <2> QED
    BY <2>1, <2>2
<1>4. ASSUME NEW v \in User, v # u PROVE Good(v)'
  <2>1. Good(v) /\ given[v] \subseteq Token
    BY DEF Inv, TypeOK
  <2>2. Mid(v)' <=> Mid(v)
    <3>1. \A t \in Session : lock[v] = t => t # s
      BY <1>2, <1>4 DEF Inv, Knows, Holds
    <3>2. \A t \in Session : t # s => (Writing(t)' <=> Writing(t))
      BY <1>1 DEF Writing
    <3> QED
      BY <3>1, <3>2 DEF Mid
  <2>3. Sound(v, data[v])'
    BY <1>4, <2>1 DEF Good, Sound, Fresh
  <2>4. Spent(v)'
    BY <1>4, <2>1 DEF Good, Spent
  <2>5. Coherent(v)'
    BY <1>4, <2>1, <2>2 DEF Good, Coherent
  <2> QED
    BY <2>3, <2>4, <2>5 DEF Good
<1> QED
  BY <1>3, <1>4 DEF Inv

\* A handler that starts: nothing of its user's dialog is being written.
LEMMA Ready ==
  ASSUME Inv, NEW s \in Session, tx[s].pc = "ready"
  PROVE  LET u == tx[s].actor
         IN  /\ u \in User /\ lock[u] = s /\ tx[s] \in Tx /\ Knows(s) /\ Good(u) /\ ~Mid(u)
             /\ given[u] \subseteq Token /\ data[u] \in Data
             /\ tx[s].sure => /\ tx[s].raw = "confirm" => data[u].order = shown[u]
                              /\ tx[s].raw = "contact" => data[u].item = asked[u]
                              /\ tx[s].raw = "ticket" => awaited[u]
<1> DEFINE u == tx[s].actor
<1>1. u \in User /\ lock[u] = s /\ tx[s] \in Tx /\ Knows(s)
  BY DEF Inv, TypeOK, Knows, Holds
<1>2. Good(u) /\ given[u] \subseteq Token /\ data[u] \in Data
  BY <1>1 DEF Inv, TypeOK
<1>3. ~Mid(u)
  BY <1>1 DEF Mid, Writing
<1>4. ASSUME tx[s].sure
      PROVE  u \notin torn /\ tx[s].raw = state[u] /\ Coherent(u)
  BY <1>1, <1>2, <1>4 DEF Knows, Sure, Good
<1> HIDE DEF u
<1>5. ASSUME tx[s].sure
      PROVE  /\ tx[s].raw = "confirm" => data[u].order = shown[u]
             /\ tx[s].raw = "contact" => data[u].item = asked[u]
             /\ tx[s].raw = "ticket" => awaited[u]
  BY <1>3, <1>4, <1>5 DEF Coherent
<1> QED
  BY <1>1, <1>2, <1>3, <1>5 DEF u

\* What a handler that has run up to pc leaves in its session.
LEMMA HandledTx ==
  ASSUME Inv, NEW s \in Session, tx[s].actor \in User,
         NEW pc \in {"data", "state", "state last", "tell", "done"}
  PROVE  LET h == Handled(s, pc)
         IN  /\ h \in Tx /\ h.pc = pc /\ h.actor = tx[s].actor /\ h.sure = tx[s].sure
             /\ h.state = "none" /\ h.data = NoData /\ h.makes = "nothing" /\ h.token = Nobody
<1>1. tx[s].sure \in BOOLEAN /\ IdleTx \in Tx
  BY Types DEF Inv, TypeOK, Tx
<1>2. Handled(s, pc) \in Tx
  BY <1>1 DEF Handled, Tx
<1> QED
  BY <1>1, <1>2 DEF Handled, IdleTx

\* A handler that only clears the dialog and then makes m.
LEMMA ClearsInv ==
  ASSUME Inv, NEW s \in Session, tx[s].pc = "ready",
         NEW m \in {"nothing", "gift", "order", "request", "ticket"} \cup Unexpected,
         NEW k \in {Nobody, data[tx[s].actor].preview, data[tx[s].actor].form},
         Clears(s, m, k), UNCHANGED <<redis, phone, ghosts, lock>>,
         tx[s].sure => m \notin Unexpected
  PROVE  Inv'
<1> USE NobodyAssumption
<1>0. PICK u \in User : u = tx[s].actor
  BY Ready
<1> DEFINE n == [Handled(s, "state") EXCEPT !.makes = m, !.token = k]
<1>1. /\ u \in User /\ lock[u] = s /\ tx[s] \in Tx /\ Good(u) /\ ~Mid(u)
      /\ given[u] \subseteq Token /\ data[u] \in Data
  BY <1>0, Ready
<1>2. k \in Token \cup {Nobody}
  BY <1>0, <1>1 DEF Data
<1>3. /\ n.pc = "state" /\ n.actor = u /\ n.sure = tx[s].sure
      /\ n.state = "none" /\ n.data = NoData /\ n.makes = m /\ n.token = k /\ n \in Tx
  <2> DEFINE h == Handled(s, "state")
  <2>1. h \in Tx /\ h.pc = "state" /\ h.actor = u /\ h.sure = tx[s].sure
        /\ h.state = "none" /\ h.data = NoData
    BY <1>0, HandledTx
  <2> HIDE DEF h
  <2>2. n = [h EXCEPT !.makes = m, !.token = k]
    BY DEF h
  <2> QED
    BY <1>2, <2>1, <2>2 DEF Tx, Unexpected
<1>4. n \in Tx
  BY <1>3
<1>5. /\ tx' = [tx EXCEPT ![s] = n] /\ lock' = lock /\ phone' = phone
      /\ state' = state /\ data' = data /\ report' = report /\ given' = given
      /\ used' = used /\ shown' = shown /\ asked' = asked /\ awaited' = awaited /\ torn' = torn
  BY DEF Clears, redis, ghosts
<1>6. tx' \in [Session -> Tx] /\ tx'[s] = n
  BY <1>4, <1>5 DEF Inv, TypeOK
<1>7. TypeOK'
  BY <1>5, <1>6 DEF Inv, TypeOK
<1>8. Sound(u, NoData) /\ (k # Nobody => k \in given[u] /\ used[<<u, k>>] = 0 /\ k # report[u])
  <2>1. Sound(u, data[u])
    BY <1>1 DEF Good
  <2> QED
    BY <1>0, <2>1 DEF Sound, Fresh, NoData
<1> HIDE DEF n
<1>9. Plans(s)'
  <2>1. Sound(tx[s].actor, tx[s].data)'
    BY <1>3, <1>5, <1>6, <1>8 DEF Sound, Fresh
  <2> QED
    BY <1>3, <1>6, <2>1 DEF Plans, Unexpected
<1>10. Pending(s)'
  BY <1>3, <1>5, <1>6, <1>8 DEF Pending, Dealing, NoData, NoOrder, Unexpected
<1>11. Good(u)'
  <2>1. ~Mid(u)'
    BY <1>1, <1>3, <1>5, <1>6 DEF Mid, Writing
  <2>2. Sound(u, data[u])'
    BY <1>1, <1>5 DEF Good, Sound, Fresh
  <2>3. Spent(u)'
    BY <1>1, <1>5 DEF Good, Spent
  <2>4. Coherent(u)'
    BY <1>1, <1>5, <2>1 DEF Good, Coherent
  <2> QED
    BY <2>2, <2>3, <2>4 DEF Good
<1> QED
  BY <1>0, <1>1, <1>3, <1>4, <1>5, <1>7, <1>9, <1>10, <1>11, Local

\* A handler that asks the next question, and may give its user a new token.
LEMMA GoesInv ==
  ASSUME Inv, NEW s \in Session, NEW u \in User, u = tx[s].actor, tx[s].pc = "ready",
         NEW pc \in {"data", "state", "state last"}, NEW st \in States, NEW d \in Data,
         NEW m \in {"nothing", "preview", "question"},
         Goes(s, pc, st, d, m),
         \/ given' = given
         \/ \E k \in Token : Gives(u, k),
         UNCHANGED <<redis, phone, used, shown, asked, awaited, torn, lock>>,
         Sound(u, d)',
         st = "confirm" => m = "preview", st = "contact" => m = "question",
         pc = "data" => st \notin {"contact", "ticket"}, pc = "state" => st # "ticket",
         pc = "state last" => d = data[u] /\ st # "contact"
  PROVE  Inv'
<1> USE NobodyAssumption
<1>0. u = tx[s].actor /\ tx[s].pc = "ready"
  OBVIOUS
<1> DEFINE n == [Handled(s, pc) EXCEPT !.state = st, !.data = d, !.makes = m]
<1>1. /\ u \in User /\ lock[u] = s /\ tx[s] \in Tx /\ Good(u) /\ ~Mid(u)
      /\ given[u] \subseteq Token /\ data[u] \in Data
  <2>1. LET v == tx[s].actor
        IN  /\ v \in User /\ lock[v] = s /\ tx[s] \in Tx /\ Good(v) /\ ~Mid(v)
            /\ given[v] \subseteq Token /\ data[v] \in Data
    BY <1>0, Ready
  <2> QED
    BY <1>0, <2>1
<1>3. /\ n.pc = pc /\ n.actor = u /\ n.sure = tx[s].sure
      /\ n.state = st /\ n.data = d /\ n.makes = m /\ n.token = Nobody /\ n \in Tx
  <2> DEFINE h == Handled(s, pc)
  <2>0. pc \in {"data", "state", "state last", "tell", "done"}
    OBVIOUS
  <2>1. h \in Tx /\ h.pc = pc /\ h.actor = u /\ h.sure = tx[s].sure /\ h.token = Nobody
    BY <1>0, <2>0, HandledTx
  <2> HIDE DEF h
  <2>2. n = [h EXCEPT !.state = st, !.data = d, !.makes = m]
    BY DEF h
  <2> HIDE DEF n
  <2>3. n \in Tx
    BY <2>1, <2>2 DEF Tx
  <2> QED
    BY <2>1, <2>2, <2>3 DEF Tx
<1>4. n \in Tx
  BY <1>3
<1>5. /\ tx' = [tx EXCEPT ![s] = n] /\ lock' = lock /\ phone' = phone
      /\ state' = state /\ data' = data /\ report' = report
      /\ used' = used /\ shown' = shown /\ asked' = asked /\ awaited' = awaited /\ torn' = torn
  BY DEF Goes, redis
<1>6. tx' \in [Session -> Tx] /\ tx'[s] = n
  BY <1>4, <1>5 DEF Inv, TypeOK
<1>7. /\ given' \in [User -> SUBSET Token] /\ given[u] \subseteq given'[u]
      /\ \A v \in User : v # u => given'[v] = given[v]
  <2>1. given \in [User -> SUBSET Token]
    BY DEF Inv, TypeOK
  <2>2. CASE given' = given
    BY <2>1, <2>2
  <2>3. ASSUME NEW k \in Token, Gives(u, k)
        PROVE  /\ given' \in [User -> SUBSET Token] /\ given[u] \subseteq given'[u]
               /\ \A v \in User : v # u => given'[v] = given[v]
    <3>1. given' = [given EXCEPT ![u] = @ \cup {k}]
      BY <2>3 DEF Gives
    <3>2. given' \in [User -> SUBSET Token]
      BY <2>1, <3>1
    <3> QED
      BY <2>1, <3>1, <3>2
  <2> QED
    BY <1>0, <2>2, <2>3
<1>8. TypeOK'
  BY <1>5, <1>6, <1>7 DEF Inv, TypeOK
<1> HIDE DEF n
<1>9. Plans(s)'
  <2>1. Sound(tx[s].actor, tx[s].data)'
    BY <1>0, <1>3, <1>6 DEF Sound, Fresh
  <2>2. tx'[s].pc \in {"data", "state", "state last"} /\ tx'[s].makes # "report"
    BY <1>3, <1>6
  <2>3. tx'[s].pc = "state last" => data'[tx'[s].actor] = tx'[s].data /\ tx'[s].state # "contact"
    BY <1>0, <1>3, <1>5, <1>6
  <2> QED
    BY <1>3, <1>6, <2>1, <2>2, <2>3 DEF Plans
<1>10. Pending(s)'
  BY <1>3, <1>6 DEF Pending, Dealing
<1>11. Good(u)'
  <2>2. Sound(u, data[u])'
    BY <1>1, <1>5, <1>7 DEF Good, Sound, Fresh
  <2>3. Spent(u)'
    BY <1>1, <1>5, <1>7 DEF Good, Spent
  <2>4. Coherent(u)'
    <3>1. pc # "state last" => ~Mid(u)'
      BY <1>1, <1>3, <1>5, <1>6 DEF Mid, Writing
    <3>2. pc = "state last" => Mid(u)'
      BY <1>1, <1>3, <1>5, <1>6 DEF Mid, Writing
    <3> QED
      BY <1>1, <1>5, <3>1, <3>2 DEF Good, Coherent
  <2> QED
    BY <2>2, <2>3, <2>4 DEF Good
<1>12. n.pc \notin {"idle", "read", "ready"} /\ m \notin Unexpected
  BY <1>3 DEF Unexpected
<1>13. \A v \in User : v # u =>
         /\ state'[v] = state[v] /\ data'[v] = data[v] /\ report'[v] = report[v]
         /\ given'[v] = given[v] /\ (v \in torn' <=> v \in torn)
         /\ shown'[v] = shown[v] /\ asked'[v] = asked[v] /\ awaited'[v] = awaited[v]
         /\ \A k \in Token : used'[<<v, k>>] = used[<<v, k>>]
  BY <1>5, <1>7
<1> QED
  BY <1>0, <1>3, <1>4, <1>5, <1>8, <1>9, <1>10, <1>11, <1>12, <1>13, Local

LEMMA AskReportInv == ASSUME Inv, NEW s \in Session, AskReport(s) PROVE Inv'
<1> USE NobodyAssumption
<1>0. PICK u \in User : u = tx[s].actor /\ tx[s].pc = "ready"
  BY Ready DEF AskReport
<1>1. /\ lock[u] = s /\ tx[s] \in Tx /\ Good(u) /\ ~Mid(u) /\ Knows(s)
      /\ given[u] \subseteq Token /\ data[u] \in Data
  BY <1>0, Ready
<1>2. PICK k \in Token : Gives(u, k) /\ report' = [report EXCEPT ![u] = k]
  BY <1>0 DEF AskReport
<1>3. PICK n : n = Handled(s, "done")
  OBVIOUS
<1>4. /\ n.pc = "done" /\ n.actor = u /\ n.sure = tx[s].sure /\ n.state = "none"
      /\ n.data = NoData /\ n.makes = "nothing" /\ n.token = Nobody /\ n \in Tx
  BY <1>0, <1>3, HandledTx
<1>5. /\ tx' = [tx EXCEPT ![s] = n] /\ lock' = lock /\ phone' = phone
      /\ state' = state /\ data' = data
      /\ used' = used /\ shown' = shown /\ asked' = asked /\ awaited' = awaited /\ torn' = torn
  BY <1>3 DEF AskReport
<1>6. tx' \in [Session -> Tx] /\ tx'[s] = n
  BY <1>4, <1>5 DEF Inv, TypeOK
<1>7. /\ report' \in [User -> Token \cup {Nobody}] /\ report'[u] = k
      /\ given' \in [User -> SUBSET Token] /\ given'[u] = given[u] \cup {k}
      /\ k \notin given[u]
      /\ \A v \in User : v # u => given'[v] = given[v] /\ report'[v] = report[v]
  <2>1. given \in [User -> SUBSET Token] /\ report \in [User -> Token \cup {Nobody}]
    BY DEF Inv, TypeOK
  <2>2. given' = [given EXCEPT ![u] = @ \cup {k}] /\ k \notin given[u]
    BY <1>2 DEF Gives
  <2>3. given' \in [User -> SUBSET Token]
    BY <2>1, <2>2
  <2> QED
    BY <1>2, <2>1, <2>2, <2>3
<1>8. TypeOK'
  BY <1>5, <1>6, <1>7 DEF Inv, TypeOK
<1>9. Plans(s)' /\ Pending(s)'
  BY <1>4, <1>6 DEF Plans, Pending, Dealing
<1>10. Good(u)'
  <2>1. Sound(u, data[u]) /\ Spent(u) /\ Coherent(u)
    BY <1>1 DEF Good
  <2>2. used[<<u, k>>] = 0
    <3>1. <<u, k>> \in User \X Token /\ used \in [User \X Token -> Nat]
      BY DEF Inv, TypeOK
    <3> QED
      BY <1>7, <2>1 DEF Spent
  <2>3. Sound(u, data[u])'
    BY <1>5, <1>7, <2>1, <2>2 DEF Sound, Fresh
  <2>4. Spent(u)'
    BY <1>5, <1>7, <2>1 DEF Spent
  <2>5. ~Mid(u)'
    BY <1>1, <1>4, <1>5, <1>6 DEF Mid, Writing
  <2>6. Coherent(u)'
    BY <1>1, <1>5, <2>1, <2>5 DEF Coherent
  <2> QED
    BY <2>3, <2>4, <2>6 DEF Good
<1>11. "nothing" \notin Unexpected
  BY DEF Unexpected
<1> QED
  BY <1>0, <1>4, <1>5, <1>7, <1>8, <1>9, <1>10, <1>11, Local

LEMMA CaptureReportInv == ASSUME Inv, NEW s \in Session, CaptureReport(s) PROVE Inv'
<1> USE NobodyAssumption
<1>0. PICK u \in User : u = tx[s].actor /\ tx[s].pc = "ready"
  BY Ready DEF CaptureReport
<1>1. /\ lock[u] = s /\ tx[s] \in Tx /\ Good(u) /\ ~Mid(u) /\ Knows(s)
      /\ given[u] \subseteq Token /\ data[u] \in Data
  BY <1>0, Ready
<1>2. PICK k : k = report[u] /\ k # Nobody /\ k \in Token
  BY <1>0 DEF CaptureReport, Inv, TypeOK
<1>3. PICK n : n = [Handled(s, "tell") EXCEPT !.makes = "report", !.token = k]
  OBVIOUS
<1>4. /\ n.pc = "tell" /\ n.actor = u /\ n.sure = tx[s].sure
      /\ n.makes = "report" /\ n.token = k /\ n \in Tx
  <2>1. PICK h \in Tx : /\ h = Handled(s, "tell") /\ h.pc = "tell" /\ h.actor = u
                       /\ h.sure = tx[s].sure
    BY <1>0, HandledTx
  <2>2. n = [h EXCEPT !.makes = "report", !.token = k]
    BY <1>3, <2>1
  <2>3. n \in Tx
    BY <1>2, <2>1, <2>2 DEF Tx
  <2> QED
    BY <2>1, <2>2, <2>3 DEF Tx
<1>5. /\ tx' = [tx EXCEPT ![s] = n] /\ lock' = lock /\ phone' = phone
      /\ state' = state /\ data' = data /\ given' = given
      /\ used' = used /\ shown' = shown /\ asked' = asked /\ awaited' = awaited /\ torn' = torn
      /\ report' = [report EXCEPT ![u] = Nobody]
  BY <1>0, <1>2, <1>3 DEF CaptureReport, ghosts
<1>6. tx' \in [Session -> Tx] /\ tx'[s] = n
  BY <1>4, <1>5 DEF Inv, TypeOK
<1>7. /\ report' \in [User -> Token \cup {Nobody}] /\ report'[u] = Nobody
      /\ \A v \in User : v # u => report'[v] = report[v]
  BY <1>5 DEF Inv, TypeOK
<1>8. TypeOK'
  BY <1>5, <1>6, <1>7 DEF Inv, TypeOK
<1>9. Sound(u, data[u]) /\ Spent(u) /\ Coherent(u)
  BY <1>1 DEF Good
<1>10. Plans(s)' /\ Pending(s)'
  <2>1. Plans(s)'
    BY <1>4, <1>6 DEF Plans
  <2>2. k \in given[u] /\ used[<<u, k>>] = 0 /\ k \notin {data[u].preview, data[u].form}
    BY <1>2, <1>9 DEF Sound, Fresh
  <2>3. Pending(s)'
    BY <1>2, <1>4, <1>5, <1>6, <1>7, <2>2 DEF Pending, Dealing
  <2> QED
    BY <2>1, <2>3
<1>11. Good(u)'
  <2>3. Sound(u, data[u])'
    BY <1>5, <1>7, <1>9 DEF Sound, Fresh
  <2>4. Spent(u)'
    BY <1>5, <1>7, <1>9 DEF Spent
  <2>5. ~Mid(u)'
    BY <1>1, <1>4, <1>5, <1>6 DEF Mid, Writing
  <2>6. Coherent(u)'
    BY <1>1, <1>5, <1>9, <2>5 DEF Coherent
  <2> QED
    BY <2>3, <2>4, <2>6 DEF Good
<1>12. "report" \notin Unexpected
  BY DEF Unexpected
<1> QED
  BY <1>0, <1>4, <1>5, <1>7, <1>8, <1>10, <1>11, <1>12, Local

\* A handler that has made its request, without a dialog.
LEMMA BuyDoneInv ==
  ASSUME Inv, NEW s \in Session, tx[s].pc = "ready",
         tx' = [tx EXCEPT ![s] = Handled(s, "done")],
         UNCHANGED <<redis, phone, ghosts, lock>>
  PROVE  Inv'
<1> USE NobodyAssumption
<1>0. PICK u \in User : u = tx[s].actor /\ tx[s].pc = "ready"
  BY Ready
<1>1. /\ lock[u] = s /\ tx[s] \in Tx /\ Good(u) /\ ~Mid(u) /\ Knows(s)
  BY <1>0, Ready
<1>3. PICK n : n = Handled(s, "done")
  OBVIOUS
<1>4. /\ n.pc = "done" /\ n.actor = u /\ n.sure = tx[s].sure /\ n.state = "none"
      /\ n.data = NoData /\ n.makes = "nothing" /\ n.token = Nobody /\ n \in Tx
  BY <1>0, <1>3, HandledTx
<1>5. /\ tx' = [tx EXCEPT ![s] = n] /\ lock' = lock /\ phone' = phone
      /\ state' = state /\ data' = data /\ report' = report /\ given' = given
      /\ used' = used /\ shown' = shown /\ asked' = asked /\ awaited' = awaited /\ torn' = torn
  BY <1>3 DEF redis, ghosts
<1>6. tx' \in [Session -> Tx] /\ tx'[s] = n
  BY <1>4, <1>5 DEF Inv, TypeOK
<1>8. TypeOK'
  BY <1>5, <1>6 DEF Inv, TypeOK
<1>9. Plans(s)' /\ Pending(s)'
  BY <1>4, <1>6 DEF Plans, Pending, Dealing
<1>10. Good(u)'
  <2>1. Sound(u, data[u]) /\ Spent(u) /\ Coherent(u)
    BY <1>1 DEF Good
  <2>3. Sound(u, data[u])' /\ Spent(u)'
    BY <1>5, <2>1 DEF Sound, Fresh, Spent
  <2>5. ~Mid(u)'
    BY <1>1, <1>4, <1>5, <1>6 DEF Mid, Writing
  <2>6. Coherent(u)'
    BY <1>1, <1>5, <2>1, <2>5 DEF Coherent
  <2> QED
    BY <2>3, <2>6 DEF Good
<1>11. "nothing" \notin Unexpected
  BY DEF Unexpected
<1> QED
  BY <1>0, <1>4, <1>5, <1>8, <1>9, <1>10, <1>11, Local

\* What is known about the handler at s when it writes or tells.
LEMMA Running ==
  ASSUME Inv, NEW s \in Session, tx[s].pc \notin {"idle", "read"}
  PROVE  /\ tx[s].actor \in User /\ lock[tx[s].actor] = s /\ tx[s] \in Tx
         /\ Knows(s) /\ Good(tx[s].actor)
BY DEF Inv, TypeOK, Knows, Holds

LEMMA WriteDataInv == ASSUME Inv, NEW s \in Session, WriteData(s) PROVE Inv'
<1> USE NobodyAssumption
<1>0. PICK u \in User, t \in Tx : u = tx[s].actor /\ t = tx[s] /\ t.pc \in {"data", "data last"}
  BY Running DEF WriteData
<1>1. lock[u] = s /\ Knows(s) /\ Good(u)
  BY <1>0, Running
<1>3. PICK n : n = [t EXCEPT !.pc = IF @ = "data" THEN "state last" ELSE "tell"]
  OBVIOUS
<1>4. /\ n.pc = IF t.pc = "data" THEN "state last" ELSE "tell"
      /\ n.actor = u /\ n.sure = t.sure /\ n.state = t.state /\ n.data = t.data
      /\ n.makes = t.makes /\ n.token = t.token /\ n \in Tx
  BY <1>0, <1>3 DEF Tx
<1>5. /\ tx' = [tx EXCEPT ![s] = n] /\ lock' = lock /\ phone' = phone
      /\ state' = state /\ report' = report /\ given' = given /\ used' = used
      /\ data' = [data EXCEPT ![u] = t.data]
  BY <1>0, <1>3 DEF WriteData
<1>6. tx' \in [Session -> Tx] /\ tx'[s] = n
  BY <1>4, <1>5 DEF Inv, TypeOK
<1>7. /\ data' \in [User -> Data] /\ data'[u] = t.data
      /\ \A v \in User : v # u => data'[v] = data[v]
  BY <1>0, <1>5 DEF Inv, TypeOK, Tx
<1>8. /\ shown' \in [User -> Order] /\ asked' \in [User -> Offer \cup {Nobody}]
      /\ awaited' \in [User -> BOOLEAN] /\ torn' \subseteq User
      /\ \A v \in User : v # u => /\ shown'[v] = shown[v] /\ asked'[v] = asked[v]
                                 /\ awaited'[v] = awaited[v] /\ (v \in torn' <=> v \in torn)
  <2>1. /\ shown \in [User -> Order] /\ asked \in [User -> Offer \cup {Nobody}]
        /\ awaited \in [User -> BOOLEAN] /\ torn \subseteq User
    BY DEF Inv, TypeOK
  <2>2. CASE UNCHANGED <<shown, asked, awaited, torn>>
    BY <2>1, <2>2
  <2>3. CASE /\ shown' = [shown EXCEPT ![u] = NoOrder] /\ asked' = [asked EXCEPT ![u] = Nobody]
             /\ awaited' = [awaited EXCEPT ![u] = FALSE] /\ torn' = torn \ {u}
    BY <2>1, <2>3, Types
  <2> QED
    BY <1>0, <2>2, <2>3 DEF WriteData
<1>9. TypeOK'
  BY <1>5, <1>6, <1>7, <1>8 DEF Inv, TypeOK
<1>10. /\ Sound(u, t.data) /\ t.makes # "report"
       /\ t.state = "confirm" => t.makes = "preview"
       /\ t.state = "contact" => t.makes = "question"
       /\ t.pc = "data" => t.state \notin {"contact", "ticket"}
       /\ t.pc = "data last" => state[u] = t.state /\ t.state # "ticket"
       /\ t.makes \in Dealing =>
            /\ t.data = NoData /\ t.pc = "data last"
            /\ t.token # Nobody =>
                 t.token \in given[u] /\ used[<<u, t.token>>] = 0 /\ t.token # report[u]
  <2>1. Plans(s) /\ Pending(s)
    BY <1>1 DEF Knows
  <2> QED
    BY <1>0, <2>1 DEF Plans, Pending
<1>11. Plans(s)'
  <2>1. Sound(tx[s].actor, tx[s].data)'
    BY <1>4, <1>5, <1>6, <1>10 DEF Sound, Fresh
  <2>2. tx'[s].pc \in {"state last", "tell"} /\ (tx'[s].pc = "tell" => t.pc = "data last")
    BY <1>0, <1>4, <1>6
  <2> QED
    BY <1>4, <1>5, <1>6, <1>7, <1>10, <2>1, <2>2 DEF Plans
<1>12. Pending(s)'
  BY <1>0, <1>4, <1>5, <1>6, <1>10 DEF Pending, Dealing, NoData, NoOrder
<1>13. Good(u)'
  <2>1. Sound(u, data[u])'
    BY <1>5, <1>7, <1>10 DEF Sound, Fresh
  <2>2. Spent(u)'
    BY <1>1, <1>5 DEF Good, Spent
  <2>3. Mid(u)'
    BY <1>0, <1>1, <1>4, <1>5, <1>6, <1>10 DEF Mid, Writing
  <2>4. Coherent(u)'
    BY <2>3 DEF Coherent
  <2> QED
    BY <2>1, <2>2, <2>4 DEF Good
<1>14. n.sure => n.makes \notin Unexpected
  BY <1>0, <1>1, <1>4 DEF Knows, Sure
<1>15. n.pc \notin {"idle", "read", "ready"}
  BY <1>4
<1>16. \A v \in User : v # u =>
         /\ state'[v] = state[v] /\ data'[v] = data[v] /\ report'[v] = report[v]
         /\ given'[v] = given[v] /\ (v \in torn' <=> v \in torn)
         /\ shown'[v] = shown[v] /\ asked'[v] = asked[v] /\ awaited'[v] = awaited[v]
         /\ \A k \in Token : used'[<<v, k>>] = used[<<v, k>>]
  BY <1>5, <1>7, <1>8
<1> QED
  BY <1>0, <1>4, <1>5, <1>9, <1>11, <1>12, <1>13, <1>14, <1>15, <1>16, Local

LEMMA WriteStateInv == ASSUME Inv, NEW s \in Session, WriteState(s) PROVE Inv'
<1> USE NobodyAssumption
<1>0. PICK u \in User, t \in Tx : u = tx[s].actor /\ t = tx[s] /\ t.pc \in {"state", "state last"}
  BY Running DEF WriteState
<1>1. lock[u] = s /\ Knows(s) /\ Good(u)
  BY <1>0, Running
<1>3. PICK n : n = [t EXCEPT !.pc = IF @ = "state" THEN "data last" ELSE "tell"]
  OBVIOUS
<1>4. /\ n.pc = IF t.pc = "state" THEN "data last" ELSE "tell"
      /\ n.actor = u /\ n.sure = t.sure /\ n.state = t.state /\ n.data = t.data
      /\ n.makes = t.makes /\ n.token = t.token /\ n \in Tx
  BY <1>0, <1>3 DEF Tx
<1>5. /\ tx' = [tx EXCEPT ![s] = n] /\ lock' = lock /\ phone' = phone
      /\ data' = data /\ report' = report /\ given' = given /\ used' = used
      /\ shown' = shown /\ asked' = asked /\ torn' = torn
      /\ state' = [state EXCEPT ![u] = t.state]
      /\ awaited' = [awaited EXCEPT ![u] = @ \/ t.state = "ticket"]
  BY <1>0, <1>3 DEF WriteState
<1>6. tx' \in [Session -> Tx] /\ tx'[s] = n
  BY <1>4, <1>5 DEF Inv, TypeOK
<1>7. /\ state' \in [User -> States] /\ state'[u] = t.state
      /\ awaited' \in [User -> BOOLEAN] /\ (t.state = "ticket" => awaited'[u])
      /\ \A v \in User : v # u => state'[v] = state[v] /\ awaited'[v] = awaited[v]
  <2>1. state \in [User -> States] /\ awaited \in [User -> BOOLEAN] /\ t.state \in States
    BY <1>0 DEF Inv, TypeOK, Tx
  <2>2. awaited' \in [User -> BOOLEAN]
    BY <1>5, <2>1
  <2> QED
    BY <1>5, <2>1, <2>2
<1>9. TypeOK'
  BY <1>5, <1>6, <1>7 DEF Inv, TypeOK
<1>10. /\ Sound(u, t.data) /\ t.makes # "report"
       /\ t.state = "confirm" => t.makes = "preview"
       /\ t.state = "contact" => t.makes = "question"
       /\ t.pc = "state" => t.state # "ticket"
       /\ t.pc = "state last" => data[u] = t.data /\ t.state # "contact"
       /\ t.makes \in Dealing =>
            /\ t.data = NoData /\ t.pc = "state"
            /\ t.token # Nobody =>
                 t.token \in given[u] /\ used[<<u, t.token>>] = 0 /\ t.token # report[u]
  <2>1. Plans(s) /\ Pending(s)
    BY <1>1 DEF Knows
  <2> QED
    BY <1>0, <2>1 DEF Plans, Pending
<1>11. Plans(s)'
  <2>1. Sound(tx[s].actor, tx[s].data)'
    BY <1>4, <1>5, <1>6, <1>10 DEF Sound, Fresh
  <2>2. tx'[s].state = "ticket" => awaited'[tx'[s].actor]
    BY <1>4, <1>6, <1>7
  <2>3. /\ tx'[s].pc \in {"data last", "tell"} /\ tx'[s].actor = u /\ tx'[s].makes # "report"
        /\ tx'[s].pc = "data last" => t.pc = "state"
        /\ tx'[s].pc = "tell" => t.pc = "state last"
        /\ tx'[s].state = t.state /\ tx'[s].data = t.data /\ tx'[s].makes = t.makes
    BY <1>0, <1>4, <1>6, <1>10
  <2>4. state'[u] = t.state /\ (tx'[s].pc = "tell" => data'[u] = t.data)
    BY <1>5, <1>7, <1>10, <2>3
  <2> QED
    BY <1>10, <2>1, <2>2, <2>3, <2>4 DEF Plans
<1>12. Pending(s)'
  BY <1>0, <1>4, <1>5, <1>6, <1>10 DEF Pending, Dealing, NoData, NoOrder
<1>13. Good(u)'
  <2>1. Sound(u, data[u])' /\ Spent(u)'
    BY <1>1, <1>5 DEF Good, Sound, Fresh, Spent
  <2>3. Mid(u)'
    BY <1>0, <1>1, <1>4, <1>5, <1>6, <1>10 DEF Mid, Writing
  <2>4. Coherent(u)'
    BY <2>3 DEF Coherent
  <2> QED
    BY <2>1, <2>4 DEF Good
<1>14. n.sure => n.makes \notin Unexpected
  BY <1>0, <1>1, <1>4 DEF Knows, Sure
<1>15. n.pc \notin {"idle", "read", "ready"}
  BY <1>4
<1>16. \A v \in User : v # u =>
         /\ state'[v] = state[v] /\ data'[v] = data[v] /\ report'[v] = report[v]
         /\ given'[v] = given[v] /\ (v \in torn' <=> v \in torn)
         /\ shown'[v] = shown[v] /\ asked'[v] = asked[v] /\ awaited'[v] = awaited[v]
         /\ \A k \in Token : used'[<<v, k>>] = used[<<v, k>>]
  BY <1>5, <1>7
<1> QED
  BY <1>0, <1>4, <1>5, <1>9, <1>11, <1>12, <1>13, <1>14, <1>15, <1>16, Local

LEMMA TellInv == ASSUME Inv, NEW s \in Session, Tell(s) PROVE Inv'
<1> USE NobodyAssumption
<1>0. PICK u \in User, t \in Tx : u = tx[s].actor /\ t = tx[s] /\ t.pc = "tell"
  BY Running DEF Tell
<1>1. lock[u] = s /\ Knows(s) /\ Good(u) /\ given[u] \subseteq Token
  BY <1>0, Running DEF Inv, TypeOK
<1>3. PICK n : n = [t EXCEPT !.pc = "done"]
  OBVIOUS
<1>4. /\ n.pc = "done" /\ n.actor = u /\ n.sure = t.sure /\ n.state = t.state /\ n.data = t.data
      /\ n.makes = t.makes /\ n.token = t.token /\ n \in Tx
  BY <1>0, <1>3 DEF Tx
<1>5. /\ tx' = [tx EXCEPT ![s] = n] /\ lock' = lock /\ phone' = phone
      /\ state' = state /\ data' = data /\ report' = report /\ given' = given
      /\ awaited' = awaited /\ torn' = torn
      /\ shown' = [shown EXCEPT ![u] = IF t.makes = "preview" THEN t.data.order ELSE @]
      /\ asked' = [asked EXCEPT ![u] = IF t.makes = "question" THEN t.data.item ELSE @]
      /\ used' = [k \in User \X Token |->
                   IF t.makes = "report" /\ k = <<u, t.token>> THEN used[k] + 1 ELSE used[k]]
  BY <1>0, <1>3 DEF Tell, redis
<1>6. tx' \in [Session -> Tx] /\ tx'[s] = n
  BY <1>4, <1>5 DEF Inv, TypeOK
<1>7. t.data.order \in Order /\ t.data.item \in Offer \cup {Nobody}
  BY <1>0 DEF Tx, Data
<1>8. /\ shown' \in [User -> Order] /\ asked' \in [User -> Offer \cup {Nobody}]
      /\ t.makes = "preview" => shown'[u] = t.data.order
      /\ t.makes = "question" => asked'[u] = t.data.item
      /\ t.makes = "report" => shown'[u] = shown[u] /\ asked'[u] = asked[u]
      /\ \A v \in User : v # u => shown'[v] = shown[v] /\ asked'[v] = asked[v]
  <2>1. shown \in [User -> Order] /\ asked \in [User -> Offer \cup {Nobody}]
    BY DEF Inv, TypeOK
  <2>2. shown' \in [User -> Order]
    BY <1>5, <1>7, <2>1
  <2>3. asked' \in [User -> Offer \cup {Nobody}]
    BY <1>5, <1>7, <2>1
  <2> QED
    BY <1>5, <2>1, <2>2, <2>3
<1>9. Plans(s) /\ Pending(s)
  BY <1>1 DEF Knows
<1>10. /\ t.makes # "report" =>
            /\ state[u] = t.state /\ data[u] = t.data
            /\ t.state = "confirm" => t.makes = "preview"
            /\ t.state = "contact" => t.makes = "question"
       /\ t.makes = "report" =>
            /\ t.token \in given[u] /\ used[<<u, t.token>>] = 0
            /\ t.token \notin {data[u].preview, data[u].form, report[u]}
       /\ t.makes \in Dealing =>
            /\ t.data = NoData
            /\ t.token # Nobody =>
                 t.token \in given[u] /\ used[<<u, t.token>>] = 0 /\ t.token # report[u]
  BY <1>0, <1>9 DEF Plans, Pending
<1>11. t.makes # "report" => (t.state = "ticket" => awaited[u])
  BY <1>0, <1>9 DEF Plans
<1>12. /\ used' \in [User \X Token -> Nat]
       /\ \A v \in User, j \in Token :
            v # u \/ j # t.token \/ t.makes # "report" => used'[<<v, j>>] = used[<<v, j>>]
       /\ t.makes = "report" /\ t.token # Nobody => used'[<<u, t.token>>] = 1
  <2>1. used \in [User \X Token -> Nat]
    BY DEF Inv, TypeOK
  <2>2. \A v \in User, j \in Token :
          used'[<<v, j>>] = IF t.makes = "report" /\ <<v, j>> = <<u, t.token>>
                            THEN used[<<v, j>>] + 1 ELSE used[<<v, j>>]
    BY <1>5
  <2>3. used' \in [User \X Token -> Nat]
    BY <1>5, <2>1
  <2>4. t.token \in Token \cup {Nobody}
    BY <1>0 DEF Tx
  <2>5. ASSUME NEW v \in User, NEW j \in Token, v # u \/ j # t.token \/ t.makes # "report"
        PROVE  used'[<<v, j>>] = used[<<v, j>>]
    BY <2>2, <2>5
  <2>6. t.makes = "report" /\ t.token # Nobody => used'[<<u, t.token>>] = 1
    BY <1>10, <2>2, <2>4
  <2> QED
    BY <2>3, <2>5, <2>6
<1>13. TypeOK'
  BY <1>5, <1>6, <1>8, <1>12 DEF Inv, TypeOK
<1>14. Plans(s)'
  BY <1>4, <1>6 DEF Plans
<1>15. Pending(s)'
  <2>1. t.makes \in Dealing => t.makes # "report"
    BY DEF Dealing
  <2>2. t.makes \in Dealing => data'[u] = NoData
    BY <1>5, <1>10, <2>1
  <2>3. t.makes \in Dealing /\ t.token # Nobody =>
          t.token \in given'[u] /\ used'[<<u, t.token>>] = 0 /\ t.token # report'[u]
    BY <1>1, <1>5, <1>10, <1>12, <2>1
  <2> QED
    BY <1>4, <1>6, <1>10, <2>2, <2>3 DEF Pending, Dealing, NoData, NoOrder
<1>16. Good(u)'
  <2>1. Sound(u, data[u]) /\ Spent(u) /\ Coherent(u)
    BY <1>1 DEF Good
  <2>2. Sound(u, data[u])'
    <3>1. \A k \in Token : (t.makes = "report" => k # t.token) => used'[<<u, k>>] = used[<<u, k>>]
      BY <1>12
    <3> QED
      BY <1>1, <1>5, <1>10, <2>1, <3>1 DEF Sound, Fresh
  <2>3. Spent(u)'
    BY <1>5, <1>10, <1>12, <2>1 DEF Spent
  <2>4. Coherent(u)'
    <3>1. CASE t.makes = "report"
      <4>1. ~Mid(u)
        BY <1>0, <1>1, <3>1 DEF Mid, Writing
      <4> QED
        BY <1>5, <1>8, <2>1, <3>1, <4>1 DEF Coherent
    <3>2. CASE t.makes # "report"
      BY <1>5, <1>8, <1>10, <1>11, <3>2 DEF Coherent
    <3> QED
      BY <3>1, <3>2
  <2> QED
    BY <2>2, <2>3, <2>4 DEF Good
<1>17. n.sure => n.makes \notin Unexpected
  BY <1>0, <1>1, <1>4 DEF Knows, Sure
<1>18. \A v \in User : v # u =>
         /\ state'[v] = state[v] /\ data'[v] = data[v] /\ report'[v] = report[v]
         /\ given'[v] = given[v] /\ (v \in torn' <=> v \in torn)
         /\ shown'[v] = shown[v] /\ asked'[v] = asked[v] /\ awaited'[v] = awaited[v]
         /\ \A k \in Token : used'[<<v, k>>] = used[<<v, k>>]
  BY <1>5, <1>8, <1>12
<1> QED
  BY <1>0, <1>4, <1>5, <1>13, <1>14, <1>15, <1>16, <1>17, <1>18, Local

LEMMA ExpireReportInv == ASSUME Inv, NEW u \in User, ExpireReport(u) PROVE Inv'
<1> USE NobodyAssumption
<1>1. /\ tx' = tx /\ lock' = lock /\ phone' = phone
      /\ state' = state /\ data' = data /\ given' = given /\ used' = used
      /\ shown' = shown /\ asked' = asked /\ awaited' = awaited /\ torn' = torn
      /\ report' = [report EXCEPT ![u] = Nobody]
  BY DEF ExpireReport, ghosts
<1>2. /\ report' \in [User -> Token \cup {Nobody}]
      /\ \A v \in User : report'[v] = IF v = u THEN Nobody ELSE report[v]
  BY <1>1 DEF Inv, TypeOK
<1>3. TypeOK'
  BY <1>1, <1>2 DEF Inv, TypeOK
<1>4. ASSUME NEW s \in Session PROVE Knows(s)'
  <2>1. Knows(s)
    BY DEF Inv
  <2>2. CASE tx[s].pc = "idle"
    <3>1. tx[s] = IdleTx
      BY <2>1, <2>2 DEF Knows, Holds
    <3> QED
      BY <1>1, <2>1, <3>1 DEF Knows, Holds, Plans, Pending, Sure, IdleTx, Dealing
  <2>3. CASE tx[s].pc # "idle"
    <3>1. PICK v \in User : v = tx[s].actor
      BY <2>1, <2>3 DEF Knows, Holds
    <3>2. Sound(v, tx[s].data) => Sound(tx[s].actor, tx[s].data)'
      BY <1>1, <1>2, <3>1 DEF Sound, Fresh
    <3>3. Plans(s)'
      BY <1>1, <2>1, <3>1, <3>2 DEF Knows, Plans
    <3>4. Pending(s)'
      <4>1. Pending(s) /\ (report'[v] = report[v] \/ report'[v] = Nobody)
        BY <1>2, <2>1 DEF Knows
      <4>2. tx[s].token = Nobody => tx[s].token \notin given[v]
        BY <3>1 DEF Inv, TypeOK
      <4> QED
        BY <1>1, <3>1, <4>1, <4>2 DEF Pending, Dealing, NoData, NoOrder
    <3>5. Holds(s)' /\ Sure(s)'
      BY <1>1, <2>1 DEF Knows, Holds, Sure
    <3> QED
      BY <3>3, <3>4, <3>5 DEF Knows
  <2> QED
    BY <2>2, <2>3
<1>5. ASSUME NEW v \in User PROVE Good(v)'
  <2>1. Sound(v, data[v]) /\ Spent(v) /\ Coherent(v)
    BY DEF Inv, Good
  <2>2. Sound(v, data[v])'
    BY <1>1, <1>2, <2>1 DEF Sound, Fresh
  <2>3. Spent(v)' /\ (Mid(v)' <=> Mid(v))
    BY <1>1, <2>1 DEF Spent, Mid, Writing
  <2>4. Coherent(v)'
    BY <1>1, <2>1, <2>3 DEF Coherent
  <2> QED
    BY <2>2, <2>3, <2>4 DEF Good
<1> QED
  BY <1>3, <1>4, <1>5 DEF Inv

LEMMA ReceiveInv ==
  ASSUME Inv, NEW s \in Session, NEW u \in User, Receive(s, u) PROVE Inv'
<1> USE NobodyAssumption
<1>1. PICK n : n = [IdleTx EXCEPT !.pc = "read", !.actor = u, !.raw = state[u], !.phone = phone[u],
                                 !.sure = \A t \in Session : t # s => tx[t].actor # u]
  OBVIOUS
<1>2. /\ n.pc = "read" /\ n.actor = u /\ n.raw = state[u] /\ n.makes = "nothing"
      /\ n.state = "none" /\ n.token = Nobody
      /\ n.sure => \A t \in Session : t # s => tx[t].actor # u
  BY <1>1 DEF IdleTx
<1>3. n \in Tx
  <2>1. state[u] \in States /\ phone[u] \in BOOLEAN
    BY DEF Inv, TypeOK
  <2> QED
    BY <1>1, <2>1, Types DEF Tx
<1>4. /\ UNCHANGED <<redis, phone, ghosts, lock>> /\ tx[s].pc = "idle"
      /\ tx' = [t \in Session |->
                  IF t = s THEN n
                  ELSE IF tx[t].actor = u /\ tx[t].pc = "read"
                  THEN [tx[t] EXCEPT !.sure = FALSE]
                  ELSE tx[t]]
  <2> DEFINE others == {t \in Session : t # s /\ tx[t].actor = u}
  <2>1. (others = {}) <=> \A t \in Session : t # s => tx[t].actor # u
    OBVIOUS
  <2>2. n = [IdleTx EXCEPT !.pc = "read", !.actor = u, !.raw = state[u], !.phone = phone[u],
                           !.sure = (others = {})]
    BY <1>1, <2>1
  <2> QED
    BY <2>2 DEF Receive
<1>5. /\ lock' = lock /\ phone' = phone
      /\ state' = state /\ data' = data /\ report' = report /\ given' = given
      /\ used' = used /\ shown' = shown /\ asked' = asked /\ awaited' = awaited /\ torn' = torn
  BY <1>4 DEF redis, ghosts
<1>6. ASSUME NEW t \in Session, t # s
      PROVE  /\ tx'[t] \in Tx /\ tx[t] \in Tx
             /\ tx'[t].pc = tx[t].pc /\ tx'[t].actor = tx[t].actor /\ tx'[t].raw = tx[t].raw
             /\ tx'[t].state = tx[t].state /\ tx'[t].data = tx[t].data
             /\ tx'[t].makes = tx[t].makes /\ tx'[t].token = tx[t].token
             /\ tx'[t].sure => tx[t].sure
             /\ tx[t].actor = u /\ tx[t].pc = "read" => ~tx'[t].sure
             /\ tx[t].pc = "idle" => tx'[t] = tx[t]
  <2>1. tx[t] \in Tx
    BY DEF Inv, TypeOK
  <2>2. CASE tx[t].actor = u /\ tx[t].pc = "read"
    <3>1. tx'[t] = [tx[t] EXCEPT !.sure = FALSE]
      BY <1>4, <1>6, <2>2
    <3>2. tx'[t] \in Tx
      BY <2>1, <3>1 DEF Tx
    <3> QED
      BY <2>1, <2>2, <3>1, <3>2 DEF Tx
  <2>3. CASE ~(tx[t].actor = u /\ tx[t].pc = "read")
    <3>1. tx'[t] = tx[t]
      BY <1>4, <1>6, <2>3
    <3> QED
      BY <2>1, <2>3, <3>1
  <2> QED
    BY <2>2, <2>3
<1>7. tx'[s] = n
  BY <1>4
<1>8. TypeOK'
  <2>1. tx' \in [Session -> Tx]
    <3>1. \A t \in Session : tx'[t] \in Tx
      BY <1>3, <1>6, <1>7
    <3>2. tx' = [t \in Session |-> tx'[t]]
      BY <1>4
    <3> QED
      BY <3>1, <3>2
  <2> QED
    BY <1>5, <2>1 DEF Inv, TypeOK
<1>9. \A v \in User : lock[v] # s
  BY <1>4 DEF Inv, Knows, Holds
<1>10. Knows(s)'
  <2>1. Holds(s)'
    BY <1>2, <1>5, <1>7, <1>9 DEF Holds
  <2>2. Plans(s)' /\ Pending(s)'
    BY <1>2, <1>7 DEF Plans, Pending, Dealing
  <2>3. Sure(s)'
    <3>1. n.sure => \A o \in Session : o # s => tx'[o].actor # u
      BY <1>2, <1>6
    <3>2. n.makes \notin Unexpected
      BY <1>2 DEF Unexpected
    <3> QED
      BY <1>2, <1>5, <1>7, <3>1, <3>2 DEF Sure
  <2> QED
    BY <2>1, <2>2, <2>3 DEF Knows
<1>11. ASSUME NEW t \in Session, t # s PROVE Knows(t)'
  <2>1. Knows(t)
    BY DEF Inv
  <2>2. Holds(t)'
    BY <1>5, <1>6, <1>11, <2>1 DEF Knows, Holds
  <2>3. Plans(t)' /\ Pending(t)'
    <3>1. CASE tx[t].pc = "read"
      <4>1. tx[t].makes \notin Dealing \cup {"report"}
        BY <2>1, <3>1 DEF Knows, Pending, Dealing
      <4> QED
        BY <1>6, <1>11, <3>1, <4>1 DEF Plans, Pending, Dealing
    <3>2. CASE tx[t].pc = "idle"
      <4>1. tx'[t] = IdleTx
        BY <1>6, <1>11, <2>1, <3>2 DEF Knows, Holds
      <4> QED
        BY <4>1 DEF Plans, Pending, IdleTx, Dealing
    <3>3. CASE tx[t].pc \notin {"idle", "read"}
      <4>1. tx'[t] = tx[t] /\ tx[t].actor \in User
        BY <1>4, <1>11, <2>1, <3>3 DEF Knows, Holds
      <4> QED
        BY <1>5, <4>1, Untouched
    <3> QED
      BY <3>1, <3>2, <3>3
  <2>4. Sure(t)'
    <3>1. ASSUME tx'[t].sure, tx[t].pc = "read", NEW o \in Session, o # t
          PROVE  tx'[o].actor # tx[t].actor
      <4>1. CASE o = s
        BY <1>2, <1>6, <1>7, <1>11, <3>1, <4>1
      <4>2. CASE o # s
        BY <1>6, <1>11, <2>1, <3>1, <4>2 DEF Knows, Sure
      <4> QED
        BY <4>1, <4>2
    <3>2. Sure(t)
      BY <2>1 DEF Knows
    <3> QED
      BY <1>5, <1>6, <1>11, <3>1, <3>2 DEF Sure
  <2> QED
    BY <2>2, <2>3, <2>4 DEF Knows
<1>12. ASSUME NEW v \in User PROVE Good(v)'
  <2>1. Sound(v, data[v]) /\ Spent(v) /\ Coherent(v)
    BY DEF Inv, Good
  <2>2. Sound(v, data[v])' /\ Spent(v)'
    BY <1>5, <2>1 DEF Sound, Fresh, Spent
  <2>3. Mid(v)' <=> Mid(v)
    <3>1. \A t \in Session : t # s => (Writing(t)' <=> Writing(t))
      BY <1>6 DEF Writing
    <3> QED
      BY <1>5, <1>9, <3>1 DEF Mid
  <2>4. Coherent(v)'
    BY <1>5, <2>1, <2>3 DEF Coherent
  <2> QED
    BY <2>2, <2>4 DEF Good
<1> QED
  BY <1>8, <1>10, <1>11, <1>12 DEF Inv

LEMMA TakeRowInv == ASSUME Inv, NEW s \in Session, TakeRow(s) PROVE Inv'
<1> USE NobodyAssumption
<1>0. PICK u \in User, x \in Tx : u = tx[s].actor /\ x = tx[s] /\ x.pc = "read"
  BY DEF TakeRow, Inv, TypeOK, Knows, Holds
<1>1. PICK n : n = [x EXCEPT !.pc = "ready", !.sure = @ /\ u \notin torn]
  OBVIOUS
<1>2. /\ n.pc = "ready" /\ n.actor = u /\ n.raw = x.raw /\ n.makes = x.makes /\ n.token = x.token
      /\ n.data = x.data /\ n.state = x.state
      /\ (n.sure => x.sure /\ u \notin torn) /\ n \in Tx
  BY <1>0, <1>1 DEF Tx
<1>3. /\ lock[u] = Nobody /\ lock' = [lock EXCEPT ![u] = s] /\ phone' = phone
      /\ tx' = [tx EXCEPT ![s] = n]
      /\ state' = state /\ data' = data /\ report' = report /\ given' = given
      /\ used' = used /\ shown' = shown /\ asked' = asked /\ awaited' = awaited /\ torn' = torn
  BY <1>0, <1>1 DEF TakeRow, redis, ghosts
<1>4. /\ tx' \in [Session -> Tx] /\ tx'[s] = n
      /\ \A t \in Session : t # s => tx'[t] = tx[t]
      /\ lock' \in [User -> Session \cup {Nobody}] /\ lock'[u] = s
      /\ \A v \in User : v # u => lock'[v] = lock[v]
  BY <1>2, <1>3 DEF Inv, TypeOK
<1>5. TypeOK'
  BY <1>3, <1>4 DEF Inv, TypeOK
<1>6. Knows(s)'
  <2>1. Knows(s)
    BY DEF Inv
  <2>2. Holds(s)'
    BY <1>0, <1>2, <1>4, <2>1 DEF Knows, Holds
  <2>4. x.makes \notin Dealing \cup {"report"}
    BY <1>0, <2>1 DEF Knows, Pending, Dealing
  <2>5. Plans(s)' /\ Pending(s)'
    BY <1>2, <1>4, <2>4 DEF Plans, Pending, Dealing
  <2>6. Sure(s)'
    <3>1. Sure(s)
      BY <2>1 DEF Knows
    <3> QED
      BY <1>0, <1>2, <1>3, <1>4, <3>1 DEF Sure
  <2> QED
    BY <2>2, <2>5, <2>6 DEF Knows
<1>7. ASSUME NEW t \in Session, t # s PROVE Knows(t)'
  <2>1. Knows(t) /\ tx'[t] = tx[t]
    BY <1>4, <1>7 DEF Inv
  <2>2. Holds(t)'
    <3>1. t # Nobody
      OBVIOUS
    <3> QED
      BY <1>3, <1>4, <1>7, <2>1, <3>1 DEF Knows, Holds
  <2>3. Plans(t)' /\ Pending(t)'
    <3>1. CASE tx[t].pc = "idle"
      <4>1. tx'[t] = IdleTx
        BY <2>1, <3>1 DEF Knows, Holds
      <4> QED
        BY <4>1 DEF Plans, Pending, IdleTx, Dealing
    <3>2. CASE tx[t].pc # "idle"
      <4>1. tx[t].actor \in User
        BY <2>1, <3>2 DEF Knows, Holds
      <4> QED
        BY <1>3, <2>1, <4>1, Untouched
    <3> QED
      BY <3>1, <3>2
  <2>4. Sure(t)'
    <3>1. \A o \in Session : tx'[o].actor = tx[o].actor
      BY <1>0, <1>2, <1>4
    <3> QED
      BY <1>3, <2>1, <3>1 DEF Knows, Sure
  <2> QED
    BY <2>2, <2>3, <2>4 DEF Knows
<1>8. ASSUME NEW v \in User PROVE Good(v)'
  <2>1. Sound(v, data[v]) /\ Spent(v) /\ Coherent(v)
    BY DEF Inv, Good
  <2>2. Sound(v, data[v])' /\ Spent(v)'
    BY <1>3, <2>1 DEF Sound, Fresh, Spent
  <2>3. Mid(v)' <=> Mid(v)
    <3>1. \A t \in Session : Writing(t)' <=> Writing(t)
      BY <1>0, <1>2, <1>4 DEF Writing
    <3>2. CASE v = u
      <4>1. ~Mid(u)
        BY <1>3 DEF Mid
      <4>2. ~Mid(u)'
        BY <1>2, <1>4 DEF Mid, Writing
      <4> QED
        BY <3>2, <4>1, <4>2
    <3>3. CASE v # u
      BY <1>4, <3>1, <3>3 DEF Mid
    <3> QED
      BY <3>2, <3>3
  <2>4. Coherent(v)'
    BY <1>3, <2>1, <2>3 DEF Coherent
  <2> QED
    BY <2>2, <2>4 DEF Good
<1> QED
  BY <1>5, <1>6, <1>7, <1>8 DEF Inv

\* A session that ends, having settled what it had pending or not.
LEMMA Leave ==
  ASSUME Inv, NEW s \in Session, tx[s].pc # "idle", Ends(s),
         phone' \in [User -> BOOLEAN], torn' \subseteq User,
         UNCHANGED <<redis, given, shown, asked, awaited>>,
         \A v \in User : v # tx[s].actor \/ tx[s].pc = "read" => (v \in torn' <=> v \in torn),
         tx[s].pc # "read" =>
           \/ Writing(s) /\ tx[s].actor \in torn'
           \/ ~Writing(s) /\ (tx[s].actor \in torn' <=> tx[s].actor \in torn),
         \/ used' = used
         \/ /\ tx[s].pc = "done" /\ tx[s].makes \in Dealing
            /\ used' = [k \in User \X Token |->
                         IF k = <<tx[s].actor, tx[s].token>> THEN used[k] + 1 ELSE used[k]]
  PROVE  Inv'
<1> USE NobodyAssumption
<1>0. PICK u \in User : u = tx[s].actor
  BY DEF Inv, Knows, Holds
<1>1. /\ tx' = [tx EXCEPT ![s] = IdleTx]
      /\ lock' = [v \in User |-> IF lock[v] = s THEN Nobody ELSE lock[v]]
      /\ state' = state /\ data' = data /\ report' = report /\ given' = given
      /\ shown' = shown /\ asked' = asked /\ awaited' = awaited
  BY DEF Ends, redis
<1>2. /\ tx' \in [Session -> Tx] /\ tx'[s] = IdleTx
      /\ \A t \in Session : t # s => tx'[t] = tx[t]
      /\ lock' \in [User -> Session \cup {Nobody}] /\ \A v \in User : lock'[v] # s
      /\ \A v \in User, t \in Session : t # s => (lock'[v] = t <=> lock[v] = t)
  BY <1>1, Types DEF Inv, TypeOK
<1>3. /\ used' \in [User \X Token -> Nat]
      /\ \A v \in User, j \in Token :
            v # u \/ j # tx[s].token \/ used' = used => used'[<<v, j>>] = used[<<v, j>>]
      /\ \A j \in Token : used' # used /\ j = tx[s].token =>
            /\ used[<<u, j>>] = 0 /\ used'[<<u, j>>] = 1 /\ j \in given[u]
            /\ j # report[u] /\ data[u] = NoData
  <2>1. used \in [User \X Token -> Nat] /\ Pending(s)
    BY DEF Inv, TypeOK, Knows
  <2>2. CASE used' = used
    BY <2>1, <2>2
  <2>3. CASE /\ tx[s].pc = "done" /\ tx[s].makes \in Dealing
             /\ used' = [k \in User \X Token |->
                          IF k = <<tx[s].actor, tx[s].token>> THEN used[k] + 1 ELSE used[k]]
    <3>1. \A v \in User, j \in Token :
            used'[<<v, j>>] = IF <<v, j>> = <<u, tx[s].token>>
                              THEN used[<<v, j>>] + 1 ELSE used[<<v, j>>]
      BY <1>0, <2>3
    <3>2. used' \in [User \X Token -> Nat]
      BY <2>1, <2>3
    <3>3. \A j \in Token : j = tx[s].token =>
            used[<<u, j>>] = 0 /\ j \in given[u] /\ j # report[u] /\ data[u] = NoData
      BY <1>0, <2>1, <2>3 DEF Pending
    <3> QED
      BY <3>1, <3>2, <3>3
  <2> QED
    BY <2>2, <2>3
<1>4. TypeOK'
  BY <1>1, <1>2, <1>3 DEF Inv, TypeOK
<1>5. Knows(s)'
  <2>1. Holds(s)'
    BY <1>2 DEF Holds, IdleTx
  <2>2. Plans(s)' /\ Pending(s)'
    BY <1>2, Types DEF Plans, Pending, Dealing
  <2>3. Sure(s)'
    BY <1>2 DEF Sure, IdleTx
  <2> QED
    BY <2>1, <2>2, <2>3 DEF Knows
<1>6. used' # used => tx[s].pc # "read"
  OBVIOUS
<1>7. tx[s].pc # "read" => lock[u] = s
  BY <1>0 DEF Inv, Knows, Holds
<1>8. ASSUME NEW t \in Session, t # s PROVE Knows(t)'
  <2>1. Knows(t) /\ tx'[t] = tx[t]
    BY <1>2, <1>8 DEF Inv
  <2>2. Holds(t)'
    BY <1>2, <1>8, <2>1 DEF Knows, Holds
  <2>3. CASE tx[t].pc = "idle"
    <3>1. tx'[t] = IdleTx
      BY <2>1, <2>3 DEF Knows, Holds
    <3>2. Plans(t)' /\ Pending(t)'
      BY <3>1, Types DEF Plans, Pending, Dealing
    <3>3. Sure(t)'
      BY <3>1 DEF Sure, IdleTx
    <3> QED
      BY <2>2, <3>2, <3>3 DEF Knows
  <2>4. CASE tx[t].pc # "idle"
    <3>1. PICK v \in User : v = tx[t].actor
      BY <2>1, <2>4 DEF Knows, Holds
    <3>2. Plans(t)' /\ Pending(t)'
      <4>1. CASE v = u /\ tx[s].pc # "read"
        <5>1. tx[t].pc = "read"
          BY <1>7, <1>8, <2>1, <2>4, <3>1, <4>1 DEF Knows, Holds
        <5> QED
          BY <2>1, <5>1 DEF Knows, Plans, Pending, Dealing
      <4>2. CASE v # u \/ tx[s].pc = "read"
        <5>1. \A j \in Token : used'[<<v, j>>] = used[<<v, j>>]
          BY <1>3, <1>6, <4>2
        <5> QED
          BY <1>1, <2>1, <3>1, <5>1, Untouched
      <4> QED
        BY <4>1, <4>2
    <3>3. Sure(t)'
      <4>1. tx[t].pc = "read" /\ tx[t].sure => v # u
        BY <1>0, <1>8, <2>1, <3>1 DEF Knows, Sure
      <4>2. tx[t].pc = "ready" => v # u \/ tx[s].pc = "read"
        BY <1>7, <1>8, <2>1, <3>1 DEF Knows, Holds
      <4>3. tx[t].pc = "ready" => (v \in torn' <=> v \in torn)
        BY <1>0, <4>2
      <4>4. \A o \in Session : tx[t].sure /\ tx[t].pc = "read" /\ o # t => tx'[o].actor # v
        <5>1. IdleTx.actor = Nobody
          BY DEF IdleTx
        <5> QED
          BY <1>2, <2>1, <3>1, <5>1 DEF Knows, Sure
      <4>5. Sure(t)
        BY <2>1 DEF Knows
      <4> QED
        BY <1>1, <2>1, <3>1, <4>3, <4>4, <4>5 DEF Sure
    <3> QED
      BY <2>2, <3>2, <3>3 DEF Knows
  <2> QED
    BY <2>3, <2>4
<1>9. ASSUME NEW v \in User PROVE Good(v)'
  <2>1. Sound(v, data[v]) /\ Spent(v) /\ Coherent(v) /\ given[v] \subseteq Token
    BY DEF Inv, Good, TypeOK
  <2>2. Sound(v, data[v])'
    <3>1. CASE v = u /\ used' # used
      <4>1. used' # used => \A j \in Token : j # tx[s].token => used'[<<u, j>>] = used[<<u, j>>]
        BY <1>3
      <4>2. NoData.preview = Nobody /\ NoData.form = Nobody
        BY DEF NoData
      <4>3. tx[s].token \in Token => data[u] = NoData /\ tx[s].token # report[u]
        BY <1>3, <3>1
      <4> QED
        BY <1>1, <2>1, <3>1, <4>1, <4>2, <4>3 DEF Sound, Fresh
    <3>2. CASE v # u \/ used' = used
      <4>1. \A j \in Token : used'[<<v, j>>] = used[<<v, j>>]
        BY <1>3, <3>2
      <4> QED
        BY <1>1, <2>1, <4>1 DEF Sound, Fresh
    <3> QED
      BY <3>1, <3>2
  <2>3. Spent(v)'
    BY <1>1, <1>3, <2>1 DEF Spent
  <2>4. Coherent(v)'
    <3>1. CASE v = u /\ tx[s].pc # "read" /\ Writing(s)
      BY <1>0, <3>1 DEF Coherent
    <3>2. CASE ~(v = u /\ tx[s].pc # "read" /\ Writing(s))
      <4>1. v \in torn' <=> v \in torn
        BY <1>0, <3>2
      <4>2. Mid(v) => Mid(v)'
        <5>1. ASSUME NEW t \in Session, lock[v] = t, Writing(t) PROVE Mid(v)'
          <6>1. t # s
            BY <1>0, <3>2, <5>1 DEF Inv, Knows, Holds, Writing
          <6>2. Writing(t)' /\ lock'[v] = t
            BY <1>2, <5>1, <6>1 DEF Writing
          <6> QED
            BY <6>2 DEF Mid
        <5> QED
          BY <5>1 DEF Mid
      <4> QED
        BY <1>1, <2>1, <4>1, <4>2 DEF Coherent
    <3> QED
      BY <3>1, <3>2
  <2> QED
    BY <2>2, <2>3, <2>4 DEF Good
<1> QED
  BY <1>4, <1>5, <1>8, <1>9 DEF Inv

LEMMA HandleInv == ASSUME Inv, NEW s \in Session, Handle(s) PROVE Inv'
<1> USE NobodyAssumption
<1>0. tx[s].pc = "ready"
  BY DEF Handle, OrderMenu, Cancel, LeaveByMenu, Confirm, ChooseType, ReceiveChannel, ReceiveCount,
         AskReport, CaptureReport, Buy, Contact, StartTicket, SubmitTicket, GiftStart, GiftUses,
         GiftAmount
<1>1. PICK u \in User : u = tx[s].actor
  BY <1>0, Ready
<1>2. /\ Good(u) /\ data[u] \in Data /\ given[u] \subseteq Token /\ data[u].order \in Order
      /\ tx[s].sure => /\ tx[s].raw = "confirm" => data[u].order = shown[u]
                       /\ tx[s].raw = "contact" => data[u].item = asked[u]
                       /\ tx[s].raw = "ticket" => awaited[u]
  BY <1>0, <1>1, Ready DEF Data
<1>3. "nothing" \notin Unexpected /\ "order" \notin Unexpected /\ "request" \notin Unexpected
      /\ "ticket" \notin Unexpected /\ "gift" \notin Unexpected
  BY DEF Unexpected
<1>4. ASSUME Clears(s, "nothing", Nobody), UNCHANGED <<redis, phone, ghosts, lock>> PROVE Inv'
  BY <1>0, <1>3, <1>4, ClearsInv
<1>5. CASE OrderMenu(s) \/ Cancel(s) \/ LeaveByMenu(s)
  BY <1>4, <1>5 DEF OrderMenu, Cancel, LeaveByMenu
<1>6. CASE Confirm(s)
  <2> DEFINE m == IF data[u].order = shown[u] THEN "order" ELSE "another order"
  <2>1. ASSUME Clears(s, m, data[u].preview) PROVE Inv'
    <3>1. m \in {"nothing", "gift", "order", "request", "ticket"} \cup Unexpected
      BY DEF Unexpected
    <3>2. tx[s].sure => m \notin Unexpected
      BY <1>2, <1>3, <1>6 DEF Confirm
    <3>3. UNCHANGED <<redis, phone, ghosts, lock>>
      BY <1>6 DEF Confirm
    <3> HIDE DEF m
    <3> QED
      BY <1>0, <1>1, <2>1, <3>1, <3>2, <3>3, ClearsInv
  <2> QED
    BY <1>1, <1>4, <1>6, <2>1 DEF Confirm
<1>7. CASE Contact(s)
  <2> DEFINE m == IF data[u].item = asked[u] THEN "request" ELSE "another request"
  <2>1. m \in {"nothing", "gift", "order", "request", "ticket"} \cup Unexpected
    BY DEF Unexpected
  <2>2. tx[s].sure => m \notin Unexpected
    BY <1>2, <1>3, <1>7 DEF Contact
  <2>3. UNCHANGED <<redis, phone, ghosts, lock>> /\ Clears(s, m, Nobody)
    BY <1>1, <1>7 DEF Contact
  <2> HIDE DEF m
  <2> QED
    BY <1>0, <1>1, <2>1, <2>2, <2>3, ClearsInv
<1>8. CASE SubmitTicket(s)
  <2> DEFINE m == IF awaited[u] THEN "ticket" ELSE "another ticket"
  <2>1. m \in {"nothing", "gift", "order", "request", "ticket"} \cup Unexpected
    BY DEF Unexpected
  <2>2. tx[s].sure => m \notin Unexpected
    BY <1>2, <1>3, <1>8 DEF SubmitTicket
  <2>3. UNCHANGED <<redis, phone, ghosts, lock>> /\ Clears(s, m, Nobody)
    BY <1>1, <1>8 DEF SubmitTicket
  <2> HIDE DEF m
  <2> QED
    BY <1>0, <1>1, <2>1, <2>2, <2>3, ClearsInv
<1>9. CASE GiftUses(s)
  <2>1. ASSUME Clears(s, "gift", data[u].form), UNCHANGED <<redis, phone, ghosts, lock>> PROVE Inv'
    BY <1>0, <1>1, <1>3, <2>1, ClearsInv
  <2> QED
    BY <1>1, <1>4, <1>9, <2>1 DEF GiftUses
<1>10. Sound(u, data[u])
  BY <1>2 DEF Good
<1>11. ASSUME NEW d \in Data, UNCHANGED <<redis, phone, used, shown, asked, awaited, torn, lock>>,
              given' = given \/ \E k \in Token : Gives(u, k),
              d.preview = data[u].preview \/ (d.preview \in given'[u] \ given[u] /\ d.preview \in Token),
              d.form = data[u].form \/ (d.form \in given'[u] \ given[u] /\ d.form \in Token),
              d.preview = data[u].preview \/ d.form = data[u].form
       PROVE  Sound(u, d)'
  <2>1. given[u] \subseteq given'[u] /\ report' = report /\ used' = used
    <3>1. given \in [User -> SUBSET Token]
      BY DEF Inv, TypeOK
    <3>2. CASE given' = given
      BY <1>11, <3>2 DEF redis
    <3>3. ASSUME NEW k \in Token, Gives(u, k) PROVE given[u] \subseteq given'[u]
      BY <3>1, <3>3 DEF Gives
    <3> QED
      BY <1>11, <3>2, <3>3 DEF redis
  <2>2. \A k \in Token \ given[u] : used[<<u, k>>] = 0
    <3>1. used \in [User \X Token -> Nat]
      BY DEF Inv, TypeOK
    <3> QED
      BY <1>2, <3>1 DEF Good, Spent
  <2> QED
    BY <1>2, <1>10, <1>11, <2>1, <2>2 DEF Sound, Fresh
<1>12. ASSUME NEW t \in Type, ChooseType(s, t) PROVE Inv'
  <2>1. PICK d : d = [data[u] EXCEPT !.order.type = t]
    OBVIOUS
  <2>2. d \in Data /\ d.preview = data[u].preview /\ d.form = data[u].form
    <3>1. [data[u].order EXCEPT !.type = t] \in Order
      BY <1>2 DEF Order
    <3> QED
      BY <1>2, <2>1, <3>1 DEF Data
  <2>3. UNCHANGED <<redis, phone, ghosts, lock>> /\ Goes(s, "data", "channel", d, "nothing")
    BY <1>1, <1>12, <2>1 DEF ChooseType
  <2>4. Sound(u, d)'
    BY <1>11, <2>2, <2>3 DEF ghosts
  <2>5. "channel" \in States
    BY DEF States
  <2> QED
    BY <1>0, <1>1, <2>2, <2>3, <2>4, <2>5, GoesInv DEF ghosts
<1>13. ASSUME NEW c \in Chat, ReceiveChannel(s, c) PROVE Inv'
  <2>1. PICK d : d = [data[u] EXCEPT !.order.chat = c]
    OBVIOUS
  <2>2. d \in Data /\ d.preview = data[u].preview /\ d.form = data[u].form
    <3>1. [data[u].order EXCEPT !.chat = c] \in Order
      BY <1>2 DEF Order
    <3> QED
      BY <1>2, <2>1, <3>1 DEF Data
  <2>3. UNCHANGED <<redis, phone, ghosts, lock>> /\ Goes(s, "data", "count", d, "nothing")
    BY <1>1, <1>13, <2>1 DEF ReceiveChannel
  <2>4. Sound(u, d)'
    BY <1>11, <2>2, <2>3 DEF ghosts
  <2>5. "count" \in States
    BY DEF States
  <2> QED
    BY <1>0, <1>1, <2>2, <2>3, <2>4, <2>5, GoesInv DEF ghosts
<1>14. ASSUME NEW n \in Count, ReceiveCount(s, n) PROVE Inv'
  <2>0. PICK k \in Token :
          /\ Gives(u, k)
          /\ Goes(s, "data", "confirm", [data[u] EXCEPT !.order.count = n, !.preview = k], "preview")
    BY <1>1, <1>14 DEF ReceiveCount
  <2>1. PICK d : d = [data[u] EXCEPT !.order.count = n, !.preview = k]
    OBVIOUS
  <2>2. d \in Data /\ d.preview = k /\ d.form = data[u].form
    <3>1. [data[u].order EXCEPT !.count = n] \in Order
      BY <1>2 DEF Order
    <3> QED
      BY <1>2, <2>1, <3>1 DEF Data
  <2>3. /\ UNCHANGED <<redis, phone, used, shown, asked, awaited, torn, lock>>
        /\ Goes(s, "data", "confirm", d, "preview")
    BY <1>14, <2>0, <2>1 DEF ReceiveCount
  <2>4. k \in given'[u] \ given[u]
    BY <2>0 DEF Gives, Inv, TypeOK
  <2>5. Sound(u, d)'
    BY <1>11, <2>0, <2>2, <2>3, <2>4
  <2>6. "confirm" \in States
    BY DEF States
  <2> QED
    BY <1>0, <1>1, <2>0, <2>2, <2>3, <2>5, <2>6, GoesInv
<1>15. ASSUME NEW o \in Offer, Buy(s, o) PROVE Inv'
  <2>1. CASE tx' = [tx EXCEPT ![s] = Handled(s, "done")]
    BY <1>0, <1>15, <2>1, BuyDoneInv DEF Buy
  <2>2. CASE Goes(s, "state", "contact", [data[u] EXCEPT !.item = o], "question")
    <3>1. PICK d : d = [data[u] EXCEPT !.item = o]
      OBVIOUS
    <3>2. d \in Data /\ d.preview = data[u].preview /\ d.form = data[u].form
      BY <1>2, <3>1 DEF Data
    <3>3. UNCHANGED <<redis, phone, ghosts, lock>> /\ Goes(s, "state", "contact", d, "question")
      BY <1>15, <2>2, <3>1 DEF Buy
    <3>4. Sound(u, d)'
      BY <1>11, <3>2, <3>3 DEF ghosts
    <3>5. "contact" \in States
      BY DEF States
    <3> QED
      BY <1>0, <1>1, <3>2, <3>3, <3>4, <3>5, GoesInv DEF ghosts
  <2> QED
    BY <1>1, <1>15, <2>1, <2>2 DEF Buy
<1>16. ASSUME NEW st \in {"ticket", "amount"}, Goes(s, "state last", st, data[u], "nothing"),
              UNCHANGED <<redis, phone, ghosts, lock>>
       PROVE  Inv'
  <2>1. Sound(u, data[u])'
    BY <1>10, <1>16 DEF redis, ghosts, Sound, Fresh
  <2>2. PICK d \in Data : d = data[u]
    BY <1>2
  <2>3. Sound(u, d)'
    BY <1>10, <1>16, <2>2 DEF redis, ghosts, Sound, Fresh
  <2>4. st \in States
    BY DEF States
  <2> QED
    BY <1>0, <1>1, <1>16, <2>2, <2>3, <2>4, GoesInv DEF ghosts
<1>17. CASE StartTicket(s) \/ GiftStart(s)
  BY <1>1, <1>16, <1>17 DEF StartTicket, GiftStart
<1>18. ASSUME NEW a \in Amount, GiftAmount(s, a) PROVE Inv'
  <2>0. PICK k \in Token :
          /\ Gives(u, k)
          /\ Goes(s, "data", "uses", [data[u] EXCEPT !.amount = a, !.form = k], "nothing")
    BY <1>1, <1>18 DEF GiftAmount
  <2>1. PICK d : d = [data[u] EXCEPT !.amount = a, !.form = k]
    OBVIOUS
  <2>2. d \in Data /\ d.form = k /\ d.preview = data[u].preview
    BY <1>2, <2>1 DEF Data
  <2>3. /\ UNCHANGED <<redis, phone, used, shown, asked, awaited, torn, lock>>
        /\ Goes(s, "data", "uses", d, "nothing")
    BY <1>18, <2>0, <2>1 DEF GiftAmount
  <2>4. k \in given'[u] \ given[u]
    BY <2>0 DEF Gives, Inv, TypeOK
  <2>5. Sound(u, d)'
    BY <1>11, <2>0, <2>2, <2>3, <2>4
  <2>6. "uses" \in States
    BY DEF States
  <2> QED
    BY <1>0, <1>1, <2>0, <2>2, <2>3, <2>5, <2>6, GoesInv
<1> QED
  BY <1>5, <1>6, <1>7, <1>8, <1>9, <1>12, <1>13, <1>14, <1>15, <1>17, <1>18,
     AskReportInv, CaptureReportInv DEF Handle

LEMMA CommitInv == ASSUME Inv, NEW s \in Session, Commit(s) PROVE Inv'
<1>1. tx[s].pc = "done" /\ tx[s].actor \in User
  BY Running DEF Commit
<1>2. phone' \in [User -> BOOLEAN]
  <2>1. phone \in [User -> BOOLEAN]
    BY DEF Inv, TypeOK
  <2>2. phone' = [phone EXCEPT ![tx[s].actor] = @ \/ tx[s].makes \in {"request", "another request"}]
    BY DEF Commit
  <2> QED
    BY <1>1, <2>1, <2>2
<1>3. torn' = torn /\ torn \subseteq User
  BY DEF Commit, Inv, TypeOK
<1>4. \/ used' = used
      \/ /\ tx[s].makes \in Dealing
         /\ used' = [k \in User \X Token |->
                      IF k = <<tx[s].actor, tx[s].token>> THEN used[k] + 1 ELSE used[k]]
  <2>1. used \in [User \X Token -> Nat]
    BY DEF Inv, TypeOK
  <2>2. CASE tx[s].makes \in Dealing
    BY <2>2 DEF Commit, Dealing
  <2>3. CASE tx[s].makes \notin Dealing
    <3>1. used' = [k \in User \X Token |-> used[k]]
      BY <2>3 DEF Commit, Dealing
    <3> QED
      BY <2>1, <3>1
  <2> QED
    BY <2>2, <2>3
<1>5. ~Writing(s)
  BY <1>1 DEF Writing
<1> QED
  BY <1>1, <1>2, <1>3, <1>4, <1>5, Leave DEF Commit

LEMMA AbortInv == ASSUME Inv, NEW s \in Session, Abort(s) PROVE Inv'
<1>1. tx[s].pc # "idle" /\ tx[s].actor \in User
  BY DEF Abort, Inv, Knows, Holds
<1>2. phone' \in [User -> BOOLEAN] /\ torn \subseteq User
  BY DEF Abort, Inv, TypeOK
<1>3. CASE Writing(s)
  <2>1. torn' = torn \cup {tx[s].actor} /\ tx[s].pc # "read"
    BY <1>3 DEF Abort, Writing
  <2> QED
    BY <1>1, <1>2, <1>3, <2>1, Leave DEF Abort
<1>4. CASE ~Writing(s)
  <2>1. torn' = torn
    BY <1>4 DEF Abort, Writing
  <2> QED
    BY <1>1, <1>2, <1>4, <2>1, Leave DEF Abort
<1> QED
  BY <1>3, <1>4

LEMMA NextInv == Inv /\ [Next]_vars => Inv'
<1> SUFFICES ASSUME Inv, [Next]_vars PROVE Inv'
  OBVIOUS
<1>1. ASSUME NEW s \in Session, Step(s) PROVE Inv'
  <2>1. CASE \E u \in User : Receive(s, u)
    BY <2>1, ReceiveInv
  <2>2. CASE TakeRow(s) \/ Handle(s)
    BY <2>2, TakeRowInv, HandleInv
  <2>3. CASE WriteData(s) \/ WriteState(s) \/ Tell(s)
    BY <2>3, WriteDataInv, WriteStateInv, TellInv
  <2>4. CASE Commit(s) \/ Abort(s)
    BY <2>4, CommitInv, AbortInv
  <2> QED
    BY <1>1, <2>1, <2>2, <2>3, <2>4 DEF Step
<1>2. CASE UNCHANGED vars
  <2>1. /\ tx' = tx /\ lock' = lock /\ phone' = phone
        /\ state' = state /\ data' = data /\ report' = report /\ given' = given
        /\ used' = used /\ shown' = shown /\ asked' = asked /\ awaited' = awaited /\ torn' = torn
    BY <1>2 DEF vars, redis, ghosts
  <2>2. TypeOK'
    BY <2>1 DEF Inv, TypeOK
  <2>3. ASSUME NEW s \in Session PROVE Knows(s)'
    <3>1. Knows(s)
      BY DEF Inv
    <3>2. Holds(s)' /\ Sure(s)'
      BY <2>1, <3>1 DEF Knows, Holds, Sure
    <3>3. Sound(tx[s].actor, tx[s].data) => Sound(tx[s].actor, tx[s].data)'
      BY <2>1 DEF Sound, Fresh
    <3>4. Plans(s)'
      BY <2>1, <3>1, <3>3 DEF Knows, Plans
    <3>5. Pending(s)'
      BY <2>1, <3>1 DEF Knows, Pending, Dealing, NoData, NoOrder
    <3> QED
      BY <3>2, <3>4, <3>5 DEF Knows
  <2>4. ASSUME NEW u \in User PROVE Good(u)'
    <3>1. Good(u)
      BY DEF Inv
    <3>2. Mid(u)' <=> Mid(u)
      BY <2>1 DEF Mid, Writing
    <3> QED
      BY <2>1, <3>1, <3>2 DEF Good, Sound, Fresh, Spent, Coherent
  <2> QED
    BY <2>2, <2>3, <2>4 DEF Inv
<1> QED
  BY <1>1, <1>2, ExpireReportInv DEF Next

THEOREM SpecInv == Spec => []Inv
BY InitInv, NextInv, PTL DEF Spec

\* Redis, the phones and the sessions keep the values the code can give them.
THEOREM SpecTypeOK == Spec => []TypeOK
<1>1. Inv => TypeOK
  BY DEF Inv
<1> QED
  BY <1>1, SpecInv, PTL

\* What a dialog ends with is what it led up to, whatever the other users do and
\* however many sessions there are.
THEOREM SpecEndsAsExpected == Spec => []EndsAsExpected
<1>1. Inv => EndsAsExpected
  BY DEF Inv, Knows, Sure, EndsAsExpected
<1> QED
  BY <1>1, SpecInv, PTL

\* Only telling the owner and committing turn a token into what it asks for,
\* and each turns at most the one its session has pending.
LEMMA StepAnswers == Inv /\ [Next]_vars => [Answers!Next]_used
<1> SUFFICES ASSUME Inv, [Next]_vars, used' # used PROVE Answers!Next
  OBVIOUS
<1> USE NobodyAssumption
<1>1. PICK s \in Session : Tell(s) \/ Commit(s)
  <2>1. ~UNCHANGED vars
    BY DEF vars, ghosts
  <2>2. \A u \in User : ~ExpireReport(u)
    BY DEF ExpireReport, ghosts
  <2>3. PICK s \in Session : Step(s)
    BY <2>1, <2>2 DEF Next
  <2>4. ~(TakeRow(s) \/ WriteData(s) \/ WriteState(s) \/ Abort(s))
    BY DEF TakeRow, WriteData, WriteState, Abort, ghosts
  <2>5. ~Handle(s)
    BY DEF Handle, OrderMenu, Cancel, LeaveByMenu, Confirm, ChooseType, ReceiveChannel,
           ReceiveCount, AskReport, CaptureReport, Buy, Contact, StartTicket, SubmitTicket,
           GiftStart, GiftUses, GiftAmount, ghosts
  <2>6. \A u \in User : ~Receive(s, u)
    BY DEF Receive, ghosts
  <2> QED
    BY <2>3, <2>4, <2>5, <2>6 DEF Step
<1>2. PICK k : k = <<tx[s].actor, tx[s].token>>
  OBVIOUS
<1>3. used' = [q \in User \X Token |-> IF q = k THEN used[q] + 1 ELSE used[q]]
  <2>1. used \in [User \X Token -> Nat]
    BY DEF Inv, TypeOK
  <2>2. CASE Tell(s)
    <3>1. CASE tx[s].makes = "report"
      BY <1>2, <2>2, <3>1 DEF Tell
    <3>2. CASE tx[s].makes # "report"
      <4>1. used' = [q \in User \X Token |-> used[q]]
        BY <2>2, <3>2 DEF Tell
      <4> QED
        BY <2>1, <4>1
    <3> QED
      BY <3>1, <3>2
  <2>3. CASE Commit(s)
    <3>1. CASE tx[s].makes \in Dealing
      BY <1>2, <2>3, <3>1 DEF Commit, Dealing
    <3>2. CASE tx[s].makes \notin Dealing
      <4>1. used' = [q \in User \X Token |-> used[q]]
        BY <2>3, <3>2 DEF Commit, Dealing
      <4> QED
        BY <2>1, <4>1
    <3> QED
      BY <3>1, <3>2
  <2> QED
    BY <1>1, <2>2, <2>3
<1>4. used \in [User \X Token -> Nat] /\ used' \in [User \X Token -> Nat]
  <2>1. used \in [User \X Token -> Nat]
    BY DEF Inv, TypeOK
  <2> QED
    BY <1>3, <2>1
<1>5. k \in User \X Token
  BY <1>3, <1>4
<1>6. used[k] = 0
  <2>1. tx[s].actor \in User /\ tx[s].token \in Token
    BY <1>2, <1>5
  <2>2. Pending(s) /\ tx[s].pc \in {"tell", "done"}
    BY <1>1 DEF Inv, Knows, Tell, Commit
  <2>3. tx[s].makes \in Dealing \/ (tx[s].makes = "report" /\ tx[s].pc = "tell")
    <3>1. CASE Tell(s)
      <4>1. tx[s].makes # "report" => used' = [q \in User \X Token |-> used[q]]
        BY <3>1 DEF Tell
      <4> QED
        BY <1>4, <3>1, <4>1 DEF Tell
    <3>2. CASE Commit(s)
      <4>1. tx[s].makes \notin Dealing => used' = [q \in User \X Token |-> used[q]]
        BY <3>2 DEF Commit, Dealing
      <4> QED
        BY <1>4, <4>1
    <3> QED
      BY <1>1, <3>1, <3>2
  <2> QED
    BY <1>2, <2>1, <2>2, <2>3 DEF Pending
<1>7. used' = [q \in User \X Token |-> IF q \in {k} THEN 1 ELSE used[q]]
  BY <1>3, <1>4, <1>6
<1>8. Answers!Pay({k})
  BY <1>6, <1>7 DEF Answers!Pay
<1> QED
  BY <1>5, <1>8 DEF Answers!Next

\* Dialogs implements Payouts: whatever is pressed twice, at the same time or
\* after a failure, a preview, a form or a question for a report is used once.
THEOREM SpecAnswers == Spec => AnswersSpec
<1>1. Init => Answers!Init
  BY DEF Init, Answers!Init
<1> QED
  BY <1>1, SpecInv, StepAnswers, PTL DEF Spec, AnswersSpec, Answers!Spec
=============================================================================
