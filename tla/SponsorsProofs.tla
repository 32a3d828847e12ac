--------------------------- MODULE SponsorsProofs ---------------------------
(***************************************************************************)
(* Proofs about Sponsors.  A session that has taken the row of its user is *)
(* the only one that records joins of that user, and the only one that     *)
(* handles leaves the user has caused: what it has read of their joins is  *)
(* still so when it commits.                                               *)
(***************************************************************************)
EXTENDS Sponsors, TLAPS

\* u is in the channel, or their leave is being or was dealt with.
Excused(c, u) == u \in member[c] \/ Pending(c, u) \/ <<c, u>> \in missed

\* The joins that exist are of users in channels that are known.
Known ==
  \A j \in Join : join[j].status # "absent" =>
    /\ join[j].channel \in Sponsor /\ join[j].user \in User
    /\ sponsor[join[j].channel] # "absent"

\* Updates caused by other users are noted in missed.
ByOthers == \A e \in events : e[3] = e[2] \/ <<e[1], e[2]>> \in missed

\* What a session holds and has, at each point of its way.
Phase(s) ==
  LET t == tx[s]
  IN  /\ t.pc # "idle" => t.actor \in User
      /\ t.pc \notin {"idle", "read"} => lock[t.actor] = s
      /\ t.pc \in {"idle", "read", "ready"} =>
           t.item = Nobody /\ \A j \in Join : t.new[j].status = "absent"
      /\ t.pc = "idle" => t.leave = Nobody
      /\ t.pc = "left" => t.item # Nobody
      /\ t.pc # "gate" => t.todo = {}
      /\ t.leave # Nobody => t.pc # "gate" /\ \A j \in Join : t.new[j].status = "absent"
      /\ t.leave = Nobody => t.item = Nobody
      /\ t.item = Nobody => ~t.fine

\* Nobody else knows a join j of u in c, which session s has recorded.
Fresh(s, j, c, u) ==
  /\ lock[j] = s /\ join[j].status = "absent"
  /\ sponsor[c] # "absent" /\ c \notin tx[s].todo
  /\ OpenJoin(c, u) = {} /\ Excused(c, u)
  /\ \A k \in Join : tx[s].new[k].status # "absent" /\ tx[s].new[k].channel = c => k = j

\* The joins a session has recorded, and the channels it has still to ask for.
Gating(s) ==
  /\ \A c \in tx[s].todo : sponsor[c] # "absent"
  /\ \A j \in Join : tx[s].new[j].status # "absent" =>
       /\ tx[s].new[j].channel \in Sponsor
       /\ tx[s].new[j] = Recorded(tx[s].new[j].channel, tx[s].actor)
  /\ \A j \in Join, c \in Sponsor, u \in User :
       tx[s].new[j].status # "absent" /\ tx[s].new[j].channel = c /\ tx[s].actor = u
       => Fresh(s, j, c, u)

\* The join that a session ends; no other open join is of who has left by
\* themselves.
Leaving(s) ==
  LET t == tx[s]
  IN  /\ t.leave # Nobody => t.actor = t.leave[2] \/ t.leave \in missed
      /\ t.item # Nobody =>
           /\ join[t.item].status # "absent"
           /\ <<join[t.item].channel, join[t.item].user>> = t.leave
      /\ t.pc \in {"left", "done"} /\ t.leave # Nobody =>
           (t.actor = t.leave[2] => OpenJoin(t.leave[1], t.leave[2]) \subseteq {t.item})

Inv ==
  /\ TypeOK /\ OneOpenJoin /\ LeaversFound /\ PenalisedOnceUnlessOverwritten
  /\ Known /\ ByOthers
  /\ \A s \in Session : Phase(s) /\ Gating(s) /\ Leaving(s)

LEMMA IdleType == IdleTx \in Tx
BY DEF IdleTx, Tx, NoRow, Row

LEMMA InitInv == Init => Inv
<1> SUFFICES ASSUME Init PROVE Inv
  OBVIOUS
<1> USE RowAssumption DEF Init
<1>1. TypeOK
  BY IdleType DEF TypeOK, NoRow, Row
<1>2. OneOpenJoin /\ LeaversFound /\ PenalisedOnceUnlessOverwritten /\ Known /\ ByOthers
  BY DEF OneOpenJoin, LeaversFound, PenalisedOnceUnlessOverwritten, Known, ByOthers, NoRow
<1>3. ASSUME NEW s \in Session PROVE Phase(s) /\ Gating(s) /\ Leaving(s)
  BY DEF Phase, Gating, Leaving, IdleTx, NoRow
<1> QED
  BY <1>1, <1>2, <1>3 DEF Inv

\* Locks that are taken are free or one's own, those of others stay.
LEMMA LockKeeps ==
  ASSUME TypeOK, NEW s \in Session, NEW K, Lock(s, K)
  PROVE  /\ lock' \in [Rows -> Session \cup {Nobody}]
         /\ \A t \in Session, k \in Rows : lock[k] = t => lock'[k] = t
         /\ \A k \in K \cap Rows : lock'[k] = s
BY RowAssumption DEF TypeOK, Lock

\* What is said of a session stays while it rests, if others change no row that
\* it holds, record or reopen no join of its user, and end none that it ends.
LEMMA Rests ==
  ASSUME Inv, NEW t \in Session, tx'[t] = tx[t],
         \A k \in Rows : lock[k] = t => lock'[k] = t,
         \A c \in Sponsor : sponsor[c] # "absent" => sponsor'[c] # "absent",
         \A j \in Join : lock[j] = t /\ join[j].status = "absent" => join'[j].status = "absent",
         missed \subseteq missed',
         \A c \in Sponsor, u \in User : tx[t].pc \notin {"idle", "read"} /\ tx[t].actor = u =>
           /\ OpenJoin(c, u)' \subseteq OpenJoin(c, u)
           /\ Excused(c, u) => Excused(c, u)',
         tx[t].item # Nobody =>
           /\ join'[tx[t].item].status # "absent"
           /\ join'[tx[t].item].channel = join[tx[t].item].channel
           /\ join'[tx[t].item].user = join[tx[t].item].user
  PROVE  Phase(t)' /\ Gating(t)' /\ Leaving(t)'
<1>1. Phase(t) /\ Gating(t) /\ Leaving(t) /\ tx[t] \in Tx
  BY DEF Inv, TypeOK
<1>2. Phase(t)'
  BY <1>1 DEF Phase, Rows
<1>3. ASSUME NEW j \in Join, NEW c \in Sponsor, NEW u \in User,
             tx[t].new[j].status # "absent", tx[t].new[j].channel = c, tx[t].actor = u
      PROVE  Fresh(t, j, c, u)'
  <2>1. Fresh(t, j, c, u)
    BY <1>1, <1>3 DEF Gating
  <2>2. tx[t].pc \notin {"idle", "read"} /\ j \in Rows
    BY <1>1, <1>3 DEF Phase, Rows
  <2>3. OpenJoin(c, u)' = {} /\ Excused(c, u)'
    BY <2>1, <2>2, <1>3 DEF Fresh
  <2> QED
    BY <2>1, <2>2, <2>3 DEF Fresh
<1>4. Gating(t)'
  <2>1. \A c \in tx[t].todo : sponsor'[c] # "absent"
    BY <1>1 DEF Gating, Tx
  <2>2. \A j \in Join : tx[t].new[j].status # "absent" =>
          /\ tx[t].new[j].channel \in Sponsor
          /\ tx[t].new[j] = Recorded(tx[t].new[j].channel, tx[t].actor)
    BY <1>1 DEF Gating
  <2> QED
    BY <2>1, <2>2, <1>3 DEF Gating, Recorded
<1>5. Leaving(t)'
  <2>1. t \in Session /\ tx[t].leave # Nobody => tx[t].leave[1] \in Sponsor /\ tx[t].leave[2] \in User
    BY <1>1 DEF Tx
  <2>2. ASSUME tx[t].pc \in {"left", "done"}, tx[t].leave # Nobody, tx[t].actor = tx[t].leave[2],
               NEW c \in Sponsor, NEW u \in User, c = tx[t].leave[1], u = tx[t].leave[2]
        PROVE  OpenJoin(c, u)' \subseteq {tx[t].item}
    BY <2>2, <1>1 DEF Leaving
  <2> QED
    BY <1>1, <2>1, <2>2 DEF Leaving
<1> QED
  BY <1>2, <1>4, <1>5

\* A step that records or ends no join: every session rests, or is as it should be.
LEMMA Quiet ==
  ASSUME Inv, TypeOK',
         \A t \in Session :
           \/ tx'[t] = tx[t] /\ \A k \in Rows : lock[k] = t => lock'[k] = t
           \/ Phase(t)' /\ Gating(t)' /\ Leaving(t)',
         sponsor' = sponsor, fines' = fines,
         \A j \in Join : /\ join'[j].status = join[j].status /\ join'[j].user = join[j].user
                         /\ join'[j].channel = join[j].channel
                         /\ join'[j].penalized = join[j].penalized,
         missed \subseteq missed', overwritten \subseteq overwritten',
         \A c \in Sponsor, u \in User : Excused(c, u) => Excused(c, u)',
         ByOthers'
  PROVE  Inv'
<1>1. ASSUME NEW c \in Sponsor, NEW u \in User PROVE OpenJoin(c, u)' = OpenJoin(c, u)
  BY DEF OpenJoin
<1>2. ASSUME NEW t \in Session PROVE Phase(t)' /\ Gating(t)' /\ Leaving(t)'
  <2>1. tx[t].item # Nobody => tx[t].item \in Join /\ join[tx[t].item].status # "absent"
    BY DEF Inv, Leaving, TypeOK, Tx
  <2>2. CASE tx'[t] = tx[t] /\ \A k \in Rows : lock[k] = t => lock'[k] = t
    BY <1>1, <2>1, <2>2, Rests
  <2> QED
    BY <2>2
<1>3. OneOpenJoin' /\ Known' /\ PenalisedOnceUnlessOverwritten'
  BY DEF Inv, OneOpenJoin, Known, PenalisedOnceUnlessOverwritten
<1>4. LeaversFound'
  <2> SUFFICES ASSUME NEW j \in Join, join'[j].status = "open",
                      NEW c, c = join[j].channel, NEW u, u = join[j].user
               PROVE  Excused(c, u)'
    BY DEF LeaversFound, Excused
  <2>1. Excused(c, u) /\ c \in Sponsor /\ u \in User
    BY DEF Inv, LeaversFound, Excused, Known
  <2> QED
    BY <2>1
<1> QED
  BY <1>2, <1>3, <1>4 DEF Inv

\* A step of a session that is quiet, and whose session keeps the leave it handles.
LEMMA QuietStep ==
  ASSUME Inv, TypeOK', NEW s \in Session,
         \A t \in Session \ {s} : tx'[t] = tx[t],
         tx'[s].leave = tx[s].leave,
         \A t \in Session \ {s}, k \in Rows : lock[k] = t => lock'[k] = t,
         UNCHANGED <<tables, telegram, missed, overwritten>>,
         Phase(s)', Gating(s)', Leaving(s)'
  PROVE  Inv'
<1>1. \A t \in Session : tx'[t].leave = tx[t].leave
  OBVIOUS
<1>2. ASSUME NEW c \in Sponsor, NEW u \in User, Excused(c, u) PROVE Excused(c, u)'
  BY <1>1, <1>2 DEF Excused, Pending, telegram
<1>3. ByOthers'
  BY DEF Inv, ByOthers, telegram
<1> QED
  BY <1>2, <1>3, Quiet DEF tables

LEMMA GoesTo ==
  ASSUME TypeOK, NEW s \in Session, NEW t, Goes(s, t)
  PROVE  /\ tx'[s] = t /\ \A r \in Session \ {s} : tx'[r] = tx[r]
         /\ t \in Tx => tx' \in [Session -> Tx]
BY DEF TypeOK, Goes

\* Who joins or leaves is excused, and so is who was.
LEMMA Members ==
  ASSUME Inv, NEW d \in Sponsor, NEW v \in User,
         Enter(d, v) \/ \E b \in User : Leave(d, v, b)
  PROVE  Inv'
<1>1. TypeOK'
  BY DEF Inv, TypeOK, Enter, Leave, tables
<1>2. UNCHANGED <<tables, lock, overwritten, tx>> /\ missed \subseteq missed'
  BY DEF Enter, Leave
<1>3. ASSUME NEW c \in Sponsor, NEW u \in User, Excused(c, u) PROVE Excused(c, u)'
  <2>1. CASE Enter(d, v)
    BY <1>3, <2>1 DEF Enter, Excused, Pending, Inv, TypeOK
  <2>2. CASE \E b \in User : Leave(d, v, b)
    BY <1>3, <2>2 DEF Leave, Excused, Pending, Inv, TypeOK
  <2> QED
    BY <2>1, <2>2
<1>4. ByOthers'
  <2>1. ASSUME NEW b \in User, Leave(d, v, b), NEW e \in events'
        PROVE  e[3] = e[2] \/ <<e[1], e[2]>> \in missed'
    <3>1. e \in events \/ (e[1] = d /\ e[2] = v /\ e[3] = b)
      BY <2>1 DEF Leave
    <3> QED
      BY <2>1, <3>1 DEF Inv, ByOthers, Leave
  <2> QED
    BY <2>1 DEF Inv, ByOthers, Enter
<1> QED
  BY <1>1, <1>2, <1>3, <1>4, Quiet DEF tables

LEMMA Drops ==
  ASSUME Inv, DropPendingUpdates
  PROVE  Inv'
<1>1. TypeOK'
  BY DEF Inv, TypeOK, DropPendingUpdates, tables
<1>2. ASSUME NEW c \in Sponsor, NEW u \in User, Excused(c, u) PROVE Excused(c, u)'
  <2>1. ASSUME NEW b \in User, <<c, u, b>> \in events PROVE <<c, u>> \in missed'
    <3> DEFINE e == <<c, u, b>>
    <3>1. e \in events /\ <<e[1], e[2]>> = <<c, u>>
      BY <2>1
    <3> QED
      BY <3>1 DEF DropPendingUpdates
  <2> QED
    BY <1>2, <2>1 DEF DropPendingUpdates, Excused, Pending
<1>3. ByOthers'
  BY DEF Inv, ByOthers, DropPendingUpdates
<1> QED
  BY <1>1, <1>2, <1>3, Quiet DEF tables, DropPendingUpdates

LEMMA Ages ==
  ASSUME Inv, NEW j \in Join, JoinAges(j)
  PROVE  Inv'
<1>1. join' = [join EXCEPT ![j] = [join[j] EXCEPT !.early = FALSE]]
      /\ join[j] \in Row /\ join \in [Join -> Row]
  BY DEF Inv, TypeOK, JoinAges
<1>2. TypeOK'
  <2>1. [join[j] EXCEPT !.early = FALSE] \in Row
    BY <1>1 DEF Row
  <2> QED
    BY <1>1, <2>1 DEF Inv, TypeOK, JoinAges, telegram
<1>3. \A k \in Join : /\ join'[k].status = join[k].status /\ join'[k].user = join[k].user
                      /\ join'[k].channel = join[k].channel
                      /\ join'[k].penalized = join[k].penalized
  BY <1>1 DEF Row
<1>4. ASSUME NEW c \in Sponsor, NEW u \in User, Excused(c, u) PROVE Excused(c, u)'
  BY <1>4 DEF JoinAges, telegram, Excused, Pending
<1>5. ByOthers'
  BY DEF Inv, ByOthers, JoinAges, telegram
<1> QED
  BY <1>2, <1>3, <1>4, <1>5, Quiet DEF JoinAges

LEMMA Receives ==
  ASSUME Inv, NEW s \in Session,
         (\E u \in User : Receive(s, u)) \/ \E e \in events : ReceiveLeave(s, e)
  PROVE  Inv'
<1>1. CASE \E u \in User : Receive(s, u)
  <2> PICK u \in User : Receive(s, u)
    BY <1>1
  <2> DEFINE t == [IdleTx EXCEPT !.pc = "read", !.actor = u]
  <2>1. t \in Tx /\ TypeOK
    BY IdleType DEF Tx, Inv
  <2>2. tx'[s] = t /\ (\A r \in Session \ {s} : tx'[r] = tx[r]) /\ TypeOK'
    BY <2>1, GoesTo DEF Receive, TypeOK, tables, telegram
  <2>3. tx[s].leave = Nobody
    BY DEF Receive, Inv, Phase
  <2>4. Phase(s)' /\ Gating(s)' /\ Leaving(s)'
    BY <2>2 DEF Phase, Gating, Leaving, IdleTx, NoRow
  <2> QED
    BY <2>2, <2>3, <2>4, QuietStep DEF Receive, IdleTx, tables, telegram
<1>2. CASE \E e \in events : ReceiveLeave(s, e)
  <2> PICK d \in Sponsor, v \in User, b \in User :
             <<d, v, b>> \in events /\ ReceiveLeave(s, <<d, v, b>>)
    <3> PICK e \in events : ReceiveLeave(s, e)
      BY <1>2
    <3>1. e \in Sponsor \X User \X User
      BY DEF Inv, TypeOK
    <3> PICK d \in Sponsor, v \in User, b \in User : e = <<d, v, b>>
      BY <3>1
    <3> QED
      OBVIOUS
  <2> DEFINE t == [IdleTx EXCEPT !.pc = "read", !.actor = b, !.leave = <<d, v>>]
  <2>1. t \in Tx /\ TypeOK
    BY IdleType DEF Tx, Inv
  <2>2. /\ tx[s].pc = "idle" /\ events' = events \ {<<d, v, b>>} /\ Goes(s, t)
        /\ UNCHANGED <<tables, member, missed, lock, overwritten>>
    BY DEF ReceiveLeave
  <2> HIDE DEF t
  <2>3. tx'[s] = t /\ (\A r \in Session \ {s} : tx'[r] = tx[r]) /\ tx' \in [Session -> Tx]
    BY <2>1, <2>2, GoesTo
  <2>4. TypeOK'
    BY <2>1, <2>2, <2>3 DEF TypeOK, tables
  <2>5. /\ t.pc = "read" /\ t.actor = b /\ t.leave = <<d, v>> /\ t.todo = {}
        /\ t.item = Nobody /\ ~t.fine /\ \A j \in Join : t.new[j].status = "absent"
    BY DEF t, IdleTx, NoRow
  <2>6. b = v \/ <<d, v>> \in missed
    BY DEF Inv, ByOthers
  <2>7. Phase(s)' /\ Gating(s)'
    BY <2>3, <2>5 DEF Phase, Gating
  <2>8. Leaving(s)'
    BY <2>2, <2>3, <2>5, <2>6 DEF Leaving
  <2>9. ASSUME NEW c \in Sponsor, NEW u \in User, Excused(c, u) PROVE Excused(c, u)'
    <3>1. ASSUME NEW a \in User, <<c, u, a>> \in events
          PROVE  <<c, u, a>> \in events' \/ tx'[s].leave = <<c, u>>
      BY <3>1, <2>2, <2>3, <2>5
    <3>2. ASSUME NEW r \in Session, tx[r].leave = <<c, u>> PROVE r # s
      <4>1. <<c, u>> \in Sponsor \X User
        OBVIOUS
      <4>2. <<c, u>> # Nobody
        BY <4>1, RowAssumption
      <4>3. tx[s].leave = Nobody
        BY <2>2 DEF Inv, Phase
      <4> QED
        BY <3>2, <4>2, <4>3
    <3> QED
      BY <2>9, <2>2, <2>3, <3>1, <3>2 DEF Excused, Pending
  <2>10. ByOthers'
    BY <2>2, <2>3, <2>5 DEF Inv, ByOthers
  <2> QED
    BY <2>2, <2>3, <2>4, <2>7, <2>8, <2>9, <2>10, Quiet DEF tables
<1> QED
  BY <1>1, <1>2

\* A session that goes on, and changes nothing but its own state and its locks.
LEMMA GoesOn ==
  ASSUME Inv, NEW s \in Session, NEW t \in Tx, Goes(s, t),
         t.leave = tx[s].leave, t.actor = tx[s].actor, t.new = tx[s].new,
         t.todo \subseteq tx[s].todo \cup {c \in Sponsor : sponsor[c] = "on"},
         t.todo \subseteq tx[s].todo \/ \A j \in Join : t.new[j].status = "absent",
         lock' \in [Rows -> Session \cup {Nobody}],
         \A r \in Session, k \in Rows : lock[k] = r => lock'[k] = r,
         UNCHANGED <<tables, telegram, missed, overwritten>>,
         Phase(s)', Leaving(s)'
  PROVE  Inv'
<1>1. /\ tx'[s] = t /\ (\A r \in Session \ {s} : tx'[r] = tx[r])
      /\ tx' \in [Session -> Tx]
  BY GoesTo DEF Inv
<1>2. TypeOK'
  BY <1>1 DEF Inv, TypeOK, tables, telegram
<1>3. Gating(s) /\ Phase(s) /\ tx[s] \in Tx
  BY DEF Inv, TypeOK
<1>4. \A c \in t.todo : sponsor'[c] # "absent"
  BY <1>3 DEF Gating, tables
<1>5. ASSUME NEW j \in Join, NEW c \in Sponsor, NEW u \in User,
             t.new[j].status # "absent", t.new[j].channel = c, t.actor = u
      PROVE  Fresh(s, j, c, u)'
  <2>1. Fresh(s, j, c, u) /\ t.todo \subseteq tx[s].todo /\ j \in Rows
    BY <1>3, <1>5 DEF Gating, Rows
  <2>2. OpenJoin(c, u)' = OpenJoin(c, u)
    BY DEF OpenJoin, tables
  <2>3. Excused(c, u)'
    BY <2>1, <1>1 DEF Fresh, Excused, Pending, telegram
  <2> QED
    BY <2>1, <2>2, <2>3, <1>1, <1>5 DEF Fresh, tables
<1>6. Gating(s)'
  BY <1>1, <1>3, <1>4, <1>5 DEF Gating, Recorded
<1> QED
  BY <1>1, <1>2, <1>6, QuietStep

LEMMA Takes ==
  ASSUME Inv, NEW s \in Session, TakeRow(s)
  PROVE  Inv'
<1> DEFINE t == [tx[s] EXCEPT !.pc = "ready"]
<1>1. /\ tx[s].pc = "read" /\ Lock(s, {tx[s].actor}) /\ Goes(s, t)
      /\ UNCHANGED <<tables, telegram, missed, overwritten>>
  BY DEF TakeRow, OwnRow
<1>2. Phase(s) /\ Leaving(s) /\ tx[s] \in Tx /\ TypeOK
  BY DEF Inv, TypeOK
<1>3. t \in Tx /\ tx'[s] = t
  BY <1>1, <1>2, GoesTo DEF Tx
<1>4. /\ lock' \in [Rows -> Session \cup {Nobody}]
      /\ \A r \in Session, k \in Rows : lock[k] = r => lock'[k] = r
      /\ tx[s].actor \in Rows => lock'[tx[s].actor] = s
  BY <1>1, <1>2, LockKeeps
<1>5. Phase(s)'
  BY <1>1, <1>2, <1>3, <1>4 DEF Phase, Tx, Rows
<1>6. Leaving(s)'
  BY <1>1, <1>2, <1>3 DEF Leaving, Phase, Tx, tables
<1> HIDE DEF t
<1>7. /\ t.leave = tx[s].leave /\ t.actor = tx[s].actor /\ t.new = tx[s].new
      /\ t.todo = tx[s].todo /\ t.item = tx[s].item
  BY <1>2 DEF t, Tx
<1> QED
  BY <1>1, <1>3, <1>4, <1>5, <1>6, <1>7, GoesOn

\* What the gate asks for next, and when it is done.
LEMMA Gates ==
  ASSUME Inv, NEW s \in Session,
         GateStart(s) \/ (\E c \in Sponsor : GateOther(s, c)) \/ GateEnd(s)
  PROVE  Inv'
<1>1. Phase(s) /\ Leaving(s) /\ tx[s] \in Tx /\ TypeOK
  BY DEF Inv, TypeOK
<1>2. /\ UNCHANGED <<tables, telegram, missed, lock, overwritten>> /\ tx[s].leave = Nobody
      /\ tx[s].pc \in {"ready", "gate"}
  BY <1>1 DEF GateStart, GateOther, GateEnd, Phase
<1>3. PICK t : /\ Goes(s, t) /\ t \in Tx /\ t.leave = Nobody /\ t.actor = tx[s].actor
               /\ t.new = tx[s].new /\ t.item = tx[s].item /\ t.fine = tx[s].fine
               /\ t.pc \in {"gate", "done"} /\ (t.pc = "done" => t.todo = {})
               /\ \/ t.todo \subseteq tx[s].todo
                  \/ /\ t.todo = {c \in Sponsor : sponsor[c] = "on"}
                     /\ \A j \in Join : t.new[j].status = "absent"
  <2>1. CASE GateStart(s)
    <3> DEFINE t == [tx[s] EXCEPT !.pc = "gate", !.todo = {c \in Sponsor : sponsor[c] = "on"}]
    <3>1. Goes(s, t) /\ t \in Tx /\ \A j \in Join : t.new[j].status = "absent"
      BY <1>1, <2>1 DEF GateStart, Phase, Tx
    <3>2. /\ t.leave = Nobody /\ t.actor = tx[s].actor /\ t.new = tx[s].new
          /\ t.item = tx[s].item /\ t.fine = tx[s].fine /\ t.pc = "gate"
          /\ t.todo = {c \in Sponsor : sponsor[c] = "on"}
      BY <1>1, <1>2 DEF Tx
    <3> HIDE DEF t
    <3> QED
      BY <3>1, <3>2
  <2>2. CASE \E c \in Sponsor : GateOther(s, c)
    <3> PICK c \in Sponsor : GateOther(s, c)
      BY <2>2
    <3> DEFINE t == [tx[s] EXCEPT !.todo = @ \ {c}]
    <3>1. Goes(s, t) /\ t \in Tx /\ t.pc = "gate" /\ t.todo \subseteq tx[s].todo
      BY <1>1 DEF GateOther, Tx
    <3> QED
      BY <3>1, <1>1, <1>2 DEF Tx
  <2>3. CASE GateEnd(s)
    <3> DEFINE t == [tx[s] EXCEPT !.pc = "done"]
    <3>1. Goes(s, t) /\ t \in Tx /\ t.todo = {}
      BY <1>1, <2>3 DEF GateEnd, Tx
    <3> QED
      BY <3>1, <1>1, <1>2 DEF Tx
  <2> QED
    BY <2>1, <2>2, <2>3
<1>4. tx'[s] = t
  BY <1>1, <1>3, GoesTo
<1>5. Phase(s)'
  BY <1>1, <1>2, <1>3, <1>4 DEF Phase
<1>6. Leaving(s)'
  BY <1>1, <1>2, <1>3, <1>4 DEF Leaving, Phase
<1>7. /\ lock' \in [Rows -> Session \cup {Nobody}]
      /\ \A r \in Session, k \in Rows : lock[k] = r => lock'[k] = r
  BY <1>1, <1>2 DEF TypeOK
<1> QED
  BY <1>1, <1>2, <1>3, <1>5, <1>6, <1>7, GoesOn

LEMMA Switches ==
  ASSUME Inv, NEW s \in Session, NEW c \in Sponsor, NEW to \in {"on", "off"}, Switch(s, c, to)
  PROVE  Inv'
<1> DEFINE t == [tx[s] EXCEPT !.pc = "done", !.switch[c] = to]
<1>1. /\ tx[s].pc = "ready" /\ tx[s].leave = Nobody /\ Lock(s, {c}) /\ Goes(s, t)
      /\ UNCHANGED <<tables, telegram, missed, overwritten>>
  BY DEF Switch
<1>2. Phase(s) /\ Leaving(s) /\ tx[s] \in Tx /\ TypeOK
  BY DEF Inv, TypeOK
<1>3. t \in Tx /\ t.pc = "done"
  BY <1>2 DEF Tx
<1>4. /\ t.leave = tx[s].leave /\ t.actor = tx[s].actor /\ t.new = tx[s].new
      /\ t.todo = tx[s].todo /\ t.item = tx[s].item /\ t.fine = tx[s].fine
  BY <1>2 DEF Tx
<1> HIDE DEF t
<1>5. tx'[s] = t
  BY <1>1, <1>2, GoesTo
<1>6. /\ lock' \in [Rows -> Session \cup {Nobody}]
      /\ \A r \in Session, k \in Rows : lock[k] = r => lock'[k] = r
  BY <1>1, <1>2, LockKeeps
<1>7. Phase(s)'
  BY <1>1, <1>2, <1>3, <1>4, <1>5, <1>6 DEF Phase, Tx, Rows
<1>8. Leaving(s)'
  BY <1>1, <1>2, <1>4, <1>5 DEF Leaving, Phase
<1> QED
  BY <1>1, <1>3, <1>4, <1>6, <1>7, <1>8, GoesOn

\* The open join of a leave is looked for; or it is found and is to be ended.
LEMMA Leaves ==
  ASSUME Inv, NEW s \in Session,
         (\E j \in Join : LeftLook(s, j)) \/ LeftNone(s) \/ LeftWrite(s)
  PROVE  Inv'
<1>1. Phase(s) /\ Leaving(s) /\ tx[s] \in Tx /\ TypeOK
  BY DEF Inv, TypeOK
<1>2. tx[s].leave # Nobody /\ tx[s].pc \in {"ready", "left"}
      /\ UNCHANGED <<tables, telegram, missed, overwritten>> /\ tx[s].actor \in User
  BY <1>1, RowAssumption DEF LeftLook, LeftNone, LeftWrite, Phase
<1>3. PICK d \in Sponsor, v \in User : tx[s].leave = <<d, v>>
  BY <1>1, <1>2 DEF Tx
<1>4. OpenJoin(d, v)' = OpenJoin(d, v)
  BY <1>2 DEF OpenJoin, tables
<1>5. CASE \E j \in Join : LeftLook(s, j)
  <2> PICK j \in Join : LeftLook(s, j)
    BY <1>5
  <2> DEFINE t == [tx[s] EXCEPT !.pc = "left", !.item = j, !.fine = Charged(join[j])]
  <2>0. OpenJoin(tx[s].leave[1], tx[s].leave[2]) = OpenJoin(d, v)
    BY <1>3
  <2>1. /\ tx[s].pc = "ready" /\ OpenJoin(d, v) = {j} /\ Goes(s, t) /\ lock' = lock
    BY <2>0 DEF LeftLook
  <2>2. Charged(join[j]) \in BOOLEAN
    BY <1>1 DEF Charged, TypeOK, Row
  <2>3. t \in Tx /\ t.pc = "left"
    BY <1>1, <2>2 DEF Tx
  <2>4. /\ t.leave = tx[s].leave /\ t.actor = tx[s].actor /\ t.new = tx[s].new
        /\ t.todo = tx[s].todo /\ t.item = j /\ t.fine = Charged(join[j])
    BY <1>1 DEF Tx
  <2> HIDE DEF t
  <2>5. tx'[s] = t /\ j # Nobody
    BY <1>1, <2>1, GoesTo, RowAssumption DEF Rows
  <2>6. join[j].status = "open" /\ join[j].channel = d /\ join[j].user = v
    BY <2>1 DEF OpenJoin
  <2>7. Phase(s)'
    BY <1>1, <1>2, <2>1, <2>3, <2>4, <2>5 DEF Phase
  <2>8. Leaving(s)'
    BY <1>1, <1>2, <1>3, <1>4, <2>1, <2>4, <2>5, <2>6 DEF Leaving, tables
  <2>9. /\ lock' \in [Rows -> Session \cup {Nobody}]
        /\ \A r \in Session, k \in Rows : lock[k] = r => lock'[k] = r
    BY <1>1, <2>1 DEF TypeOK
  <2> QED
    BY <1>2, <2>1, <2>3, <2>4, <2>7, <2>8, <2>9, GoesOn
<1>6. CASE LeftNone(s) \/ LeftWrite(s)
  <2> DEFINE t == [tx[s] EXCEPT !.pc = "done"]
  <2>1. Goes(s, t)
    BY <1>6 DEF LeftNone, LeftWrite
  <2>2. t \in Tx /\ t.pc = "done"
    BY <1>1 DEF Tx
  <2>3. /\ t.leave = tx[s].leave /\ t.actor = tx[s].actor /\ t.new = tx[s].new
        /\ t.todo = tx[s].todo /\ t.item = tx[s].item /\ t.fine = tx[s].fine
    BY <1>1 DEF Tx
  <2> HIDE DEF t
  <2>4. tx'[s] = t
    BY <1>1, <2>1, GoesTo
  <2>5. /\ lock' \in [Rows -> Session \cup {Nobody}]
        /\ \A r \in Session, k \in Rows : lock[k] = r => lock'[k] = r
    BY <1>1, <1>6, LockKeeps DEF LeftNone, LeftWrite, TypeOK
  <2>6. Phase(s)'
    BY <1>1, <1>2, <2>2, <2>3, <2>4, <2>5 DEF Phase, Rows
  <2>7. tx[s].actor = v => OpenJoin(d, v) \subseteq {tx[s].item}
    <3>1. tx[s].leave[1] = d /\ tx[s].leave[2] = v
          /\ OpenJoin(tx[s].leave[1], tx[s].leave[2]) = OpenJoin(d, v)
      BY <1>3
    <3>2. sponsor[d] = "absent" => OpenJoin(d, v) = {}
      BY DEF Inv, Known, OpenJoin
    <3> QED
      BY <1>1, <1>2, <1>6, <3>1, <3>2 DEF LeftNone, LeftWrite, Leaving
  <2>8. Leaving(s)'
    BY <1>1, <1>2, <1>3, <1>4, <2>1, <2>3, <2>4, <2>7 DEF Leaving, tables
  <2> QED
    BY <1>2, <2>1, <2>2, <2>3, <2>5, <2>6, <2>8, GoesOn
<1> QED
  BY <1>5, <1>6

\* A join is recorded: it is the only one of the user in the channel.
LEMMA Records ==
  ASSUME Inv, NEW s \in Session, NEW c \in Sponsor, NEW j \in Join, GateMember(s, c, j)
  PROVE  Inv'
<1>1. Phase(s) /\ Gating(s) /\ Leaving(s) /\ tx[s] \in Tx /\ TypeOK
  BY DEF Inv, TypeOK
<1>0. tx[s].actor \in User
  BY <1>1 DEF GateMember, Phase
<1> PICK u \in User : u = tx[s].actor
  BY <1>0
<1> DEFINE t == [tx[s] EXCEPT !.todo = @ \ {c}, !.new[j] = Recorded(c, u)]
<1>2. /\ tx[s].pc = "gate" /\ c \in tx[s].todo /\ u \in member[c] /\ OpenJoin(c, u) = {}
      /\ join[j].status = "absent" /\ lock[j] = Nobody /\ Lock(s, {j}) /\ Goes(s, t)
      /\ UNCHANGED <<tables, telegram, missed, overwritten>>
  BY DEF GateMember
<1>3. u \in User /\ tx[s].leave = Nobody /\ tx[s].item = Nobody /\ ~tx[s].fine
  BY <1>1, <1>2 DEF Phase
<1>4. Recorded(c, u) \in Row
  BY <1>3 DEF Recorded, Row
<1>5. /\ t \in Tx /\ t.pc = "gate" /\ t.leave = Nobody /\ t.actor = u /\ t.item = Nobody
      /\ ~t.fine /\ t.todo = tx[s].todo \ {c} /\ t.new[j] = Recorded(c, u)
      /\ \A k \in Join \ {j} : t.new[k] = tx[s].new[k]
  BY <1>1, <1>2, <1>3, <1>4 DEF Tx
<1>6. tx'[s] = t /\ (\A r \in Session \ {s} : tx'[r] = tx[r]) /\ tx' \in [Session -> Tx]
  BY <1>1, <1>2, <1>5, GoesTo
<1> HIDE DEF t
<1>7. /\ lock' \in [Rows -> Session \cup {Nobody}] /\ j \in Rows
      /\ \A r \in Session, k \in Rows : lock[k] = r => lock'[k] = r
      /\ lock'[j] = s
  BY <1>1, <1>2, LockKeeps DEF Rows
<1>8. TypeOK'
  BY <1>1, <1>2, <1>6, <1>7 DEF TypeOK, tables, telegram
<1>9. Phase(s)'
  BY <1>1, <1>2, <1>3, <1>5, <1>6, <1>7 DEF Phase, Rows
<1>10. Leaving(s)'
  BY <1>5, <1>6 DEF Leaving
<1>11. s # Nobody
  BY RowAssumption
<1>12. ASSUME NEW k \in Join, t.new[k].status # "absent", NEW d \in Sponsor, t.new[k].channel = d
       PROVE  Fresh(s, k, d, u)'
  <2>1. OpenJoin(d, u)' = OpenJoin(d, u) /\ (Excused(d, u) => Excused(d, u)')
    BY <1>2, <1>5, <1>6, <1>3 DEF OpenJoin, Excused, Pending, tables, telegram
  <2>2. ASSUME NEW i \in Join \ {j}, tx[s].new[i].status # "absent", NEW b \in Sponsor,
               tx[s].new[i].channel = b
        PROVE  Fresh(s, i, b, u)
    BY <1>1, <1>3, <2>2 DEF Gating
  <2>3. ASSUME NEW i \in Join \ {j}, tx[s].new[i].status # "absent"
        PROVE  tx[s].new[i].channel \in Sponsor /\ tx[s].new[i].channel # c
    <3>1. tx[s].new[i].channel \in Sponsor
      BY <1>1, <2>3 DEF Gating
    <3> QED
      BY <3>1, <2>2, <2>3, <1>2 DEF Fresh
  <2>4. CASE k = j
    <3>1. d = c /\ Recorded(c, u).channel = c
      BY <1>5, <1>12, <2>4 DEF Recorded
    <3>2. \A i \in Join : t.new[i].status # "absent" /\ t.new[i].channel = c => i = j
      BY <1>5, <2>3
    <3>3. Excused(c, u) /\ sponsor[c] # "absent"
      BY <1>1, <1>2 DEF Excused, Gating
    <3> QED
      BY <1>2, <1>5, <1>6, <1>7, <2>1, <2>4, <3>1, <3>2, <3>3 DEF Fresh, tables
  <2>5. CASE k # j
    <3>1. Fresh(s, k, d, u) /\ d # c /\ k \in Rows
      BY <1>5, <1>12, <2>2, <2>3, <2>5 DEF Rows
    <3>2. \A i \in Join : t.new[i].status # "absent" /\ t.new[i].channel = d => i = k
      BY <1>5, <3>1 DEF Fresh, Recorded
    <3> QED
      BY <1>2, <1>5, <1>6, <1>7, <2>1, <3>1, <3>2 DEF Fresh, tables
  <2> QED
    BY <2>4, <2>5
<1>13. Gating(s)'
  <2>1. \A d \in t.todo : sponsor'[d] # "absent"
    BY <1>1, <1>2, <1>5 DEF Gating, tables
  <2>2. ASSUME NEW k \in Join, t.new[k].status # "absent"
        PROVE  t.new[k].channel \in Sponsor /\ t.new[k] = Recorded(t.new[k].channel, u)
    <3>0. Recorded(c, u).channel = c
      BY DEF Recorded
    <3>1. CASE k = j
      BY <1>5, <3>0, <3>1
    <3>2. CASE k # j
      BY <1>1, <1>5, <2>2, <3>2 DEF Gating
    <3> QED
      BY <3>1, <3>2
  <2> QED
    BY <1>5, <1>6, <1>12, <2>1, <2>2 DEF Gating, Recorded
<1> QED
  BY <1>2, <1>3, <1>5, <1>6, <1>7, <1>8, <1>9, <1>10, <1>13, QuietStep

LEMMA Ending ==
  ASSUME Inv, NEW s \in Session, Ends(s)
  PROVE  /\ tx'[s] = IdleTx /\ (\A r \in Session \ {s} : tx'[r] = tx[r])
         /\ tx' \in [Session -> Tx] /\ lock' \in [Rows -> Session \cup {Nobody}]
         /\ \A r \in Session \ {s}, k \in Rows : lock[k] = r => lock'[k] = r
         /\ Phase(s)' /\ Gating(s)' /\ Leaving(s)'
<1>1. /\ tx'[s] = IdleTx /\ (\A r \in Session \ {s} : tx'[r] = tx[r])
      /\ tx' \in [Session -> Tx]
  BY IdleType, GoesTo DEF Ends, Inv
<1>2. /\ lock' \in [Rows -> Session \cup {Nobody}]
      /\ \A r \in Session \ {s}, k \in Rows : lock[k] = r => lock'[k] = r
  BY DEF Ends, Inv, TypeOK
<1>3. Phase(s)' /\ Gating(s)' /\ Leaving(s)'
  BY <1>1 DEF Phase, Gating, Leaving, IdleTx, NoRow
<1> QED
  BY <1>1, <1>2, <1>3

LEMMA Aborts ==
  ASSUME Inv, NEW s \in Session, Abort(s)
  PROVE  Inv'
<1>1. Ends(s) /\ UNCHANGED <<tables, telegram, overwritten>> /\ missed \subseteq missed'
      /\ (tx[s].leave # Nobody => missed' = missed \cup {tx[s].leave})
      /\ (tx[s].leave = Nobody => missed' = missed)
  BY DEF Abort
<1>2. tx[s] \in Tx /\ TypeOK
  BY DEF Inv, TypeOK
<1>3. missed' \subseteq Sponsor \X User
  BY <1>1, <1>2 DEF TypeOK, Tx
<1>4. TypeOK'
  BY <1>1, <1>2, <1>3, Ending DEF TypeOK, tables, telegram
<1>5. ASSUME NEW c \in Sponsor, NEW u \in User, Excused(c, u) PROVE Excused(c, u)'
  <2>1. <<c, u>> \in Sponsor \X User /\ <<c, u>> # Nobody
    BY RowAssumption
  <2>2. ASSUME NEW r \in Session, tx[r].leave = <<c, u>>
        PROVE  tx'[r].leave = <<c, u>> \/ <<c, u>> \in missed'
    BY <1>1, <2>1, <2>2, Ending
  <2> QED
    BY <1>1, <1>5, <2>2 DEF Excused, Pending, telegram
<1>6. ByOthers'
  BY <1>1 DEF Inv, ByOthers, telegram
<1> QED
  BY <1>1, <1>4, <1>5, <1>6, Ending, Quiet DEF tables

LEMMA Commits ==
  ASSUME Inv, NEW s \in Session, Commit(s)
  PROVE  Inv'
<1>1. /\ Phase(s) /\ Gating(s) /\ Leaving(s) /\ tx[s] \in Tx /\ TypeOK /\ tx[s].pc = "done"
      /\ Ends(s) /\ UNCHANGED <<telegram, missed>>
      /\ overwritten' = overwritten \cup Outdated(s) /\ Outdated(s) \subseteq Join
  BY DEF Inv, TypeOK, Commit, Outdated
<1>2. /\ tx[s].actor \in User /\ lock[tx[s].actor] = s
      /\ tx[s].leave # Nobody => \A j \in Join : tx[s].new[j].status = "absent"
  BY <1>1 DEF Phase
<1> PICK u \in User : u = tx[s].actor
  BY <1>2
\* What becomes of a join.
<1>3. ASSUME NEW j \in Join
      PROVE  \/ /\ tx[s].new[j].status = "open" /\ join'[j] = tx[s].new[j]
                /\ fines'[j] = fines[j] /\ j # tx[s].item
             \/ /\ tx[s].new[j].status # "open" /\ j = tx[s].item
                /\ join'[j] = Closed(join[j], tx[s].fine)
                /\ fines'[j] = IF tx[s].fine THEN fines[j] + 1 ELSE fines[j]
             \/ /\ tx[s].new[j].status # "open" /\ j # tx[s].item
                /\ join'[j] = join[j] /\ fines'[j] = fines[j]
  <2>1. tx[s].new[j].status = "open" => j # tx[s].item
    BY <1>1, <1>2, RowAssumption DEF Phase, Rows
  <2> QED
    BY <2>1 DEF Commit
<1>4. ASSUME NEW j \in Join
      PROVE  /\ Closed(join[j], tx[s].fine).status = "left"
             /\ Closed(join[j], tx[s].fine).channel = join[j].channel
             /\ Closed(join[j], tx[s].fine).user = join[j].user
             /\ Closed(join[j], tx[s].fine).penalized = (join[j].penalized \/ tx[s].fine)
             /\ Closed(join[j], tx[s].fine) \in Row
  <2>1. join[j] \in Row /\ tx[s].fine \in BOOLEAN
    BY <1>1 DEF TypeOK, Tx
  <2> QED
    BY <2>1 DEF Closed, Row
\* A join the session has recorded is the first of its user in its channel.
<1>5. ASSUME NEW j \in Join, tx[s].new[j].status = "open"
      PROVE  \E c \in Sponsor :
               /\ join'[j].channel = c /\ join'[j].user = u /\ ~join'[j].penalized
               /\ join'[j].status = "open" /\ tx[s].leave = Nobody
               /\ Fresh(s, j, c, u)
  <2>1. PICK c \in Sponsor : tx[s].new[j] = Recorded(c, u) /\ tx[s].new[j].channel = c
    BY <1>1, <1>5 DEF Gating
  <2>2. Fresh(s, j, c, u)
    BY <1>1, <1>5, <2>1 DEF Gating
  <2>3. tx[s].leave = Nobody
    BY <1>2, <1>5
  <2> QED
    BY <1>3, <1>5, <2>1, <2>2, <2>3 DEF Recorded
<1>6. \A c \in Sponsor : sponsor[c] # "absent" => sponsor'[c] # "absent"
  BY DEF Commit
<1>7. TypeOK'
  <2>1. sponsor' \in [Sponsor -> {"absent", "on", "off"}]
    BY <1>1 DEF Commit, TypeOK, Tx
  <2>2. join' \in [Join -> Row] /\ fines' \in [Join -> Nat]
    <3>1. \A j \in Join : join'[j] \in Row /\ fines'[j] \in Nat
      BY <1>1, <1>3, <1>4 DEF TypeOK, Tx
    <3>2. join' = [j \in Join |-> join'[j]] /\ fines' = [j \in Join |-> fines'[j]]
      BY DEF Commit
    <3> QED
      BY <3>1, <3>2
  <2> QED
    BY <1>1, <2>1, <2>2, Ending DEF TypeOK, telegram
\* A leave the session has handled, of a user who left by themselves: no join is
\* left open.
<1>8. ASSUME NEW c \in Sponsor, NEW v \in User, Excused(c, v), ~Excused(c, v)'
      PROVE  /\ tx[s].leave = <<c, v>> /\ u = v
             /\ OpenJoin(c, v) \subseteq {tx[s].item}
  <2>1. tx[s].leave = <<c, v>> /\ <<c, v>> \notin missed
    BY <1>1, <1>8, Ending DEF Excused, Pending, telegram
  <2>2. tx[s].leave # Nobody
    <3>1. <<c, v>> \in Sponsor \X User
      OBVIOUS
    <3> QED
      BY <2>1, <3>1, RowAssumption
  <2>3. u = v
    BY <1>1, <2>1, <2>2 DEF Leaving
  <2>4. tx[s].leave[1] = c /\ tx[s].leave[2] = v
        /\ OpenJoin(tx[s].leave[1], tx[s].leave[2]) = OpenJoin(c, v)
    BY <2>1
  <2> QED
    BY <1>1, <2>1, <2>2, <2>3, <2>4 DEF Leaving
<1>9. OneOpenJoin'
  <2> SUFFICES ASSUME NEW j \in Join, NEW k \in Join,
                      join'[j].status = "open", join'[k].status = "open",
                      join'[j].user = join'[k].user, join'[j].channel = join'[k].channel
               PROVE  j = k
    BY DEF OneOpenJoin
  <2>1. ASSUME NEW i \in Join, join'[i].status = "open", tx[s].new[i].status # "open"
        PROVE  join'[i] = join[i]
    BY <1>3, <1>4, <2>1
  <2>2. ASSUME NEW i \in Join, NEW l \in Join, tx[s].new[i].status = "open",
               join'[l].status = "open", join'[l].user = join'[i].user,
               join'[l].channel = join'[i].channel
        PROVE  i = l
    <3> PICK c \in Sponsor : join'[i].channel = c /\ join'[i].user = u /\ Fresh(s, i, c, u)
      BY <1>5, <2>2
    <3>1. CASE tx[s].new[l].status = "open"
      BY <1>3, <2>2, <3>1 DEF Fresh
    <3>2. CASE tx[s].new[l].status # "open"
      BY <2>1, <2>2, <3>2 DEF Fresh, OpenJoin
    <3> QED
      BY <3>1, <3>2
  <2> QED
    BY <2>1, <2>2 DEF Inv, OneOpenJoin
<1>10. LeaversFound'
  <2> SUFFICES ASSUME NEW j \in Join, join'[j].status = "open",
                      NEW c, c = join'[j].channel, NEW v, v = join'[j].user
               PROVE  Excused(c, v)'
    BY DEF LeaversFound, Excused
  <2>1. CASE tx[s].new[j].status = "open"
    <3>1. c \in Sponsor /\ v = u /\ Excused(c, v) /\ tx[s].leave = Nobody
      BY <1>5, <2>1 DEF Fresh
    <3>2. <<c, v>> \in Sponsor \X User
      BY <3>1
    <3> QED
      BY <1>8, <3>1, <3>2, RowAssumption
  <2>2. CASE tx[s].new[j].status # "open"
    <3>1. join'[j] = join[j] /\ j # tx[s].item
      BY <1>3, <1>4, <2>2
    <3>2. Excused(c, v) /\ c \in Sponsor /\ v \in User /\ j \in OpenJoin(c, v)
      BY <3>1 DEF Inv, LeaversFound, Excused, Known, OpenJoin
    <3> QED
      BY <1>8, <3>1, <3>2
  <2> QED
    BY <2>1, <2>2
<1>11. PenalisedOnceUnlessOverwritten'
  <2> SUFFICES ASSUME NEW j \in Join \ overwritten'
               PROVE  /\ fines'[j] <= (IF join'[j].status = "left" THEN 1 ELSE 0)
                      /\ join'[j].penalized <=> fines'[j] = 1
    BY <1>1 DEF PenalisedOnceUnlessOverwritten
  <2>1. /\ fines[j] <= (IF join[j].status = "left" THEN 1 ELSE 0)
        /\ join[j].penalized <=> fines[j] = 1
        /\ fines[j] \in Nat
    BY <1>1 DEF Inv, PenalisedOnceUnlessOverwritten, TypeOK
  <2>2. CASE tx[s].new[j].status = "open"
    BY <1>3, <1>5, <2>1, <2>2 DEF Fresh
  <2>3. CASE j = tx[s].item
    <3>1. join[j].status = "open" /\ fines[j] = 0 /\ ~join[j].penalized
      BY <1>1, <2>1, <2>3 DEF Outdated
    <3>2. tx[s].fine \in BOOLEAN
      BY <1>1 DEF Tx
    <3>3. join'[j] = Closed(join[j], tx[s].fine) /\ fines'[j] = IF tx[s].fine THEN 1 ELSE 0
      BY <1>3, <2>3, <3>1
    <3> QED
      BY <1>4, <3>1, <3>2, <3>3
  <2>4. CASE join'[j] = join[j] /\ fines'[j] = fines[j]
    BY <2>1, <2>4
  <2> QED
    BY <1>3, <2>2, <2>3, <2>4
<1>12. Known'
  <2> SUFFICES ASSUME NEW j \in Join, join'[j].status # "absent"
               PROVE  /\ join'[j].channel \in Sponsor /\ join'[j].user \in User
                      /\ sponsor'[join'[j].channel] # "absent"
    BY DEF Known
  <2>1. CASE tx[s].new[j].status = "open"
    BY <1>5, <1>6, <2>1 DEF Fresh
  <2>2. CASE j = tx[s].item
    BY <1>1, <1>3, <1>4, <1>6, <2>2, RowAssumption DEF Leaving, Inv, Known, Rows
  <2>3. CASE join'[j] = join[j]
    BY <1>6, <2>3 DEF Inv, Known
  <2> QED
    BY <1>3, <2>1, <2>2, <2>3
<1>13. ByOthers'
  BY <1>1 DEF Inv, ByOthers, telegram
<1>14. ASSUME NEW t \in Session \ {s} PROVE Phase(t)' /\ Gating(t)' /\ Leaving(t)'
  <2>1. tx'[t] = tx[t] /\ \A k \in Rows : lock[k] = t => lock'[k] = t
    BY <1>1, Ending
  <2>2. Phase(t) /\ Leaving(t) /\ tx[t] \in Tx
    BY <1>1 DEF Inv, TypeOK
  <2>3. ASSUME NEW j \in Join, lock[j] = t, join[j].status = "absent"
        PROVE  join'[j].status = "absent"
    <3>1. tx[s].new[j].status # "open"
      BY <1>5, <2>3 DEF Fresh
    <3>2. j # tx[s].item
      BY <1>1, <2>3, RowAssumption DEF Leaving, Rows
    <3> QED
      BY <1>3, <2>3, <3>1, <3>2
  <2>4. ASSUME NEW c \in Sponsor, NEW v \in User, tx[t].pc \notin {"idle", "read"}, tx[t].actor = v
        PROVE  OpenJoin(c, v)' \subseteq OpenJoin(c, v) /\ (Excused(c, v) => Excused(c, v)')
    <3>1. u # v
      BY <1>2, <2>2, <2>4 DEF Phase
    <3>2. OpenJoin(c, v)' \subseteq OpenJoin(c, v)
      BY <1>3, <1>4, <1>5, <3>1 DEF OpenJoin
    <3> QED
      BY <1>8, <3>1, <3>2
  <2>5. ASSUME NEW j \in Join, tx[t].item = j
        PROVE  /\ join'[j].status # "absent" /\ join'[j].channel = join[j].channel
               /\ join'[j].user = join[j].user
    <3>1. join[j].status # "absent" /\ j # Nobody
      BY <2>2, <2>5, RowAssumption DEF Leaving, Rows
    <3>2. tx[s].new[j].status # "open"
      BY <1>5, <3>1 DEF Fresh
    <3> QED
      BY <1>3, <1>4, <3>1, <3>2
  <2>6. tx[t].item # Nobody => tx[t].item \in Join
    BY <2>2 DEF Tx
  <2> QED
    BY <1>1, <1>6, <2>1, <2>3, <2>4, <2>5, <2>6, Rests
<1> QED
  BY <1>1, <1>7, <1>9, <1>10, <1>11, <1>12, <1>13, <1>14, Ending DEF Inv

LEMMA StepInv == Inv /\ [Next]_vars => Inv'
<1> SUFFICES ASSUME Inv, [Next]_vars PROVE Inv'
  OBVIOUS
<1>1. CASE Environment
  BY <1>1, Members, Drops, Ages DEF Environment
<1>2. ASSUME NEW s \in Session, Step(s) PROVE Inv'
  <2>1. CASE (\E u \in User : Receive(s, u)) \/ \E e \in events : ReceiveLeave(s, e)
    BY <2>1, Receives
  <2>2. CASE TakeRow(s)
    BY <2>2, Takes
  <2>3. CASE GateStart(s) \/ (\E c \in Sponsor : GateOther(s, c)) \/ GateEnd(s)
    BY <2>3, Gates
  <2>4. CASE \E c \in Sponsor, j \in Join : GateMember(s, c, j)
    BY <2>4, Records
  <2>5. CASE \E c \in Sponsor : Switch(s, c, "on") \/ Switch(s, c, "off")
    BY <2>5, Switches
  <2>6. CASE (\E j \in Join : LeftLook(s, j)) \/ LeftNone(s) \/ LeftWrite(s)
    BY <2>6, Leaves
  <2>7. CASE Commit(s) \/ Abort(s)
    BY <2>7, Commits, Aborts
  <2> QED
    BY <1>2, <2>1, <2>2, <2>3, <2>4, <2>5, <2>6, <2>7 DEF Step
<1>3. CASE UNCHANGED vars
  <2>1. TypeOK'
    BY <1>3 DEF Inv, TypeOK, vars, tables, telegram
  <2>2. \A c \in Sponsor, u \in User : Excused(c, u) => Excused(c, u)'
    BY <1>3 DEF Excused, Pending, vars, telegram
  <2>3. ByOthers'
    BY <1>3 DEF Inv, ByOthers, vars, telegram
  <2> QED
    BY <1>3, <2>1, <2>2, <2>3, Quiet DEF vars, tables
<1> QED
  BY <1>1, <1>2, <1>3 DEF Next

THEOREM InvHolds == Spec => []Inv
BY InitInv, StepInv, PTL DEF Spec

\* Every reachable state of the sponsor channels and their joins is well typed
\* (ForceSubChannel and ForceSubJoin).
THEOREM SponsorsTypeCorrect == Spec => []TypeOK
BY InvHolds, PTL DEF Inv

\* A user never has two open joins of a channel, so the query for one in
\* _record_join_if_new never finds several.
THEOREM NeverTwoOpenJoins == Spec => []OneOpenJoin
BY InvHolds, PTL DEF Inv

\* Nobody keeps an open join of a channel they left by themselves, once the
\* update of their leave has been handled (handle_force_sub_left).
THEOREM EveryLeaverFound == Spec => []LeaversFound
BY InvHolds, PTL DEF Inv

\* A join costs at most one penalty, unless a session has ended it with a copy from
\* before another did (the check of join_row.penalized).
THEOREM OnePenalty == Spec => []PenalisedOnceUnlessOverwritten
BY InvHolds, PTL DEF Inv
=============================================================================
