-------------------------- MODULE BroadcastsProofs --------------------------
(***************************************************************************)
(* What Broadcasts promises for any number of users, sessions and jobs:    *)
(* the report of a broadcast brackets the users it has reached, and one    *)
(* question is good for one broadcast.                                     *)
(*                                                                         *)
(* A session that sends is alone with its job; whom it has reached lies    *)
(* between what it counted as sent and what it counted at all, and whom it *)
(* has still to try is neither reached nor counted (Counts); the question  *)
(* an admin answers is still open when it is answered, unless another      *)
(* session of the admin has run (Open).                                    *)
(***************************************************************************)
EXTENDS Broadcasts, TLAPS, FiniteSetTheorems

Phase(t) ==
  /\ t.pc = "idle" => t = IdleTx
  /\ t.pc # "idle" => t.actor \in User
  /\ t.pc \in {"read", "ready"} => t.job = Nobody /\ t.sent = 0 /\ t.failed = 0
  /\ t.pc = "sending" => t.job \in Job

\* A report, or what a session has counted, of a job that has reached G.
Brackets(r, G) ==
  /\ r.sent <= Cardinality(G)
  /\ Cardinality(G) <= r.sent + r.failed

\* A session in state t and its job, with the rows J, the users reached G and the
\* reports T.
Counted(t, J, G, T) ==
  t.job \in Job =>
    /\ J[t.job] = NoJob
    /\ Brackets(t, G[t.job])
    /\ t.todo \cap G[t.job] = {}
    /\ t.sent + t.failed + Cardinality(t.todo) <= t.total
    /\ t.pc = "sending" => \A r \in T : r.job # t.job
    /\ t.pc = "done" => ReportOf(t) \in T

Counts(s) == Counted(tx[s], job, got, told)

\* The state that has chosen the handler is the one in Redis.
Open(s) ==
  tx[s].pc \in {"read", "ready"} /\ tx[s].asked = "yes" /\ tx[s].actor \notin shared
    => tx[s].actor \in awaiting

Sound(s) == Phase(tx[s]) /\ Counts(s) /\ Open(s)

\* Two sessions have neither a job nor, unless it is shared, an actor in common.
Apart ==
  \A s, t \in Session : s # t =>
    /\ tx[s].job \in Job => tx[t].job # tx[s].job
    /\ tx[s].actor \in User => tx[t].actor # tx[s].actor \/ tx[s].actor \in shared

Credits == \A u \in User \ shared : credit[u] = IF u \in awaiting THEN 1 ELSE 0

Inv == TypeOK /\ BroadcastReport /\ Credits /\ Apart /\ \A s \in Session : Sound(s)

LEMMA NobodyIsNone == Nobody \notin User /\ Nobody \notin Session /\ Nobody \notin Job
BY NobodyAssumption

LEMMA IdleFacts ==
  /\ IdleTx \in Tx /\ IdleTx.pc = "idle" /\ IdleTx.actor = Nobody /\ IdleTx.job = Nobody
  /\ IdleTx.asked = "no" /\ IdleTx.todo = {} /\ IdleTx.sent = 0 /\ IdleTx.failed = 0
BY DEF IdleTx, Tx, Answer

\* A user who was not reached before counts one more.
LEMMA OneMore ==
  ASSUME NEW G \in SUBSET User, NEW v \in User, v \notin G
  PROVE  Cardinality(G \cup {v}) = Cardinality(G) + 1 /\ Cardinality(G) \in Nat
BY FS_Subset, FS_AddElement, FS_CardinalityType, UserAssumption

\* Without one of its members a set of users counts one less.
LEMMA OneLess ==
  ASSUME NEW T \in SUBSET User, NEW v \in T
  PROVE  Cardinality(T \ {v}) = Cardinality(T) - 1 /\ Cardinality(T) \in Nat
BY FS_Subset, FS_RemoveElement, FS_CardinalityType, UserAssumption

(***************************************************************************)
(* Steps                                                                   *)
(***************************************************************************)
\* A session that goes on: what the other sessions know stays true.
LEMMA Local ==
  ASSUME Inv, NEW s \in Session, NEW t \in Tx,
         tx' = [tx EXCEPT ![s] = t], TypeOK', UNCHANGED job,
         Phase(t), shared \subseteq shared',
         Counted(t, job, got', told'),
         t.job \in Job => \A r \in Session \ {s} : tx[r].job # t.job,
         \A j \in Job : j # t.job => got'[j] = got[j],
         \A r \in told : got'[r.job] = got[r.job],
         told \subseteq told',
         \A r \in told' \ told : r.job = t.job /\ t.job \in Job
                                  /\ Brackets(r, got'[r.job]) /\ r.sent + r.failed <= r.total,
         t.pc \in {"read", "ready"} /\ t.asked = "yes" /\ t.actor \notin shared'
           => t.actor \in awaiting',
         t.actor \in User,
         \A r \in Session \ {s} : tx[r].actor = t.actor => t.actor \in shared',
         \A u \in User \ {t.actor} : u \in awaiting' <=> u \in awaiting,
         \A u \in User \ {t.actor} : credit'[u] = credit[u],
         t.actor \notin shared' => credit'[t.actor] = IF t.actor \in awaiting' THEN 1 ELSE 0
  PROVE  Inv'
<1> USE DEF Inv
<1>1. tx'[s] = t /\ \A r \in Session : r # s => tx'[r] = tx[r]
  BY DEF TypeOK
<1>2. Credits'
  BY DEF Credits
<1>3. Apart'
  BY <1>1 DEF Apart
<1>4. BroadcastReport'
  BY DEF BroadcastReport, Brackets
<1>5. ASSUME NEW r \in Session PROVE Sound(r)'
  <2>1. CASE r = s
    BY <1>1, <2>1 DEF Sound, Counts, Open
  <2>2. CASE r # s
    <3>1. tx'[r] = tx[r] /\ Sound(r)
      BY <1>1, <2>2
    <3>2. Counts(r)'
      <4>1. tx[r].job \in Job => tx[r].job # t.job /\ got'[tx[r].job] = got[tx[r].job]
        BY <2>2
      <4>2. Counted(tx[r], job, got, told)
        BY <3>1 DEF Sound, Counts
      <4>3. Counted(tx[r], job', got', told')
        BY <4>1, <4>2 DEF Counted
      <4> QED BY <3>1, <4>3 DEF Counts
    <3>3. Open(r)'
      <4> SUFFICES ASSUME tx[r].pc \in {"read", "ready"}, tx[r].asked = "yes",
                          tx[r].actor \notin shared'
                   PROVE  tx[r].actor \in awaiting'
        BY <3>1 DEF Open
      <4>1. tx[r].actor \in User /\ tx[r].actor \in awaiting /\ tx[r].actor # t.actor
        BY <2>2, <3>1 DEF Sound, Phase, Open
      <4> QED BY <4>1
    <3> QED BY <3>1, <3>2, <3>3 DEF Sound
  <2> QED BY <2>1, <2>2
<1> QED BY <1>2, <1>3, <1>4, <1>5

\* What is known of a session that has begun.
LEMMA Begun ==
  ASSUME Inv, NEW s \in Session, tx[s].pc # "idle"
  PROVE  /\ tx[s] \in Tx /\ tx[s].actor \in User /\ Sound(s) /\ TypeOK
         /\ \A r \in Session \ {s} : tx[r].actor = tx[s].actor => tx[s].actor \in shared
         /\ tx[s].job \in Job => \A r \in Session \ {s} : tx[r].job # tx[s].job
BY DEF Inv, TypeOK, Sound, Phase, Apart

LEMMA ReceiveInv ==
  ASSUME Inv, NEW s \in Session, NEW u \in User, Receive(s, u)
  PROVE  Inv'
<1> DEFINE t == [IdleTx EXCEPT !.pc = "read", !.actor = u,
                   !.asked = YesIf(u \in awaiting), !.barred = YesIf(u \in banned)]
<1>1. /\ t \in Tx /\ t.pc = "read" /\ t.actor = u /\ t.job = Nobody
      /\ t.asked = YesIf(u \in awaiting) /\ t.sent = 0 /\ t.failed = 0
  BY DEF IdleTx, Tx, Answer, YesIf
<1>2. tx' = [tx EXCEPT ![s] = t] /\ UNCHANGED <<accounts, outside, job, lock>>
  BY DEF Receive
<1>3. shared' = IF \E r \in Session : tx[r].actor = u THEN shared \cup {u} ELSE shared
  BY DEF Receive
<1> HIDE DEF t
<1>4. TypeOK'
  BY <1>1, <1>2, <1>3 DEF Inv, TypeOK, accounts, outside
<1>5. Phase(t)
  BY <1>1 DEF Phase
<1>6. u \notin shared' => credit[u] = IF u \in awaiting THEN 1 ELSE 0
  BY <1>3 DEF Inv, Credits
<1>7. Counted(t, job, got', told')
  BY <1>1, NobodyIsNone DEF Counted
<1> QED BY <1>1, <1>2, <1>3, <1>4, <1>5, <1>6, <1>7, Local, NobodyIsNone DEF outside, YesIf

LEMMA TakeRowInv ==
  ASSUME Inv, NEW s \in Session, TakeRow(s)
  PROVE  Inv'
<1> DEFINE t == [tx[s] EXCEPT !.pc = "ready", !.manages = YesIf(tx[s].actor \in manager)]
<1>1. tx[s].pc = "read"
  BY DEF TakeRow
<1>2. /\ t \in Tx /\ t.pc = "ready" /\ t.actor = tx[s].actor /\ t.job = tx[s].job
      /\ t.asked = tx[s].asked /\ t.sent = tx[s].sent /\ t.failed = tx[s].failed
  BY <1>1, Begun DEF Tx, Answer, YesIf
<1>3. tx' = [tx EXCEPT ![s] = t] /\ UNCHANGED <<accounts, outside, job, shared>>
      /\ lock' = [lock EXCEPT ![tx[s].actor] = s]
  BY DEF TakeRow, Inv, TypeOK
<1> HIDE DEF t
<1>4. TypeOK'
  BY <1>1, <1>2, <1>3, Begun DEF Inv, TypeOK, accounts, outside
<1>5. Phase(t) /\ t.job = Nobody
  BY <1>1, <1>2, Begun DEF Sound, Phase
<1>6. t.asked = "yes" /\ t.actor \notin shared => t.actor \in awaiting
  BY <1>1, <1>2, Begun DEF Sound, Open
<1>7. /\ t.actor \in User
      /\ t.actor \notin shared => credit[t.actor] = IF t.actor \in awaiting THEN 1 ELSE 0
  BY <1>1, <1>2, Begun DEF Inv, Credits
<1>8. Counted(t, job, got', told')
  BY <1>5, NobodyIsNone DEF Counted
<1> QED BY <1>1, <1>2, <1>3, <1>4, <1>5, <1>6, <1>7, <1>8, Begun, Local, NobodyIsNone DEF outside

(***************************************************************************)
(* The handlers                                                            *)
(***************************************************************************)
\* The question is asked, or given up.
LEMMA AskInv ==
  ASSUME Inv, NEW s \in Session, Ask(s) \/ Leave(s)
  PROVE  Inv'
<1> DEFINE t == [tx[s] EXCEPT !.pc = "done"]
<1>1. tx[s].pc = "ready"
  BY DEF Ask, Leave, Manages, Admitted
<1>2. /\ t \in Tx /\ t.pc = "done" /\ t.actor = tx[s].actor /\ t.job = tx[s].job
      /\ tx[s].job = Nobody
  BY <1>1, Begun DEF Tx, Sound, Phase
<1>3. tx' = [tx EXCEPT ![s] = t] /\ UNCHANGED <<accounts, got, told, job, lock, shared>>
  BY DEF Ask, Leave, Inv, TypeOK
<1>4. \/ /\ awaiting' = awaiting \cup {tx[s].actor}
         /\ credit' = [credit EXCEPT ![tx[s].actor] = 1]
      \/ /\ awaiting' = awaiting \ {tx[s].actor}
         /\ credit' = [credit EXCEPT ![tx[s].actor] =
                         IF tx[s].actor \in awaiting THEN 0 ELSE @]
  BY DEF Ask, Leave
<1> HIDE DEF t
<1>5. TypeOK'
  BY <1>1, <1>2, <1>3, <1>4, Begun DEF Inv, TypeOK, accounts
<1>6. Phase(t) /\ t.actor \in User
  BY <1>1, <1>2, Begun DEF Phase
<1>7. \A u \in User \ {t.actor} : (u \in awaiting' <=> u \in awaiting) /\ credit'[u] = credit[u]
  BY <1>2, <1>4 DEF Inv, TypeOK
<1>8. t.actor \notin shared => credit'[t.actor] = IF t.actor \in awaiting' THEN 1 ELSE 0
  BY <1>2, <1>4, <1>6 DEF Inv, TypeOK, Credits
<1>9. Counted(t, job, got', told')
  BY <1>2, NobodyIsNone DEF Counted
<1> QED BY <1>1, <1>2, <1>3, <1>5, <1>6, <1>7, <1>8, <1>9, Begun, Local, NobodyIsNone

\* The text takes the question with it, and a new job.
LEMMA TextInv ==
  ASSUME Inv, NEW s \in Session, NEW j \in Job, Text(s, j)
  PROVE  Inv'
<1> DEFINE u == tx[s].actor
           t == [tx[s] EXCEPT !.pc = "sending", !.job = j, !.todo = User \ banned,
                              !.total = Cardinality(User \ banned)]
<1>1. tx[s].pc = "ready" /\ tx[s].asked = "yes"
  BY DEF Text, Admitted
<1>2. tx[s] \in Tx /\ u \in User /\ tx[s].job = Nobody /\ tx[s].sent \in Nat
      /\ (u \notin shared => u \in awaiting /\ credit[u] = 1)
  BY <1>1, Begun DEF Tx, Sound, Phase, Open, Inv, Credits
<1>n. Cardinality(User \ banned) \in Nat
  BY FS_Subset, FS_CardinalityType, UserAssumption
<1>3. /\ t \in Tx /\ t.pc = "sending" /\ t.actor = u /\ t.job = j /\ t.sent = tx[s].sent
      /\ t.failed = tx[s].failed /\ t.todo = User \ banned /\ t.total = Cardinality(t.todo)
  BY <1>2, <1>n DEF Tx
<1>4. /\ tx' = [tx EXCEPT ![s] = t] /\ UNCHANGED <<accounts, got, told, job, lock, shared>>
      /\ awaiting' = awaiting \ {u} /\ credit' = [credit EXCEPT ![u] = @ - 1]
      /\ job[j] = NoJob /\ got[j] = {} /\ \A r \in Session : tx[r].job # j
      /\ \A r \in told : r.job # j
  BY DEF Text, Fresh, Cleared, Inv, TypeOK
<1>5. tx[s].sent = 0 /\ tx[s].failed = 0
  BY <1>1, Begun DEF Sound, Phase
<1> HIDE DEF t
<1>6. TypeOK'
  BY <1>2, <1>3, <1>4 DEF Inv, TypeOK, accounts
<1>7. Phase(t)
  BY <1>2, <1>3 DEF Phase
<1>8. got' = got /\ told' = told /\ Cardinality(got[j]) = 0
  BY <1>4, FS_EmptySet
<1>9. \A v \in User \ {u} : (v \in awaiting' <=> v \in awaiting) /\ credit'[v] = credit[v]
  BY <1>4 DEF Inv, TypeOK
<1>10. u \notin shared => credit'[u] = IF u \in awaiting' THEN 1 ELSE 0
  BY <1>2, <1>4 DEF Inv, TypeOK
<1>11. \A r \in Session \ {s} : tx[r].actor = u => u \in shared'
  BY <1>1, <1>4, Begun
<1>12. t \in Tx /\ tx' = [tx EXCEPT ![s] = t] /\ UNCHANGED job /\ shared \subseteq shared'
  BY <1>2, <1>3, <1>4
<1>13. Counted(t, job, got', told')
  BY <1>3, <1>4, <1>5, <1>8, <1>n DEF Counted, Brackets
<1>22. t.job \in Job => \A r \in Session \ {s} : tx[r].job # t.job
  BY <1>3, <1>4
<1>14. \A i \in Job : i # t.job => got'[i] = got[i]
  BY <1>4
<1>15. t.actor = u /\ u \in User /\ ~(t.pc \in {"read", "ready"})
  BY <1>2, <1>3
<1>16. \A v \in User \ {t.actor} : v \in awaiting' <=> v \in awaiting
  BY <1>9, <1>15
<1>17. \A v \in User \ {t.actor} : credit'[v] = credit[v]
  BY <1>9, <1>15
<1>18. \A r \in Session \ {s} : tx[r].actor = t.actor => t.actor \in shared'
  BY <1>11, <1>15
<1>19. t.actor \notin shared' => credit'[t.actor] = IF t.actor \in awaiting' THEN 1 ELSE 0
  BY <1>4, <1>10, <1>15
<1>20. t.actor \in User
  BY <1>15
<1>21. t.pc \in {"read", "ready"} /\ t.asked = "yes" /\ t.actor \notin shared'
         => t.actor \in awaiting'
  BY <1>15
<1> HIDE DEF u
<1> QED BY <1>6, <1>7, <1>12, <1>13, <1>14, <1>16, <1>17, <1>18, <1>19, <1>20, <1>21,
          <1>22, <1>8, Local

\* What a session has counted once it has tried a user.
LEMMA TriedTx ==
  ASSUME NEW x \in Tx, NEW v \in User, NEW y,
         y = Sent(x, v) \/ y = Failed(x, v) \/ y = Skipped(x, v)
  PROVE  /\ y \in Tx /\ y.pc = x.pc /\ y.actor = x.actor /\ y.job = x.job
         /\ y.todo = x.todo \ {v} /\ y.total = x.total
         /\ y.sent = IF y = Sent(x, v) THEN x.sent + 1 ELSE x.sent
         /\ y.failed = IF y = Failed(x, v) THEN x.failed + 1 ELSE x.failed
<1> DEFINE T == x.todo \ {v}
<1>1. x.sent + 1 \in Nat /\ x.failed + 1 \in Nat /\ T \in SUBSET User
  BY DEF Tx
<1> HIDE DEF T
<1>2. x.sent \in Nat /\ x.failed \in Nat /\ x.sent + 1 # x.sent /\ x.failed + 1 # x.failed
  BY DEF Tx
<1>3. CASE y = Sent(x, v)
  <2>1. y = [x EXCEPT !.todo = T, !.sent = x.sent + 1]
    BY <1>3 DEF Sent, Left, T
  <2>2. y \in Tx
    BY <1>1, <2>1 DEF Tx
  <2>3. /\ y.pc = x.pc /\ y.actor = x.actor /\ y.job = x.job /\ y.todo = T
        /\ y.total = x.total /\ y.sent = x.sent + 1 /\ y.failed = x.failed
    BY <2>1 DEF Tx
  <2>4. y # Failed(x, v)
    <3>1. Failed(x, v).sent = x.sent
      BY DEF Failed, Left, Tx
    <3> QED BY <1>2, <2>3, <3>1
  <2> QED BY <1>3, <2>2, <2>3, <2>4 DEF T
<1>4. CASE y = Failed(x, v)
  <2>1. y = [x EXCEPT !.todo = T, !.failed = x.failed + 1]
    BY <1>4 DEF Failed, Left, T
  <2>2. y \in Tx
    BY <1>1, <2>1 DEF Tx
  <2>3. /\ y.pc = x.pc /\ y.actor = x.actor /\ y.job = x.job /\ y.todo = T
        /\ y.total = x.total /\ y.sent = x.sent /\ y.failed = x.failed + 1
    BY <2>1 DEF Tx
  <2>4. y # Sent(x, v)
    <3>1. Sent(x, v).failed = x.failed
      BY DEF Sent, Left, Tx
    <3> QED BY <1>2, <2>3, <3>1
  <2> QED BY <1>4, <2>2, <2>3, <2>4 DEF T
<1>5. CASE y = Skipped(x, v)
  <2>1. y = [x EXCEPT !.todo = T]
    BY <1>5 DEF Skipped, Left, T
  <2>2. y \in Tx
    BY <1>1, <2>1 DEF Tx
  <2>3. /\ y.pc = x.pc /\ y.actor = x.actor /\ y.job = x.job /\ y.todo = T
        /\ y.total = x.total /\ y.sent = x.sent /\ y.failed = x.failed
    BY <2>1 DEF Tx
  <2>4. y # Sent(x, v) /\ y # Failed(x, v)
    <3>1. Sent(x, v).sent = x.sent + 1 /\ Failed(x, v).failed = x.failed + 1
      BY DEF Sent, Failed, Left, Tx
    <3> QED BY <1>2, <2>3, <3>1
  <2> QED BY <2>2, <2>3, <2>4 DEF T
<1> QED BY <1>3, <1>4, <1>5

\* The next user is tried: the text is sent to the users of R, and the session
\* goes on as t.
LEMMA SendInv ==
  ASSUME Inv, NEW s \in Session, NEW v \in User, Sending(s, v),
         NEW R \in {{}, {v}}, NEW t, Delivers(s, R, t),
         \/ R = {v} /\ t = Sent(tx[s], v)
         \/ t = Failed(tx[s], v)
         \/ R = {} /\ t = Skipped(tx[s], v)
  PROVE  Inv'
<1> DEFINE j == tx[s].job
<1>1. tx[s].pc = "sending" /\ v \in tx[s].todo
  BY DEF Sending
<1>2. /\ tx[s] \in Tx /\ tx[s].sent \in Nat /\ tx[s].failed \in Nat /\ tx[s].total \in Nat
      /\ tx[s].todo \in SUBSET User /\ tx[s].actor \in User
  BY <1>1, Begun DEF Tx
<1>3. /\ t \in Tx /\ t.pc = "sending" /\ t.actor = tx[s].actor /\ t.job = j
      /\ t.todo = tx[s].todo \ {v} /\ t.total = tx[s].total
      /\ \/ R = {v} /\ t.sent = tx[s].sent + 1 /\ t.failed = tx[s].failed
         \/ t.sent = tx[s].sent /\ t.failed = tx[s].failed + 1
         \/ R = {} /\ t.sent = tx[s].sent /\ t.failed = tx[s].failed
  <2>1. /\ t \in Tx /\ t.pc = tx[s].pc /\ t.actor = tx[s].actor /\ t.job = tx[s].job
        /\ t.todo = tx[s].todo \ {v} /\ t.total = tx[s].total
        /\ t.sent = IF t = Sent(tx[s], v) THEN tx[s].sent + 1 ELSE tx[s].sent
        /\ t.failed = IF t = Failed(tx[s], v) THEN tx[s].failed + 1 ELSE tx[s].failed
    BY <1>2, TriedTx
  <2>2. Sent(tx[s], v) # Failed(tx[s], v) /\ Sent(tx[s], v) # Skipped(tx[s], v)
        /\ Failed(tx[s], v) # Skipped(tx[s], v)
    <3>1. /\ Sent(tx[s], v).sent = tx[s].sent + 1 /\ Failed(tx[s], v).sent = tx[s].sent
          /\ Skipped(tx[s], v).sent = tx[s].sent /\ Skipped(tx[s], v).failed = tx[s].failed
          /\ Failed(tx[s], v).failed = tx[s].failed + 1
      BY <1>2 DEF Sent, Failed, Skipped, Left, Tx
    <3> QED BY <1>2, <3>1
  <2> QED BY <1>1, <2>1, <2>2
<1>4. /\ tx' = [tx EXCEPT ![s] = t]
      /\ UNCHANGED <<accounts, awaiting, told, credit, job, lock, shared>>
      /\ got' = [got EXCEPT ![j] = @ \cup R]
  BY DEF Delivers
<1>5. t.sent \in Nat /\ t.failed \in Nat /\ R \subseteq User
  BY <1>2, <1>3
<1>6. TypeOK'
  BY <1>3, <1>4, <1>5 DEF Inv, TypeOK, accounts
<1>7. Phase(t)
  BY <1>1, <1>2, <1>3, Begun DEF Phase, Sound
<1>8. \A i \in Job : i # t.job => got'[i] = got[i]
  BY <1>3, <1>4 DEF Inv, TypeOK
<1>9. Counted(t, job, got', told')
  <2> SUFFICES ASSUME j \in Job
               PROVE  /\ job[j] = NoJob
                      /\ Brackets(t, got'[j])
                      /\ t.todo \cap got'[j] = {}
                      /\ t.sent + t.failed + Cardinality(t.todo) <= t.total
                      /\ \A r \in told : r.job # j
    BY <1>3, <1>4 DEF Counted
  <2>1. /\ job[j] = NoJob
        /\ tx[s].sent <= Cardinality(got[j])
        /\ Cardinality(got[j]) <= tx[s].sent + tx[s].failed
        /\ tx[s].todo \cap got[j] = {} /\ got[j] \in SUBSET User
        /\ tx[s].sent + tx[s].failed + Cardinality(tx[s].todo) <= tx[s].total
        /\ \A r \in told : r.job # j
    BY <1>1, Begun DEF Sound, Counts, Counted, Brackets, TypeOK
  <2>2. got'[j] = got[j] \cup R /\ v \notin got[j]
    BY <1>1, <1>4, <2>1 DEF Inv, TypeOK
  <2>3. /\ Cardinality(got[j]) \in Nat
        /\ Cardinality(got[j] \cup {v}) = Cardinality(got[j]) + 1
    BY <2>1, <2>2, OneMore
  <2>4. Cardinality(tx[s].todo) \in Nat /\ Cardinality(t.todo) = Cardinality(tx[s].todo) - 1
    BY <1>1, <1>2, <1>3, OneLess
  <2>5. Cardinality(got'[j]) = Cardinality(got[j]) + (IF R = {v} THEN 1 ELSE 0)
    <3>1. CASE R = {v}
      BY <2>2, <2>3, <3>1
    <3>2. CASE R = {}
      BY <2>2, <2>3, <3>2
    <3> QED BY <3>1, <3>2
  <2>6. Brackets(t, got'[j])
    <3>1. R = {v} \/ (R = {} /\ {v} # {})
      OBVIOUS
    <3> QED BY <1>2, <1>3, <2>1, <2>3, <2>5, <3>1 DEF Brackets
  <2>7. t.sent + t.failed + Cardinality(t.todo) <= t.total
    BY <1>2, <1>3, <2>1, <2>4
  <2>8. t.todo \cap got'[j] = {}
    BY <1>3, <2>1, <2>2
  <2> QED BY <2>1, <2>6, <2>7, <2>8
<1>10. t.actor \notin shared => credit[t.actor] = IF t.actor \in awaiting THEN 1 ELSE 0
  BY <1>2, <1>3 DEF Inv, Credits
<1>11. /\ \A r \in Session \ {s} : tx[r].actor = t.actor => t.actor \in shared'
       /\ j \in Job => \A r \in Session \ {s} : tx[r].job # j
  BY <1>1, <1>3, <1>4, Begun
<1>12. shared \subseteq shared' /\ ~(t.pc \in {"read", "ready"}) /\ t.actor \in User
       /\ UNCHANGED <<job, awaiting, credit, shared, told>> /\ t.job = j /\ t \in Tx
  BY <1>2, <1>3, <1>4
<1>13. \A r \in told : got'[r.job] = got[r.job]
  <2> SUFFICES ASSUME NEW r \in told PROVE got'[r.job] = got[r.job]
    OBVIOUS
  <2>1. r.job \in Job
    BY DEF Inv, TypeOK, Report
  <2>2. r.job # j
    BY <1>1, <2>1, Begun DEF Sound, Counts, Counted
  <2> QED BY <1>8, <1>12, <2>1, <2>2
<1> HIDE DEF j
<1> QED BY <1>4, <1>6, <1>7, <1>8, <1>9, <1>10, <1>11, <1>12, <1>13, Local

LEMMA TellInv ==
  ASSUME Inv, NEW s \in Session, Tell(s)
  PROVE  Inv'
<1> DEFINE t == [tx[s] EXCEPT !.pc = "done"]
<1>1. tx[s].pc = "sending"
  BY DEF Tell
<1>2. /\ t \in Tx /\ t.pc = "done" /\ t.actor = tx[s].actor /\ t.job = tx[s].job
      /\ t.sent = tx[s].sent /\ t.failed = tx[s].failed /\ t.total = tx[s].total
      /\ t.todo = tx[s].todo /\ tx[s].actor \in User
  BY <1>1, Begun DEF Tx
<1>3. /\ tx' = [tx EXCEPT ![s] = t]
      /\ UNCHANGED <<accounts, awaiting, got, credit, job, lock, shared>>
      /\ told' = told \cup {ReportOf(t)} /\ tx[s].todo = {}
  BY <1>2 DEF Tell, ReportOf, Inv, TypeOK
<1>j. t.job \in Job
  BY <1>1, <1>2, Begun DEF Sound, Phase
<1>r. /\ ReportOf(t) \in Report /\ ReportOf(t).job = t.job /\ ReportOf(t).sent = t.sent
      /\ ReportOf(t).failed = t.failed /\ ReportOf(t).total = t.total
  BY <1>2, <1>j DEF ReportOf, Report, Tx
<1> HIDE DEF t
<1>4. TypeOK'
  BY <1>2, <1>3, <1>r DEF Inv, TypeOK, accounts
<1>5. Phase(t)
  BY <1>2 DEF Phase
<1>6. t.actor \notin shared => credit[t.actor] = IF t.actor \in awaiting THEN 1 ELSE 0
  BY <1>2 DEF Inv, Credits
<1>7. /\ Counted(t, job, got', told')
      /\ Brackets(ReportOf(t), got[t.job]) /\ t.sent + t.failed <= t.total
  <2>1. Counted(tx[s], job, got, told) /\ Cardinality(t.todo) = 0
    BY <1>1, <1>2, <1>3, Begun, FS_EmptySet DEF Sound, Counts
  <2>2. t.sent \in Nat /\ t.failed \in Nat
    BY <1>2 DEF Tx
  <2> QED BY <1>1, <1>2, <1>3, <1>j, <1>r, <2>1, <2>2 DEF Counted, Brackets
<1>8. /\ \A r \in Session \ {s} : tx[r].actor = t.actor => t.actor \in shared'
      /\ t.job \in Job => \A r \in Session \ {s} : tx[r].job # t.job
  BY <1>1, <1>2, <1>3, Begun
<1>9. shared \subseteq shared' /\ ~(t.pc \in {"read", "ready"}) /\ t.actor \in User
      /\ UNCHANGED <<job, got, awaiting, credit, shared>>
  BY <1>2, <1>3
<1>10. \A r \in told' \ told : r = ReportOf(t)
  BY <1>3
<1> QED BY <1>2, <1>3, <1>4, <1>5, <1>6, <1>7, <1>8, <1>9, <1>10, <1>j, <1>r, Local

(***************************************************************************)
(* The end of a session                                                    *)
(***************************************************************************)
LEMMA EndsInv ==
  ASSUME Inv, NEW s \in Session, Commit(s) \/ Abort(s)
  PROVE  Inv'
<1> USE DEF Inv
<1>1. /\ tx' = [tx EXCEPT ![s] = IdleTx] /\ UNCHANGED <<accounts, outside, shared>>
      /\ lock' = [u \in User |-> IF lock[u] = s THEN Nobody ELSE lock[u]]
  BY DEF Commit, Abort, Ends, Freed
<1>2. tx'[s] = IdleTx /\ \A r \in Session : r # s => tx'[r] = tx[r]
  BY <1>1 DEF TypeOK
<1>3. /\ job' \in [Job -> Jobs]
      /\ \A j \in Job : j # tx[s].job => job'[j] = job[j]
      /\ tx[s].job \in Job => \/ job'[tx[s].job] = job[tx[s].job]
                              \/ /\ job'[tx[s].job].sent = tx[s].sent
                                 /\ tx[s].pc \in {"ready", "done"}
  <2>1. CASE Commit(s)
    <3>1. tx[s] \in Tx
      BY DEF TypeOK
    <3>2. tx[s].actor \in User \cup {Nobody} /\ tx[s].sent \in Nat
      BY <3>1 DEF Tx
    <3>3. [by |-> tx[s].actor, sent |-> tx[s].sent] \in Jobs
      BY <3>2 DEF Jobs
    <3>4. job' = [j \in Job |-> IF j = tx[s].job
                                THEN [by |-> tx[s].actor, sent |-> tx[s].sent] ELSE job[j]]
      BY <2>1 DEF Commit
    <3>5. /\ job' \in [Job -> Jobs]
          /\ \A j \in Job : j # tx[s].job => job'[j] = job[j]
      BY <3>3, <3>4 DEF TypeOK
    <3>6. tx[s].job \in Job => job'[tx[s].job].sent = tx[s].sent
      BY <3>4
    <3>7. tx[s].pc \in {"ready", "done"}
      BY <2>1 DEF Commit
    <3> QED BY <3>5, <3>6, <3>7
  <2>2. CASE Abort(s)
    BY <2>2 DEF Abort, TypeOK
  <2> QED BY <2>1, <2>2
<1>4. TypeOK'
  BY <1>1, <1>3, IdleFacts DEF TypeOK, accounts, outside
<1>5. BroadcastReport'
  <2>1. ASSUME NEW j \in Job, job'[j] # NoJob
        PROVE  \E r \in told : r.job = j /\ r.sent = job'[j].sent
    <3>1. CASE job'[j] = job[j]
      BY <2>1, <3>1 DEF BroadcastReport
    <3>2. CASE job'[j] # job[j]
      <4>1. j = tx[s].job /\ job'[j].sent = tx[s].sent /\ tx[s].pc \in {"ready", "done"}
        BY <1>3, <3>2
      <4>2. tx[s].pc = "done"
        BY <4>1, NobodyIsNone DEF Sound, Phase
      <4>3. ReportOf(tx[s]) \in told
        BY <4>1, <4>2 DEF Sound, Counts, Counted
      <4> QED BY <4>1, <4>3 DEF ReportOf
    <3> QED BY <3>1, <3>2
  <2> QED BY <1>1, <2>1 DEF BroadcastReport, outside
<1>6. Apart'
  BY <1>1, <1>2, IdleFacts, NobodyIsNone DEF Apart
<1>7. ASSUME NEW r \in Session PROVE Sound(r)'
  <2>1. CASE r = s
    BY <1>2, <2>1, IdleFacts, NobodyIsNone DEF Sound, Phase, Counts, Counted, Open
  <2>2. CASE r # s
    <3>1. tx'[r] = tx[r] /\ Sound(r)
      BY <1>2, <2>2
    <3>2. tx[r].job \in Job => job'[tx[r].job] = job[tx[r].job]
      BY <1>3, <2>2 DEF Apart
    <3> QED BY <1>1, <3>1, <3>2 DEF Sound, Counts, Counted, Open, outside
  <2> QED BY <2>1, <2>2
<1>8. Credits'
  BY <1>1 DEF Credits, outside
<1> QED BY <1>4, <1>5, <1>6, <1>7, <1>8

LEMMA AccountsInv ==
  ASSUME Inv, NEW u \in User, Moderate(u) \/ Appoint(u)
  PROVE  Inv'
<1>1. /\ banned' \subseteq User /\ manager' \subseteq User
      /\ UNCHANGED <<outside, job, lock, shared, tx>>
  BY DEF Inv, TypeOK, Moderate, Appoint
<1> QED
  BY <1>1
  DEF outside, Inv, TypeOK, BroadcastReport, Credits, Apart, Sound, Counts, Open

(***************************************************************************)
(* Theorems                                                                *)
(***************************************************************************)
LEMMA InitInv == Init => Inv
<1> SUFFICES ASSUME Init PROVE Inv
  OBVIOUS
<1>1. \A s \in Session : tx[s] = IdleTx
  BY DEF Init
<1>2. TypeOK
  BY IdleFacts DEF Init, TypeOK, NoJob, Jobs
<1>3. Apart /\ \A s \in Session : Sound(s)
  BY <1>1, IdleFacts, NobodyIsNone DEF Apart, Sound, Phase, Counts, Counted, Open
<1>4. BroadcastReport /\ Credits
  BY DEF Init, BroadcastReport, Credits
<1> QED BY <1>2, <1>3, <1>4 DEF Inv

LEMMA NextInv == Inv /\ [Next]_vars => Inv'
<1> SUFFICES ASSUME Inv, [Next]_vars PROVE Inv'
  OBVIOUS
<1>1. ASSUME NEW s \in Session, NEW u \in Active, Receive(s, u) PROVE Inv'
  BY <1>1, ReceiveInv, UserAssumption
<1>2. ASSUME NEW s \in Session, Handler(s) PROVE Inv'
  BY <1>2, AskInv, TextInv DEF Handler
<1>3. ASSUME NEW s \in Session, Proceed(s) PROVE Inv'
  <2>1. ASSUME NEW v \in User, Send(s, v) \/ SendFails(s, v) \/ SendSkipped(s, v)
        PROVE  Inv'
    BY <2>1, SendInv DEF Send, SendFails, SendSkipped
  <2> QED BY <1>3, <2>1, TakeRowInv, TellInv, EndsInv DEF Proceed
<1>4. ASSUME NEW s \in Session, Abort(s) PROVE Inv'
  BY <1>4, EndsInv
<1>5. ASSUME NEW u \in Active, Moderate(u) \/ Appoint(u) PROVE Inv'
  BY <1>5, AccountsInv, UserAssumption
<1>6. CASE UNCHANGED vars
  BY <1>6
  DEF vars, accounts, outside, Inv, TypeOK, BroadcastReport, Credits, Apart, Sound, Counts, Open
<1> QED BY <1>1, <1>2, <1>3, <1>4, <1>5, <1>6 DEF Next

LEMMA SpecInv == Spec => []Inv
BY InitInv, NextInv, PTL DEF Spec

\* The tables and the sessions have the values their columns and objects allow.
THEOREM SpecTypeOK == Spec => []TypeOK
<1>1. Inv => TypeOK
  BY DEF Inv
<1> QED BY <1>1, SpecInv, PTL

\* Whichever calls fail, before or after Telegram has carried them out, whoever
\* is skipped and however many broadcasts run at a time: a report claims no one
\* it has not reached, and has among its failures whoever it reached without
\* knowing it (send_broadcast_now).
THEOREM SpecReport == Spec => []BroadcastReport
<1>1. Inv => BroadcastReport
  BY DEF Inv
<1> QED BY <1>1, SpecInv, PTL

\* An admin who is never in two sessions at a time sends one text on a question.
THEOREM SpecOneText == Spec => []OneTextPerAskUnlessShared
<1>1. Inv => OneTextPerAskUnlessShared
  BY DEF Inv, Credits, OneTextPerAskUnlessShared
<1> QED BY <1>1, SpecInv, PTL
=============================================================================
