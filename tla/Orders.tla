------------------------------- MODULE Orders -------------------------------
(***************************************************************************)
(* Member orders: confirming an order and posting it to the collector      *)
(* channel, clicks on the post, leaves and refills, the periodic recheck,  *)
(* and the rewards a click pays out (join, referral, missions and          *)
(* achievements).                                                          *)
(*                                                                         *)
(* Every update of the bot and every recheck of the worker runs in a       *)
(* database session of its own (middlewares.py, database.py), on READ      *)
(* COMMITTED Postgres.  A session keeps the rows it has loaded as they     *)
(* were when it read them (the identity map), writes back only the columns *)
(* it changed, and holds the lock of every row it wrote until it commits.  *)
(* UserMiddleware writes the acting user's row first, so the sessions of   *)
(* one user follow each other.  Messages to Telegram are sent before the   *)
(* commit and stay when the session is rolled back.                        *)
(***************************************************************************)
EXTENDS Integers, FiniteSets

CONSTANTS
  User, Channel,
  Order,            \* the orders that may be confirmed, placed or not yet
  Session,          \* how many updates and rechecks run at a time
  Bonus,            \* achievements, and missions of one day each
  Nobody,           \* no user, no order, no session
  OwnerOf,          \* the user who places an order
  ChannelOf,        \* the channel an order is for
  TargetOf,         \* Order.target_count
  ReferrerOf,       \* User.referred_by
  Group,            \* the channels that can restrict a member
  MinJoins,         \* setting referral_min_joins
  MaxActive,        \* rates["max_active_orders"]
  CheckLimit,       \* participations rechecked per order: limit(10)
  MaxChecks,        \* MAX_CHECKS_PER_RUN
  Failing           \* what may fail: the "bot", the "worker", the "post" of an order

ASSUME NobodyAssumption == Nobody \notin User \cup Order \cup Session

\* Rows of users and orders are rows of two tables.
ASSUME RowAssumption == User \cap Order = {}

ASSUME OrderAssumption ==
  /\ OwnerOf \in [Order -> User]
  /\ ChannelOf \in [Order -> Channel]
  /\ TargetOf \in [Order -> Nat \ {0}]

ASSUME ReferrerAssumption ==
  /\ ReferrerOf \in [User -> User \cup {Nobody}]
  /\ \A u \in User : ReferrerOf[u] # u

ASSUME FiniteAssumption == IsFiniteSet(User) /\ IsFiniteSet(Order)

ASSUME BoundAssumption ==
  /\ MinJoins \in Nat
  /\ MaxActive \in Nat
  /\ CheckLimit \in Nat
  /\ MaxChecks \in Nat
  /\ Failing \subseteq {"bot", "worker", "post"}
  /\ Group \subseteq Channel

VARIABLES
  order,        \* the rows of the table orders
  paid,         \* how many rows record each claim as paid
  charged,      \* how many times the leave of a participation was charged
  post,         \* the post of an order in the collector channel
  member,       \* who is in each channel
  restricted,   \* members whose Telegram status is "restricted"
  quit,         \* history: who has left or been removed from a channel
  events,       \* chat_member updates not handled yet
  lock,         \* the session holding the lock of a users or orders row
  tx            \* the state of every session

vars == <<order, paid, charged, post, member, restricted, quit, events, lock, tx>>
telegram == <<member, restricted, quit, events>>

(***************************************************************************)
(* Rows, claims and sessions                                               *)
(***************************************************************************)
Status == {"absent", "queued", "in_progress", "completed", "refilling"}
Guarantee == {"none", "live", "over"}
Row == [status : Status, progress : Nat, guarantee : Guarantee]
NoRow == [status |-> "absent", progress |-> 0, guarantee |-> "none"]

\* A claim <<kind, u, x>> is settled by sessions that have written u's row.
JoinClaim == {"join"} \X User \X Order
CommissionClaim == {<<"commission", OwnerOf[o], o>> : o \in Order}
ReferralClaim == {<<"referral", u, ReferrerOf[u]>> :
                    u \in {v \in User : ReferrerOf[v] # Nobody}}
BonusClaim == {"bonus"} \X User \X Bonus
Claim == JoinClaim \cup CommissionClaim \cup ReferralClaim \cup BonusClaim

Tx == [pc : {"idle", "placed", "looked", "referred", "loop", "mark", "done"},
       actor : User \cup {Nobody},      \* whose update it is
       at : Order \cup {Nobody},        \* the order being worked on
       leaver : User \cup {Nobody},     \* whose leave is being handled
       seen : [Order -> Row],           \* the rows as loaded, NoRow if not
       mine : [Order -> Row],           \* the rows as changed since
       pay : SUBSET Claim,              \* claims this session settles
       gone : SUBSET (Order \X User),   \* participations it marks as left
       work : SUBSET Order,             \* handle_member_left: orders to go
       rounds : SUBSET Order,           \* recheck: orders to go
       checks : SUBSET User,            \* recheck: participants to go
       checked : Nat]                   \* recheck: participants taken so far

IdleTx == [pc |-> "idle", actor |-> Nobody, at |-> Nobody, leaver |-> Nobody,
           seen |-> [o \in Order |-> NoRow], mine |-> [o \in Order |-> NoRow],
           pay |-> {}, gone |-> {}, work |-> {}, rounds |-> {}, checks |-> {},
           checked |-> 0]

Init ==
  /\ order = [o \in Order |-> NoRow]
  /\ paid = [c \in Claim |-> 0]
  /\ charged = [p \in Order \X User |-> 0]
  /\ post = [o \in Order |-> "absent"]
  /\ member = [c \in Channel |-> {}]
  /\ restricted = {}
  /\ quit = {}
  /\ events = {}
  /\ lock = [k \in User \cup Order |-> Nobody]
  /\ tx = [s \in Session |-> IdleTx]

\* An UPDATE writes the columns the session changed and keeps the others.
\* A guarantee deadline is set together with the status "completed".
Merge(row, seen, mine) ==
  [status |-> IF mine.status = seen.status THEN row.status ELSE mine.status,
   progress |-> IF mine.progress = seen.progress THEN row.progress
                                                 ELSE mine.progress,
   guarantee |-> IF mine.status = "completed" /\ seen.status # "completed"
                 THEN "live" ELSE row.guarantee]

\* What a query of session s sees: the committed rows under its own writes.
View(s, o) == Merge(order[o], tx[s].seen[o], tx[s].mine[o])

Active(row) == row.status \in {"queued", "in_progress", "refilling"}
Clickable(row) == row.status \in {"in_progress", "refilling"}
\* Mutant of Guaranteed: completed orders left out.
GuaranteedOpen(row) == Clickable(row) /\ row.guarantee = "live"

Guaranteed(row) ==
  /\ row.status \in {"completed", "in_progress", "refilling"}
  /\ row.guarantee = "live"

\* Mutant of Lock: the rows are written only at the end.
LockLate(s, K) == UNCHANGED lock

\* Take the locks of the rows of K, or wait for who holds one of them.
Lock(s, K) ==
  /\ \A k \in K : lock[k] \in {s, Nobody}
  /\ lock' = [k \in User \cup Order |-> IF k \in K THEN s ELSE lock[k]]

\* A query that returns the orders of S: the rows loaded before stay stale.
Loads(s, t, S) ==
  LET fresh == {o \in S : tx[s].seen[o].status = "absent"}
  IN  [t EXCEPT !.seen = [o \in Order |-> IF o \in fresh THEN View(s, o) ELSE @[o]],
                !.mine = [o \in Order |-> IF o \in fresh THEN View(s, o) ELSE @[o]]]

\* Mutant of OpenPart: left_at is not looked at.
AnyPart(s, o, u) == paid[<<"join", u, o>>] > 0 /\ <<o, u>> \notin tx[s].gone

OpenPart(s, o, u) ==
  /\ paid[<<"join", u, o>>] > 0
  /\ charged[<<o, u>>] = 0
  /\ <<o, u>> \notin tx[s].gone

JoinsOf(u) == {o \in Order : paid[<<"join", u, o>>] > 0}

\* Mutant of DueBonus: a reward already given is not looked for.
AnyBonus(s, u) == {c \in BonusClaim : c[2] = u}

\* Missions and achievements of u that a session finds still to be paid.
DueBonus(s, u) ==
  {c \in BonusClaim : c[2] = u /\ paid[c] = 0} \ tx[s].pay

(***************************************************************************)
(* Telegram and time                                                       *)
(***************************************************************************)
\* Only users who could be rewarded for an order of the channel: the leave of
\* anybody else finds no participation.
JoinChannel(c, u) ==
  /\ u \notin member[c]
  /\ \E o \in Order : ChannelOf[o] = c /\ OwnerOf[o] # u
  /\ member' = [member EXCEPT ![c] = @ \cup {u}]
  /\ UNCHANGED <<order, paid, charged, post, restricted, quit, events, lock, tx>>

LeaveChannel(c, u) ==
  /\ u \in member[c]
  /\ member' = [member EXCEPT ![c] = @ \ {u}]
  /\ restricted' = restricted \ {<<c, u>>}
  /\ quit' = quit \cup {<<c, u>>}
  /\ events' = events \cup {<<c, u>>}
  /\ UNCHANGED <<order, paid, charged, post, lock, tx>>

RestrictMember(c, u) ==
  /\ c \in Group /\ u \in member[c] /\ <<c, u>> \notin restricted
  /\ restricted' = restricted \cup {<<c, u>>}
  /\ UNCHANGED <<order, paid, charged, post, member, quit, events, lock, tx>>

\* delete_webhook(drop_pending_updates=True) when the bot starts again.
DropPendingUpdates ==
  /\ "bot" \in Failing /\ events # {}
  /\ events' = {}
  /\ UNCHANGED <<order, paid, charged, post, member, restricted, quit, lock, tx>>

\* guarantee_until passes.
GuaranteeEnds(o) ==
  /\ order[o].guarantee = "live"
  /\ order' = [order EXCEPT ![o].guarantee = "over"]
  /\ UNCHANGED <<paid, charged, post, telegram, lock, tx>>

(***************************************************************************)
(* Confirming an order                                                     *)
(***************************************************************************)
PlaceOrder(s, o) ==
  LET payer == OwnerOf[o]
  IN  /\ tx[s].pc = "idle"
      /\ order[o].status = "absent" /\ post[o] = "absent"
      /\ Cardinality({p \in Order : OwnerOf[p] = payer /\ Active(order[p])}) < MaxActive
      /\ \A p \in Order : ChannelOf[p] = ChannelOf[o] => ~Active(order[p])
      /\ Lock(s, {payer, o})
      /\ tx' = [tx EXCEPT ![s] = [IdleTx EXCEPT !.pc = "placed", !.actor = payer,
                                !.at = o, !.mine[o].status = "queued"]]
      /\ UNCHANGED <<order, paid, charged, post, telegram>>

\* The commission for the owner's referrer, when it is not zero.
Commissioned(o, C) ==
  C \subseteq (IF ReferrerOf[OwnerOf[o]] = Nobody
              THEN {} ELSE {<<"commission", OwnerOf[o], o>>})

\* post_order_to_collector sends the post and then marks the order.
PostOrder(s, C) ==
  LET o == tx[s].at
  IN  /\ tx[s].pc = "placed"
      /\ Commissioned(o, C)
      /\ Lock(s, {ReferrerOf[c[2]] : c \in C})
      /\ post' = [post EXCEPT ![o] = "open"]
      /\ tx' = [tx EXCEPT ![s].pc = "done", ![s].pay = C,
                        ![s].mine[o].status = "in_progress"]
      /\ UNCHANGED <<order, paid, charged, telegram>>

\* confirm_order catches whatever send_message raises and returns normally.
PostFails(s, C) ==
  LET o == tx[s].at
  IN  /\ "post" \in Failing
      /\ tx[s].pc = "placed"
      /\ Commissioned(o, C)
      /\ Lock(s, {ReferrerOf[c[2]] : c \in C})
      /\ tx' = [tx EXCEPT ![s].pc = "done", ![s].pay = C]
      /\ UNCHANGED <<order, paid, charged, post, telegram>>

(***************************************************************************)
(* A click on the post: handle_collector_click                             *)
(***************************************************************************)
ClickLook(s, u, o, B) ==
  /\ tx[s].pc = "idle"
  /\ Clickable(order[o])
  /\ u # OwnerOf[o]
  /\ paid[<<"join", u, o>>] = 0
  /\ u \in member[ChannelOf[o]] /\ <<ChannelOf[o], u>> \notin restricted
  /\ B \subseteq DueBonus(s, u)
  /\ Lock(s, {u})
  /\ tx' = [tx EXCEPT ![s] = [IdleTx EXCEPT !.pc = "looked", !.actor = u, !.at = o,
                            !.seen[o] = order[o], !.mine[o] = order[o],
                            !.pay = {<<"join", u, o>>} \cup B]]
  /\ UNCHANGED <<order, paid, charged, post, telegram>>

\* reward_referral_if_eligible counts this join too: it has been flushed.
ReferralDue(u) ==
  /\ ReferrerOf[u] # Nobody
  /\ paid[<<"referral", u, ReferrerOf[u]>>] = 0
  /\ Cardinality(JoinsOf(u)) + 1 >= MinJoins

ClickReferral(s, B) ==
  LET u == tx[s].actor
  IN  /\ tx[s].pc = "looked"
      /\ ReferralDue(u)
      /\ Lock(s, {ReferrerOf[u]})
      /\ B \subseteq DueBonus(s, ReferrerOf[u])
      /\ tx' = [tx EXCEPT ![s].pc = "referred",
                        ![s].pay = @ \cup {<<"referral", u, ReferrerOf[u]>>} \cup B]
      /\ UNCHANGED <<order, paid, charged, post, telegram>>

ClickNoReferral(s) ==
  /\ tx[s].pc = "looked"
  /\ ~ReferralDue(tx[s].actor)
  /\ tx' = [tx EXCEPT ![s].pc = "referred"]
  /\ UNCHANGED <<order, paid, charged, post, telegram, lock>>

Fills(s) == tx[s].mine[tx[s].at].progress + 1 >= TargetOf[tx[s].at]

ClickCount(s) ==
  LET o == tx[s].at
  IN  /\ tx[s].pc = "referred" /\ ~Fills(s)
      /\ Lock(s, {o})
      /\ tx' = [tx EXCEPT ![s].pc = "done", ![s].mine[o].progress = @ + 1]
      /\ post' = [post EXCEPT ![o] = "open"]
      /\ UNCHANGED <<order, paid, charged, telegram>>

ClickComplete(s, B) ==
  LET o == tx[s].at
  IN  /\ tx[s].pc = "referred" /\ Fills(s)
      /\ Lock(s, {o, OwnerOf[o]})
      /\ B \subseteq DueBonus(s, OwnerOf[o])
      /\ tx' = [tx EXCEPT ![s].pc = "done", ![s].pay = @ \cup B,
                        ![s].mine[o] = [status |-> "completed",
                                        progress |-> @.progress + 1,
                                        guarantee |-> "live"]]
      /\ post' = [post EXCEPT ![o] = "closed"]
      /\ UNCHANGED <<order, paid, charged, telegram>>

(***************************************************************************)
(* A leave: handle_member_left, from the chat_member update ...            *)
(***************************************************************************)
Covered(s, c) == {o \in Order : ChannelOf[o] = c /\ Guaranteed(View(s, o))}

\* Session s, in state t, starts on the leave of u from channel c.
Handles(s, t, c, u) ==
  Loads(s, [t EXCEPT !.pc = "loop", !.leaver = u, !.work = Covered(s, c)], Covered(s, c))

\* by is who made the change: the user, or an admin who removed the user.
LeftUpdate(s, c, u, by) ==
  /\ tx[s].pc = "idle"
  /\ <<c, u>> \in events
  /\ events' = events \ {<<c, u>>}
  /\ Lock(s, {by})
  /\ tx' = [tx EXCEPT ![s] = Handles(s, [IdleTx EXCEPT !.actor = by], c, u)]
  /\ UNCHANGED <<order, paid, charged, post, member, restricted, quit>>

\* The participation is read here, its lock is taken by the flush in LeftMark.
LeftFound(s, o) ==
  /\ tx[s].pc = "loop" /\ o \in tx[s].work
  /\ OpenPart(s, o, tx[s].leaver)
  /\ tx' = [tx EXCEPT ![s].pc = "mark", ![s].at = o, ![s].work = @ \ {o}]
  /\ UNCHANGED <<order, paid, charged, post, telegram, lock>>

LeftSkip(s, o) ==
  /\ tx[s].pc = "loop" /\ o \in tx[s].work
  /\ ~OpenPart(s, o, tx[s].leaver)
  /\ tx' = [tx EXCEPT ![s].work = @ \ {o}]
  /\ UNCHANGED <<order, paid, charged, post, telegram, lock>>

\* Mutants of Refilled: no max(..., 0); the progress is not taken back.
RefilledBelow(row) == [row EXCEPT !.status = "refilling", !.progress = @ - 1]
RefilledSame(row) == [row EXCEPT !.status = "refilling"]

Refilled(row) ==
  [row EXCEPT !.status = "refilling", !.progress = IF @ = 0 THEN 0 ELSE @ - 1]

\* Mutant of LeftMark: the post is not edited.
LeftMarkSilent(s) ==
  LET o == tx[s].at
  IN  /\ tx[s].pc = "mark"
      /\ Lock(s, {o, tx[s].leaver})
      /\ tx' = [tx EXCEPT ![s].pc = "loop", ![s].gone = @ \cup {<<o, tx[s].leaver>>},
                        ![s].mine[o] = Refilled(@)]
      /\ UNCHANGED <<order, paid, charged, post, telegram>>

LeftMark(s) ==
  LET o == tx[s].at
      u == tx[s].leaver
  IN  /\ tx[s].pc = "mark"
      /\ Lock(s, {o, u})
      /\ tx' = [tx EXCEPT ![s].pc = "loop", ![s].gone = @ \cup {<<o, u>>},
                        ![s].mine[o] = Refilled(@)]
      /\ post' = [post EXCEPT ![o] = "open"]
      /\ UNCHANGED <<order, paid, charged, telegram>>

(***************************************************************************)
(* ... and from the recheck of the worker                                  *)
(***************************************************************************)
RecheckStart(s) ==
  LET live == {o \in Order : Guaranteed(order[o])}
  IN  /\ tx[s].pc = "idle" /\ live # {}
      /\ tx' = [tx EXCEPT ![s] = Loads(s, [IdleTx EXCEPT !.pc = "loop", !.rounds = live],
                                     live)]
      /\ UNCHANGED <<order, paid, charged, post, telegram, lock>>

Between(s) == tx[s].pc = "loop" /\ tx[s].work = {} /\ tx[s].actor = Nobody

\* At most CheckLimit open participations, in no particular order.
RecheckOrder(s, o, T) ==
  LET open == {u \in User : OpenPart(s, o, u)}
      left == MaxChecks - tx[s].checked
  IN  /\ Between(s) /\ tx[s].checks = {} /\ o \in tx[s].rounds
      /\ T \subseteq open
      /\ Cardinality(T) <= CheckLimit /\ Cardinality(T) <= left
      /\ T = open \/ Cardinality(T) = CheckLimit \/ Cardinality(T) = left
      /\ tx' = [tx EXCEPT ![s].at = o, ![s].rounds = @ \ {o}, ![s].checks = T,
                        ![s].checked = @ + Cardinality(T)]
      /\ UNCHANGED <<order, paid, charged, post, telegram, lock>>

\* Mutant of StillMember: the test of the status is the wrong way round.
NoMember(s, u) == u \notin member[ChannelOf[tx[s].at]]

StillMember(s, u) ==
  u \in member[ChannelOf[tx[s].at]] /\ <<ChannelOf[tx[s].at], u>> \notin restricted

RecheckStays(s, u) ==
  /\ Between(s) /\ u \in tx[s].checks /\ StillMember(s, u)
  /\ tx' = [tx EXCEPT ![s].checks = @ \ {u}]
  /\ UNCHANGED <<order, paid, charged, post, telegram, lock>>

RecheckGone(s, u) ==
  /\ Between(s) /\ u \in tx[s].checks /\ ~StillMember(s, u)
  /\ tx' = [tx EXCEPT ![s] = Handles(s, [tx[s] EXCEPT !.checks = @ \ {u}],
                                   ChannelOf[tx[s].at], u)]
  /\ UNCHANGED <<order, paid, charged, post, telegram, lock>>

(***************************************************************************)
(* The end of a session                                                    *)
(***************************************************************************)
Finished(s) ==
  \/ tx[s].pc = "done"
  \/ /\ tx[s].pc = "loop" /\ tx[s].work = {}
     /\ tx[s].checks = {} /\ tx[s].rounds = {}

Ends(s) ==
  /\ tx' = [tx EXCEPT ![s] = IdleTx]
  /\ lock' = [k \in User \cup Order |-> IF lock[k] = s THEN Nobody ELSE lock[k]]

Commit(s) ==
  /\ Finished(s)
  /\ order' = [o \in Order |-> View(s, o)]
  /\ paid' = [c \in Claim |-> IF c \in tx[s].pay THEN paid[c] + 1 ELSE paid[c]]
  /\ charged' = [p \in Order \X User |->
                  IF p \in tx[s].gone THEN charged[p] + 1 ELSE charged[p]]
  /\ Ends(s)
  /\ UNCHANGED <<post, telegram>>

\* The locks the next step of s takes.
Needs(s) ==
  LET t == tx[s]
  IN  CASE t.pc = "looked" /\ ReferralDue(t.actor) -> {ReferrerOf[t.actor]}
        [] t.pc = "placed" -> {ReferrerOf[OwnerOf[t.at]]} \ {Nobody}
        [] t.pc = "referred" -> {t.at} \cup (IF Fills(s) THEN {OwnerOf[t.at]} ELSE {})
        [] t.pc = "mark" -> {t.at, t.leaver}
        [] OTHER -> {}

WaitsFor(s) == {lock[k] : k \in Needs(s)} \ {s, Nobody}

\* Postgres ends a session that waits in a cycle.
Deadlocked(s) ==
  \E C \in SUBSET Session : s \in C /\ \A t \in C : WaitsFor(t) \cap C # {}

\* Updates are handled by the bot, rechecks by the worker.
ProcessOf(s) == IF tx[s].actor = Nobody THEN "worker" ELSE "bot"

\* An exception, a crash or a deadlock: the rows roll back, the posts do not.
Abort(s) ==
  /\ tx[s].pc # "idle"
  /\ ProcessOf(s) \in Failing \/ Deadlocked(s)
  /\ Ends(s)
  /\ UNCHANGED <<order, paid, charged, post, telegram>>

Starts(s) ==
  \/ \E o \in Order : PlaceOrder(s, o)
  \/ \E u \in User, o \in Order, B \in SUBSET BonusClaim : ClickLook(s, u, o, B)
  \/ \E c \in Channel, u \in User :
       \E by \in {u} \cup {OwnerOf[o] : o \in Order} : LeftUpdate(s, c, u, by)
  \/ RecheckStart(s)

\* What a session that has started goes on to do unless it is aborted.
Proceed(s) ==
  \/ \E C \in SUBSET CommissionClaim : PostOrder(s, C) \/ PostFails(s, C)
  \/ \E B \in SUBSET BonusClaim : ClickReferral(s, B) \/ ClickComplete(s, B)
  \/ ClickNoReferral(s) \/ ClickCount(s)
  \/ \E o \in Order : LeftFound(s, o) \/ LeftSkip(s, o)
  \/ LeftMark(s)
  \/ \E o \in Order, T \in SUBSET User : RecheckOrder(s, o, T)
  \/ \E u \in User : RecheckStays(s, u) \/ RecheckGone(s, u)
  \/ Commit(s)

Step(s) == Starts(s) \/ Proceed(s) \/ Abort(s)

Environment ==
  \/ \E c \in Channel, u \in User :
       JoinChannel(c, u) \/ LeaveChannel(c, u) \/ RestrictMember(c, u)
  \/ DropPendingUpdates
  \/ \E o \in Order : GuaranteeEnds(o)

Next == (\E s \in Session : Step(s)) \/ Environment

Spec == Init /\ [][Next]_vars

\* Coroutines run on, Postgres wakes those who wait for a lock in turn and ends
\* one of those who wait in a cycle, and beat starts a recheck every 15 minutes
\* (celery_app.py).  Nothing obliges a user to click, Telegram to deliver an
\* update, or the bot to finish one.
FairSpec ==
  /\ Spec
  /\ \A s \in Session : SF_<<tx[s]>>(Proceed(s) \/ (Deadlocked(s) /\ Abort(s)))
  /\ SF_<<tx>>(\E s \in Session : RecheckStart(s))

(***************************************************************************)
(* What holds however the sessions interleave                              *)
(***************************************************************************)

\* The tables and the sessions have the values the columns and objects allow.
TypeOK ==
  /\ order \in [Order -> Row]
  /\ paid \in [Claim -> Nat]
  /\ charged \in [Order \X User -> Nat]
  /\ post \in [Order -> {"absent", "open", "closed"}]
  /\ member \in [Channel -> SUBSET User]
  /\ restricted \subseteq Channel \X User
  /\ quit \subseteq Channel \X User
  /\ events \subseteq Channel \X User
  /\ lock \in [User \cup Order -> Session \cup {Nobody}]
  /\ tx \in [Session -> Tx]

\* No join, commission, referral, achievement or mission of a day is paid
\* twice.  No table has a unique constraint for this: only the lock that
\* UserMiddleware takes before the handler looks for an earlier payment.
PaidOnce == \A c \in Claim : paid[c] <= 1

\* The orders of which session s has written the row or a participation.
Writes(s) ==
  {o \in Order : \/ tx[s].mine[o] # tx[s].seen[o]
                 \/ \E u \in User : <<o, u>> \in tx[s].gone}

\* Why PaidOnce holds, for every session s: it holds the row of the user whose
\* update it handles, of everybody with a claim it is about to pay, and of the
\* orders it has written, and those claims have not been paid by anybody.
HoldsActor(s) == tx[s].actor # Nobody => lock[tx[s].actor] = s

HoldsClaims(s) == \A c \in tx[s].pay : lock[c[2]] = s /\ paid[c] = 0

HoldsOrders(s) ==
  /\ \A o \in Writes(s) : lock[o] = s
  /\ \A o \in Order : tx[s].mine[o].status = "absent" => tx[s].seen[o].status = "absent"

\* What a session is working on at each point of its handler.
WorksOn(s) ==
  LET t == tx[s]
  IN  /\ t.pc = "placed" => /\ t.at \in Order /\ t.actor = OwnerOf[t.at]
                            /\ lock[t.at] = s /\ order[t.at].status = "absent"
                            /\ t.seen[t.at] = NoRow /\ t.mine[t.at].status = "queued"
      /\ t.pc \in {"looked", "referred"} => t.at \in Order /\ t.actor \in User
      /\ t.pc = "mark" => t.at \in Order /\ t.leaver \in User
      /\ t.work # {} => t.leaver \in User
      /\ t.pc \in {"loop", "mark"} => t.pay = {}

\* A commission belongs to an order placed before, or by this very session.
CommissionOf(s) ==
  \A o \in Order : LET c == <<"commission", OwnerOf[o], o>> IN
    /\ paid[c] > 0 => order[o].status # "absent"
    /\ c \in tx[s].pay => /\ tx[s].seen[o].status = "absent"
                          /\ tx[s].mine[o].status # "absent"

Disciplined(s) ==
  HoldsActor(s) /\ HoldsClaims(s) /\ HoldsOrders(s) /\ WorksOn(s) /\ CommissionOf(s)

LockDiscipline == \A s \in Session : Disciplined(s)

\* A referrer is paid only for a referee who has been rewarded for MinJoins
\* orders, the click being handled included (reward_referral_if_eligible).
ReferralEarned ==
  \A c \in ReferralClaim : paid[c] > 0 => Cardinality(JoinsOf(c[2])) >= MinJoins

\* Whoever is charged for leaving had taken the reward of that order and has
\* left its channel at some time (handle_member_left); in a group the recheck
\* also takes who is restricted for gone (order_tasks.py).
ChargedLeft ==
  \A p \in Order \X User :
    charged[p] > 0 => /\ paid[<<"join", p[2], p[1]>>] > 0
                     /\ \/ ChannelOf[p[1]] \in Group
                        \/ <<ChannelOf[p[1]], p[2]>> \in quit

\* An order that can still be joined, and that no session is writing, shows
\* its buttons in the collector channel (update_collector_message).
OpenOrderHasButtons ==
  \A o \in Order : Clickable(order[o]) /\ lock[o] = Nobody => post[o] = "open"

\* A participant who leaves while the order is guaranteed is charged, comes
\* back or outlives the guarantee, even when no chat_member update comes and the
\* bot never finishes one: the recheck finds them (order_tasks.py).
LeaverFound ==
  \A o \in Order : \A u \in User \ {OwnerOf[o]} :
    (/\ paid[<<"join", u, o>>] > 0 /\ charged[<<o, u>>] = 0
     /\ u \notin member[ChannelOf[o]] /\ order[o].guarantee = "live")
      ~> \/ charged[<<o, u>>] > 0
         \/ u \in member[ChannelOf[o]]
         \/ order[o].guarantee # "live"

\* Orders implements Payouts: a transaction pays claims nobody was paid for, all
\* of them or none (handle_collector_click, reward_referral_if_eligible,
\* progress_mission, check_achievements).
Payout == INSTANCE Payouts WITH Claim <- Claim, paid <- paid
PayoutSpec == Payout!Spec

(***************************************************************************)
(* What the texts of the bot say of it                                     *)
(***************************************************************************)
Joined(o) == {u \in User : paid[<<"join", u, o>>] > 0}
Left(o) == {u \in User : charged[<<o, u>>] > 0}

\* A click that is rewarded raises the progress (README, end-to-end test, step
\* 4): progress_count is the number of rewarded participants who have not left.
ProgressExact ==
  \A o \in Order : order[o].progress = Cardinality(Joined(o)) - Cardinality(Left(o))

\* A referrer is paid when the referee has joined MinJoins channels of orders
\* (README, "anti fake referral"; the head of referral_service.py; referral_info).
ReferralByChannels ==
  \A c \in ReferralClaim :
    paid[c] > 0 => Cardinality({ChannelOf[o] : o \in JoinsOf(c[2])}) >= MinJoins

\* A paid order is posted at once (README, end-to-end test, step 3).
PaidOrderPosted == \A o \in Order : order[o].status # "queued"

\* A channel has one active order at a time (create_order, error text).
OneActivePerChannel ==
  \A o, p \in Order :
    Active(order[o]) /\ Active(order[p]) /\ ChannelOf[o] = ChannelOf[p] => o = p

\* A user has at most MaxActive active orders (create_order, error text).
AtMostMaxActive ==
  \A u \in User :
    Cardinality({o \in Order : OwnerOf[o] = u /\ Active(order[o])}) <= MaxActive
=============================================================================
