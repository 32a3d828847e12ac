------------------------------ MODULE Wallets ------------------------------
(***************************************************************************)
(* Wallets and their receipts (wallet_service.py) under the handlers that  *)
(* pay and charge users: the daily reward, a reward or a payment followed  *)
(* by one for the referrer, /adjustwallet, and the penalty for a leave.    *)
(*                                                                         *)
(* UserMiddleware reads the row of the acting user, and with it the wallet *)
(* (User.wallet is loaded with lazy="selectin"), and only then writes the  *)
(* row, which takes its lock: the session goes on with what it read before *)
(* it had to wait.  Other users are read, without a lock, by session.get.  *)
(* A flush writes the balance as computed from what was read.              *)
(***************************************************************************)
EXTENDS Integers

CONSTANTS
  User, Session,
  Admin,            \* users who may adjust wallets
  Nobody,           \* no user, no session
  ReferrerOf,       \* User.referred_by
  Reward,           \* the sums a handler may pay out
  Price,            \* the sums an order or a banner may cost
  Penalty,          \* the sums a leave may cost
  MaxDay,           \* how many days the model runs
  MaxTurnover       \* bound on the sum of the receipts of each user

ASSUME NobodyAssumption == Nobody \notin User \cup Session

ASSUME UserAssumption ==
  /\ Admin \subseteq User
  /\ ReferrerOf \in [User -> User \cup {Nobody}]

ASSUME AmountAssumption ==
  /\ Reward \subseteq Nat \ {0} /\ Price \subseteq Nat \ {0}
  /\ Penalty \subseteq Nat \ {0}
  /\ MaxDay \in Nat \ {0}

VARIABLES
  balance,      \* Wallet.diamonds
  earned,       \* User.total_diamonds_earned
  last,         \* User.last_daily_claim, 0 for never
  credited,     \* sum of the receipts (wallet_logs) of credits of each user
  debited,      \* ... of payments
  fined,        \* ... of penalties
  daily,        \* how many receipts of the daily reward of a day
  day,          \* today
  lock,         \* who holds the lock of a row of users or wallets
  stale,        \* history: <<s, u>> for what session s has loaded of user u
                \* and another session has written since
  overwritten,  \* history: the users with a lost update: such a copy written back
  tx            \* the state of every session

receipts == <<credited, debited, fined, daily>>
rows == <<balance, earned, last, receipts>>
history == <<stale, overwritten>>
vars == <<balance, earned, last, receipts, day, lock, history, tx>>

Day == 1..MaxDay
Lockable == {"users", "wallets"} \X User
Zero == [u \in User |-> 0]

Tx == [pc : {"idle", "read", "ready", "paid", "other", "adjust", "leave", "done"},
       actor : User \cup {Nobody},      \* whose update it is
       target : User \cup {Nobody},     \* whose wallet is changed next
       has : SUBSET User,               \* the users it has loaded
       bal : [User -> Int],             \* their wallets, as changed since
       earn : [User -> Nat],            \* their lifetime totals, likewise
       seen : 0..MaxDay,                \* last_daily_claim of the actor
       claim : 0..MaxDay,               \* the day it claims the reward of
       credit : [User -> Nat], debit : [User -> Nat], fine : [User -> Nat]]

IdleTx == [pc |-> "idle", actor |-> Nobody, target |-> Nobody, has |-> {},
           bal |-> Zero, earn |-> Zero, seen |-> 0, claim |-> 0,
           credit |-> Zero, debit |-> Zero, fine |-> Zero]

Init ==
  /\ balance = Zero /\ earned = Zero /\ last = Zero
  /\ credited = Zero /\ debited = Zero /\ fined = Zero
  /\ daily = [u \in User |-> [d \in Day |-> 0]]
  /\ day = 1
  /\ lock = [k \in Lockable |-> Nobody]
  /\ stale = {} /\ overwritten = {}
  /\ tx = [s \in Session |-> IdleTx]

(***************************************************************************)
(* Sessions                                                                *)
(***************************************************************************)
\* session.get(User, u), in state t of session s.
Load(s, t, u) ==
  IF u \in tx[s].has
  THEN t
  ELSE [t EXCEPT !.has = @ \cup {u}, !.bal[u] = balance[u], !.earn[u] = earned[u]]

\* Take the locks of the rows of K, or wait for who holds one of them.
Lock(s, K) ==
  /\ \A k \in K : lock[k] \in {s, Nobody}
  /\ lock' = [k \in Lockable |-> IF k \in K THEN s ELSE lock[k]]

\* Named bound: receipts of u are not written beyond MaxTurnover[u].
Fits(s, u, a) ==
  credited[u] + debited[u] + fined[u]
    + tx[s].credit[u] + tx[s].debit[u] + tx[s].fine[u] + a <= MaxTurnover[u]

\* add_diamonds: the wallet, the lifetime total and a receipt.
Credit(t, u, a) ==
  [t EXCEPT !.bal[u] = @ + a, !.earn[u] = @ + a, !.credit[u] = @ + a]

\* Mutant of Affords: the balance is not looked at.
AffordsAll(s, u, a) == TRUE

Affords(s, u, a) == tx[s].bal[u] >= a

\* spend_diamonds, when the balance is enough.
Debit(t, u, a) == [t EXCEPT !.bal[u] = @ - a, !.debit[u] = @ + a]

\* Mutant of Fine: the penalty stops at an empty wallet.
FineToZero(t, u, a) ==
  [t EXCEPT !.bal[u] = IF @ > a THEN @ - a ELSE 0, !.fine[u] = @ + a]

\* penalize: the balance may become negative.
Fine(t, u, a) == [t EXCEPT !.bal[u] = @ - a, !.fine[u] = @ + a]

\* UserMiddleware: read the user ...
Receive(s, u) ==
  /\ tx[s].pc = "idle"
  /\ tx' = [tx EXCEPT ![s] = Load(s, [IdleTx EXCEPT !.pc = "read", !.actor = u,
                                                 !.seen = last[u]], u)]
  /\ UNCHANGED <<rows, day, lock, history>>

\* ... and write last_active_at before the handler starts.
TakeRow(s) ==
  /\ tx[s].pc = "read"
  /\ Lock(s, {<<"users", tx[s].actor>>})
  /\ tx' = [tx EXCEPT ![s].pc = "ready"]
  /\ UNCHANGED <<rows, day, history>>

(***************************************************************************)
(* Handlers                                                                *)
(***************************************************************************)
\* Mutant of Claims: the day after is recorded.
ClaimsTomorrow(t) == [t EXCEPT !.claim = day + 1]

Claims(t) == [t EXCEPT !.claim = day]

\* claim_daily, with the missions and achievements it completes.
ClaimDaily(s, a) ==
  LET u == tx[s].actor
  IN  /\ tx[s].pc = "ready" /\ u # Nobody
      /\ tx[s].seen # day                \* not claimed today
      /\ Fits(s, u, a)
      /\ Lock(s, {"users", "wallets"} \X {u})
      /\ tx' = [tx EXCEPT ![s] = Claims(Credit([@ EXCEPT !.pc = "done"], u, a))]
      /\ UNCHANGED <<rows, day, history>>

\* A reward for the actor: of a join, a gift code, a mission, an achievement.
Earn(s, a) ==
  LET u == tx[s].actor
  IN  /\ tx[s].pc = "ready" /\ u # Nobody
      /\ Fits(s, u, a)
      /\ Lock(s, {"users", "wallets"} \X {u})
      /\ tx' = [tx EXCEPT ![s] = Credit([@ EXCEPT !.pc = "paid"], u, a)]
      /\ UNCHANGED <<rows, day, history>>

\* create_order and create_ad_banner.
Pay(s, a) ==
  LET u == tx[s].actor
  IN  /\ tx[s].pc = "ready" /\ u # Nobody
      /\ Affords(s, u, a) /\ Fits(s, u, a)
      /\ Lock(s, {<<"wallets", u>>})
      /\ tx' = [tx EXCEPT ![s] = Debit([@ EXCEPT !.pc = "paid"], u, a)]
      /\ UNCHANGED <<rows, day, history>>

\* The referrer of a buyer, for the commission, or of a referee.
FetchReferrer(s) ==
  LET r == ReferrerOf[tx[s].actor]
  IN  /\ tx[s].pc = "paid" /\ r # Nobody
      /\ tx' = [tx EXCEPT ![s] = Load(s, [@ EXCEPT !.pc = "other", !.target = r], r)]
      /\ UNCHANGED <<rows, day, lock, history>>

\* /adjustwallet reads the user whose wallet it adjusts.
FetchAdjusted(s, u) ==
  /\ tx[s].pc = "ready" /\ tx[s].actor \in Admin
  /\ tx' = [tx EXCEPT ![s] = Load(s, [@ EXCEPT !.pc = "adjust", !.target = u], u)]
  /\ UNCHANGED <<rows, day, lock, history>>

\* handle_member_left reads the user who left.
FetchLeaver(s, u) ==
  /\ \/ tx[s].pc = "ready"
     \/ tx[s].pc = "leave" /\ tx[s].actor = Nobody
  /\ tx' = [tx EXCEPT ![s] = Load(s, [@ EXCEPT !.pc = "leave", !.target = u], u)]
  /\ UNCHANGED <<rows, day, lock, history>>

\* The referrer's commission or reward, or the admin's present.
CreditOther(s, a) ==
  LET u == tx[s].target
  IN  /\ tx[s].pc \in {"other", "adjust"}
      /\ Fits(s, u, a)
      /\ Lock(s, {"users", "wallets"} \X {u})
      /\ tx' = [tx EXCEPT ![s] = Credit([@ EXCEPT !.pc = "done"], u, a)]
      /\ UNCHANGED <<rows, day, history>>

\* /adjustwallet with a negative sum spends, if the balance allows it.
DebitOther(s, a) ==
  LET u == tx[s].target
  IN  /\ tx[s].pc = "adjust"
      /\ Affords(s, u, a) /\ Fits(s, u, a)
      /\ Lock(s, {<<"wallets", u>>})
      /\ tx' = [tx EXCEPT ![s] = Debit([@ EXCEPT !.pc = "done"], u, a)]
      /\ UNCHANGED <<rows, day, history>>

\* The penalty for one order, or for a sponsor's channel, which does not write
\* the user's row; a leave may cost several.
FineLeaver(s, a, T) ==
  LET u == tx[s].target
  IN  /\ tx[s].pc = "leave"
      /\ Fits(s, u, a)
      /\ Lock(s, T \X {u})
      /\ tx' = [tx EXCEPT ![s] = Fine(@, u, a)]
      /\ UNCHANGED <<rows, day, history>>

\* The recheck of the worker acts for no user.
RecheckStart(s) ==
  /\ tx[s].pc = "idle"
  /\ tx' = [tx EXCEPT ![s] = [IdleTx EXCEPT !.pc = "ready"]]
  /\ UNCHANGED <<rows, day, lock, history>>

(***************************************************************************)
(* The end of a session                                                    *)
(***************************************************************************)
Changed(s, u) == tx[s].credit[u] + tx[s].debit[u] + tx[s].fine[u] > 0

\* Mutant of Stamp: the claim of the reward is not recorded.
OldStamp(t, u) == last[u]

\* last_daily_claim of u as the session t leaves it.
Stamp(t, u) == IF u = t.actor /\ t.claim # 0 THEN t.claim ELSE last[u]

\* The copies that are out of date once s has committed.
Outdated(s) ==
  {p \in Session \X User : p[2] \in tx[p[1]].has /\ Changed(s, p[2])}

\* Session s ends, and the copies of D that are left are out of date.
Ends(s, D) ==
  /\ tx' = [tx EXCEPT ![s] = IdleTx]
  /\ stale' = {p \in stale \cup D : p[1] # s}
  /\ lock' = [k \in Lockable |-> IF lock[k] = s THEN Nobody ELSE lock[k]]

Commit(s) ==
  LET t == tx[s]
  IN  /\ t.pc \in {"paid", "other", "adjust", "leave", "done"}
      /\ balance' = [u \in User |-> IF Changed(s, u) THEN t.bal[u] ELSE balance[u]]
      /\ earned' = [u \in User |-> IF t.credit[u] > 0 THEN t.earn[u] ELSE earned[u]]
      /\ last' = [u \in User |-> Stamp(t, u)]
      /\ credited' = [u \in User |-> credited[u] + t.credit[u]]
      /\ debited' = [u \in User |-> debited[u] + t.debit[u]]
      /\ fined' = [u \in User |-> fined[u] + t.fine[u]]
      /\ daily' = [u \in User |-> [d \in Day |->
                     IF u = t.actor /\ t.claim = d THEN daily[u][d] + 1 ELSE daily[u][d]]]
      /\ overwritten' = overwritten \cup {u \in User : Changed(s, u) /\ <<s, u>> \in stale}
      /\ Ends(s, Outdated(s))
      /\ UNCHANGED day

\* A handler that changes no wallet: a claim of today's reward made before, an
\* order the balance does not cover, everything else the bot answers.  Likewise
\* an exception, a crash or a deadlock of row locks.
Abort(s) ==
  /\ tx[s].pc # "idle"
  /\ Ends(s, {})
  /\ UNCHANGED <<rows, day, overwritten>>

NewDay ==
  /\ day < MaxDay
  /\ day' = day + 1
  /\ UNCHANGED <<rows, lock, history, tx>>

Handle(s) ==
  \/ \E a \in Reward : ClaimDaily(s, a) \/ Earn(s, a) \/ CreditOther(s, a)
  \/ \E a \in Price : Pay(s, a) \/ DebitOther(s, a)
  \/ \E a \in Penalty, T \in {{"wallets"}, {"users", "wallets"}} : FineLeaver(s, a, T)
  \/ FetchReferrer(s)
  \/ \E u \in User : FetchAdjusted(s, u) \/ FetchLeaver(s, u)

Step(s) ==
  \/ \E u \in User : Receive(s, u)
  \/ RecheckStart(s)
  \/ TakeRow(s) \/ Handle(s) \/ Commit(s) \/ Abort(s)

Next == (\E s \in Session : Step(s)) \/ NewDay

Spec == Init /\ [][Next]_vars

(***************************************************************************)
(* Properties                                                              *)
(***************************************************************************)

\* The tables and the sessions have the values the columns and objects allow.
TypeOK ==
  /\ balance \in [User -> Int] /\ earned \in [User -> Nat]
  /\ last \in [User -> 0..MaxDay]
  /\ credited \in [User -> Nat] /\ debited \in [User -> Nat]
  /\ fined \in [User -> Nat]
  /\ daily \in [User -> [Day -> Nat]]
  /\ day \in Day
  /\ lock \in [Lockable -> Session \cup {Nobody}]
  /\ stale \subseteq Session \X User /\ overwritten \subseteq User
  /\ tx \in [Session -> Tx]

\* However the sessions interleave, and although they overwrite each other's
\* balances, no wallet holds more than its user was ever credited, and none is
\* in debt by more than the penalties: spend_diamonds never overdraws.
BalanceBounded ==
  \A u \in User : -fined[u] <= balance[u] /\ balance[u] <= credited[u]

\* Until an update of a user is lost, whatever overlaps: the receipts add up to
\* the balance, the credits among them to total_diamonds_earned.
ExactUnlessOverwritten ==
  \A u \in User \ overwritten :
    /\ balance[u] = credited[u] - debited[u] - fined[u]
    /\ earned[u] = credited[u]

\* Until then the daily reward is paid once a day (claim_daily).
DailyOnceUnlessOverwritten ==
  \A u \in User \ overwritten, d \in Day : daily[u][d] <= 1

(***************************************************************************)
(* What the texts of the bot say of it                                     *)
(***************************************************************************)

\* The reward of today is not paid again (claim_daily, answer to a second claim).
DailyOnce == \A u \in User, d \in Day : daily[u][d] <= 1
=============================================================================
