----------------------------- MODULE Promotions -----------------------------
(***************************************************************************)
(* What is given out up to a limit: gift codes, which a number of users    *)
(* may redeem (handlers/referral.py), and ad banners, which are shown in   *)
(* the menu "earn" until the impressions that were paid for are reached    *)
(* (ad_banner_service.py).                                                 *)
(*                                                                         *)
(* A session holds the row of the acting user from UserMiddleware on; the  *)
(* code or the banner is read without a lock, its counter is incremented   *)
(* in memory, and the sum is written when the session flushes.             *)
(***************************************************************************)
EXTENDS Integers, FiniteSets

CONSTANTS
  User, Session,
  Manager,          \* users who pass can_manage_settings
  Code, Banner,     \* the ids the tables may give out
  MaxUses,          \* the uses a manager may allow a code
  Target,           \* the impressions a user may pay for
  MaxSent,          \* bound on the messages that show a banner
  Nobody            \* no row

Item == Code \cup Banner
Rows == User \cup Item

ASSUME RowAssumption ==
  /\ Nobody \notin Rows \cup Session
  /\ User \cap Item = {} /\ Code \cap Banner = {}
  /\ Manager \subseteq User
  /\ IsFiniteSet(User)

ASSUME NumberAssumption ==
  /\ MaxUses \subseteq Nat /\ Target \subseteq Nat \ {0} /\ MaxSent \in Nat

VARIABLES
  code,         \* gift_codes
  redeemed,     \* gift_code_redemptions: how many of each user
  banner,       \* ad_banners
  sent,         \* history: the messages that showed a banner to somebody
  lock,         \* who holds the lock of a row
  stale,        \* history: the sessions whose code or banner another one has
                \* written since they read it
  overwritten,  \* history: the codes and banners with a lost update, which a
                \* stale session has written back
  tx            \* the state of every session

tables == <<code, redeemed, banner>>
history == <<stale, overwritten>>
vars == <<tables, sent, lock, history, tx>>

NoCode == [status |-> "absent", max |-> 0, used |-> 0]
NoBanner == [status |-> "absent", target |-> 0, shown |-> 0]

Tx == [pc : {"idle", "read", "ready", "redeem", "redeemed", "made",
             "show", "counted", "shown", "paid"},
       actor : User \cup {Nobody},
       item : Item \cup {Nobody},       \* the code or banner it has loaded
       count : Nat]                     \* used_count or shown_count as changed,
                                        \* the limit of a new code or banner

IdleTx == [pc |-> "idle", actor |-> Nobody, item |-> Nobody, count |-> 0]

Init ==
  /\ code = [c \in Code |-> NoCode]
  /\ redeemed = [c \in Code |-> [u \in User |-> 0]]
  /\ banner = [b \in Banner |-> NoBanner]
  /\ sent = [b \in Banner |-> 0]
  /\ lock = [k \in Rows |-> Nobody]
  /\ stale = {} /\ overwritten = {}
  /\ tx = [s \in Session |-> IdleTx]

(***************************************************************************)
(* Sessions                                                                *)
(***************************************************************************)
\* Session s loads the row i and computes the value n of its counter.
Load(s, pc, i, n) ==
  tx' = [tx EXCEPT ![s] = [@ EXCEPT !.pc = pc, !.item = i, !.count = n]]

\* Take the locks of the rows of K, or wait for who holds one of them.
Lock(s, K) ==
  /\ \A k \in K : lock[k] \in {s, Nobody}
  /\ lock' = [k \in Rows |-> IF k \in K THEN s ELSE lock[k]]

\* The flush of session s writes the row it has loaded.
Flush(s, from, to) ==
  /\ tx[s].pc = from
  /\ Lock(s, {tx[s].item})
  /\ tx' = [tx EXCEPT ![s].pc = to]
  /\ UNCHANGED <<tables, sent, history>>

\* UserMiddleware: read the user ...
Receive(s, u) ==
  /\ tx[s].pc = "idle"
  /\ tx' = [tx EXCEPT ![s].pc = "read", ![s].actor = u]
  /\ UNCHANGED <<tables, sent, lock, history>>

\* Mutant of OwnRow: last_active_at is not written before the handler starts.
NoOwnRow(s) == {}

OwnRow(s) == {tx[s].actor}

\* ... and write last_active_at before the handler starts.
TakeRow(s) ==
  /\ tx[s].pc = "read"
  /\ Lock(s, OwnRow(s))
  /\ tx' = [tx EXCEPT ![s].pc = "ready"]
  /\ UNCHANGED <<tables, sent, history>>

(***************************************************************************)
(* Gift codes                                                              *)
(***************************************************************************)
\* The dialog of the admin panel makes a code of n uses.
MakeCode(s, c, n) ==
  /\ tx[s].pc = "ready" /\ tx[s].actor \in Manager
  /\ code[c].status = "absent" /\ lock[c] = Nobody         \* a new id
  /\ Lock(s, {c})
  /\ Load(s, "made", c, n)
  /\ UNCHANGED <<tables, sent, history>>

\* expires_at passes.
CodeExpires(c) ==
  /\ code[c].status = "valid"
  /\ code' = [code EXCEPT ![c].status = "expired"]
  /\ UNCHANGED <<redeemed, banner, sent, lock, history, tx>>

\* Mutant of Usable: one use too many.
OnceMore(c) == code[c].status = "valid" /\ code[c].used <= code[c].max

Usable(c) == code[c].status = "valid" /\ code[c].used < code[c].max

\* redeem_gift_code: read the code and the redemptions of the user.
RedeemLook(s, c) ==
  /\ tx[s].pc = "ready"
  /\ Usable(c)
  /\ redeemed[c][tx[s].actor] = 0
  /\ Load(s, "redeem", c, code[c].used + 1)
  /\ UNCHANGED <<tables, sent, lock, history>>

\* ... and write used_count, in the flush of the commit.
RedeemWrite(s) == Flush(s, "redeem", "redeemed")

(***************************************************************************)
(* Ad banners                                                              *)
(***************************************************************************)
\* create_ad_banner (its payment: see Wallets).
BuyBanner(s, b, n) ==
  /\ tx[s].pc = "ready"
  /\ banner[b].status = "absent" /\ lock[b] = Nobody       \* a new id
  /\ Lock(s, {b})
  /\ Load(s, "paid", b, n)
  /\ UNCHANGED <<tables, sent, history>>

\* get_random_active_banner: an active banner that was shown least.
Least(b) ==
  /\ banner[b].status = "active"
  /\ \A a \in Banner : banner[a].status = "active" => banner[b].shown <= banner[a].shown

\* earn_menu: read the banner ...
ShowLook(s, b) ==
  /\ tx[s].pc = "ready"
  /\ Least(b)
  /\ sent[b] < MaxSent                                     \* named bound
  /\ Load(s, "show", b, banner[b].shown + 1)
  /\ UNCHANGED <<tables, sent, lock, history>>

\* ... record_impression flushes ...
ShowWrite(s) == Flush(s, "show", "counted")

\* ... and the banner is sent to the user.
Show(s) ==
  /\ tx[s].pc = "counted"
  /\ sent' = [sent EXCEPT ![tx[s].item] = @ + 1]
  /\ tx' = [tx EXCEPT ![s].pc = "shown"]
  /\ UNCHANGED <<tables, lock, history>>

(***************************************************************************)
(* The end of a session                                                    *)
(***************************************************************************)
\* Session s ends, and those of D have read what it has written meanwhile.
Ends(s, D) ==
  /\ tx' = [tx EXCEPT ![s] = IdleTx]
  /\ lock' = [k \in Rows |-> IF lock[k] = s THEN Nobody ELSE lock[k]]
  /\ stale' = (stale \cup D) \ {s}
  /\ UNCHANGED sent

\* The commit of the row that session s has written.
Commits(s) ==
  /\ overwritten' = IF s \in stale THEN overwritten \cup {tx[s].item} ELSE overwritten
  /\ Ends(s, {t \in Session : tx[t].item = tx[s].item})

CommitMade(s) ==
  LET t == tx[s]
  IN  /\ t.pc = "made"
      /\ code' = [code EXCEPT ![t.item] = [status |-> "valid", max |-> t.count, used |-> 0]]
      /\ UNCHANGED <<redeemed, banner>>
      /\ Commits(s)

CommitRedeemed(s) ==
  LET t == tx[s]
  IN  /\ t.pc = "redeemed"
      /\ code' = [code EXCEPT ![t.item].used = t.count]
      /\ redeemed' = [redeemed EXCEPT ![t.item][t.actor] = @ + 1]
      /\ UNCHANGED banner
      /\ Commits(s)

\* Mutant of NewBanner: the status is that of a new order.
NewBannerQueued(n) == [status |-> "queued", target |-> n, shown |-> 0]

NewBanner(n) == [status |-> "active", target |-> n, shown |-> 0]

CommitPaid(s) ==
  LET t == tx[s]
  IN  /\ t.pc = "paid"
      /\ banner' = [banner EXCEPT ![t.item] = NewBanner(t.count)]
      /\ UNCHANGED <<code, redeemed>>
      /\ Commits(s)

\* Mutants of Counted: one impression too few, or too many, complete the banner.
CountedEarly(row, n) ==
  [row EXCEPT !.shown = n, !.status = IF n + 1 >= row.target THEN "completed" ELSE @]

CountedLate(row, n) ==
  [row EXCEPT !.shown = n, !.status = IF n > row.target THEN "completed" ELSE @]

Counted(row, n) ==
  [row EXCEPT !.shown = n, !.status = IF n >= row.target THEN "completed" ELSE @]

CommitShown(s) ==
  LET t == tx[s]
  IN  /\ t.pc = "shown"
      /\ banner' = [banner EXCEPT ![t.item] = Counted(@, t.count)]
      /\ UNCHANGED <<code, redeemed>>
      /\ Commits(s)

\* A handler that refuses or writes nothing else, an exception, a crash, a
\* deadlock of row locks.
Abort(s) ==
  /\ tx[s].pc # "idle"
  /\ Ends(s, {})
  /\ UNCHANGED <<tables, overwritten>>

Step(s) ==
  \/ \E u \in User : Receive(s, u)
  \/ TakeRow(s)
  \/ \E c \in Code : RedeemLook(s, c) \/ \E n \in MaxUses : MakeCode(s, c, n)
  \/ \E b \in Banner : ShowLook(s, b) \/ \E n \in Target : BuyBanner(s, b, n)
  \/ RedeemWrite(s) \/ ShowWrite(s) \/ Show(s)
  \/ CommitMade(s) \/ CommitRedeemed(s) \/ CommitPaid(s) \/ CommitShown(s) \/ Abort(s)

Next == (\E s \in Session : Step(s)) \/ \E c \in Code : CodeExpires(c)

Spec == Init /\ [][Next]_vars

(***************************************************************************)
(* Properties                                                              *)
(***************************************************************************)

\* The tables and the sessions have the values the columns and objects allow.
TypeOK ==
  /\ code \in [Code -> [status : {"absent", "valid", "expired"}, max : Nat, used : Nat]]
  /\ redeemed \in [Code -> [User -> Nat]]
  /\ banner \in [Banner -> [status : {"absent", "active", "completed"},
                            target : Nat, shown : Nat]]
  /\ sent \in [Banner -> Nat]
  /\ lock \in [Rows -> Session \cup {Nobody}]
  /\ stale \subseteq Session /\ overwritten \subseteq Item
  /\ tx \in [Session -> Tx]

\* No user redeems a code twice.
GiftOncePerUser == \A c \in Code, u \in User : redeemed[c][u] <= 1

\* Gift codes implement Payouts: however the sessions interleave, a step records
\* the redemption of a code by users who had not redeemed it, or none, and takes
\* none back.  The lock of the user's row is taken before redeem_gift_code looks.
Gift == INSTANCE Payouts
          WITH Claim <- Code \X User,
               paid <- [p \in Code \X User |-> redeemed[p[1]][p[2]]]
GiftSpec == Gift!Spec

\* used_count is the number of redemptions, and they are within max_uses, for a
\* code without a lost update.
Redeemers(c) == {u \in User : redeemed[c][u] > 0}

UsesExactUnlessOverwritten ==
  \A c \in Code \ overwritten :
    Cardinality(Redeemers(c)) = code[c].used /\ code[c].used <= code[c].max

\* Although sessions overwrite each other's counts, and however they are cut
\* short, a banner is completed only after the impressions that its buyer has
\* paid for were sent (record_impression).
BannerDelivered ==
  \A b \in Banner : banner[b].status = "completed" => sent[b] >= banner[b].target

\* A banner without a lost update is completed by the
\* impression that reaches its target, and counts no more.
CompletedAtTarget ==
  \A b \in Banner \ overwritten :
    /\ banner[b].shown <= banner[b].target
    /\ banner[b].status = "completed" => banner[b].shown = banner[b].target
    /\ banner[b].status = "active" => banner[b].shown < banner[b].target
=============================================================================
