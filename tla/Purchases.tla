----------------------------- MODULE Purchases -----------------------------
(***************************************************************************)
(* The shop: purchase requests that an admin approves or rejects           *)
(* (shop_service.py), and the panels they grant (panel_service.py).        *)
(*                                                                         *)
(* A session holds the row of the acting user from UserMiddleware on; the  *)
(* request and its buyer are read without a lock, and locked only when     *)
(* they are written.                                                       *)
(***************************************************************************)
EXTENDS Integers

CONSTANTS
  User, Session,
  Approver,         \* who passes can_handle_support
  Request,          \* the ids the table may give out
  Plan,             \* panel prices
  Package,          \* star packages
  Days,             \* PanelPrice.duration_days
  Tier,             \* PanelPrice.panel_tier_id
  MaxTime,          \* bound on the days the model runs
  Nobody            \* no row

Offer == Plan \cup Package
Rows == User \cup Request
Panel == [tier : {Tier[p] : p \in Plan} \cup {Nobody}, expires : Nat]
NoPanel == [tier |-> Nobody, expires |-> 0]

ASSUME RowAssumption ==
  /\ Nobody \notin Rows \cup Session \cup Offer
  /\ Nobody \notin {Tier[p] : p \in Plan}
  /\ User \cap Request = {} /\ Plan \cap Package = {}
  /\ Approver \subseteq User

ASSUME DaysAssumption ==
  /\ Days \in [Plan -> Nat \ {0}]
  /\ MaxTime \in Nat

VARIABLES
  request,      \* purchase_requests
  panel,        \* User.active_panel_id and panel_expires_at, 0 for none
  decided,      \* history: how often a request was decided
  granted,      \* history: how often what it asks for was given
  bought,       \* history: the days of the panels a user was given
  now,          \* the day
  lock,         \* who holds the lock of a row
  stale,        \* history: <<s, k>> for what session s has loaded of row k and
                \* another session has written since
  overwritten,  \* history: the rows with a lost update: such a copy written back
  tx            \* the state of every session

history == <<decided, granted, bought>>
tables == <<request, panel, history>>
lost == <<stale, overwritten>>
vars == <<tables, now, lock, lost, tx>>

NoRequest == [buyer |-> Nobody, offer |-> Nobody, status |-> "absent"]

Tx == [pc : {"idle", "read", "ready", "approve", "reject",
             "bought", "approved", "rejected"},
       actor : User \cup {Nobody},
       has : SUBSET Rows,               \* the rows it has loaded
       item : Request \cup {Nobody},    \* the request it is about
       offer : Offer \cup {Nobody},     \* what is bought
       panel : [User -> Panel],         \* the panels of the users it has loaded
       expires : Nat]                   \* the buyer's new panel_expires_at

IdleTx == [pc |-> "idle", actor |-> Nobody, has |-> {}, item |-> Nobody,
           offer |-> Nobody, panel |-> [u \in User |-> NoPanel], expires |-> 0]

Init ==
  /\ request = [r \in Request |-> NoRequest]
  /\ panel = [u \in User |-> NoPanel]
  /\ decided = [r \in Request |-> 0] /\ granted = [r \in Request |-> 0]
  /\ bought = [u \in User |-> 0]
  /\ now = 0
  /\ lock = [k \in Rows |-> Nobody]
  /\ stale = {} /\ overwritten = {}
  /\ tx = [s \in Session |-> IdleTx]

(***************************************************************************)
(* Sessions                                                                *)
(***************************************************************************)
\* The state t of a session with the rows of K loaded, and the panels of the
\* users among them.
Loaded(t, K) ==
  [t EXCEPT !.has = @ \cup K,
            !.panel = [u \in User |-> IF u \in K \ t.has THEN panel[u] ELSE @[u]]]

\* Session s loads the rows of K and goes on in state t.
Load(s, t, K) == tx' = [tx EXCEPT ![s] = Loaded(t, K)]

\* Take the locks of the rows of K, or wait for who holds one of them.
Lock(s, K) ==
  /\ \A k \in K : lock[k] \in {s, Nobody}
  /\ lock' = [k \in Rows |-> IF k \in K THEN s ELSE lock[k]]

\* UserMiddleware: read the user ...
Receive(s, u) ==
  /\ tx[s].pc = "idle"
  /\ Load(s, [IdleTx EXCEPT !.pc = "read", !.actor = u], {u})
  /\ UNCHANGED <<tables, now, lock, lost>>

\* ... and write last_active_at before the handler starts.
TakeRow(s) ==
  /\ tx[s].pc = "read"
  /\ Lock(s, {tx[s].actor})
  /\ tx' = [tx EXCEPT ![s].pc = "ready"]
  /\ UNCHANGED <<tables, now, lost>>

(***************************************************************************)
(* Purchases                                                               *)
(***************************************************************************)
\* create_panel_purchase_request and create_star_purchase_request; the number
\* of the buyer has been asked for before.
Buy(s, r, o) ==
  /\ tx[s].pc = "ready"
  /\ request[r].status = "absent" /\ lock[r] = Nobody      \* a new id
  /\ Lock(s, {r})
  /\ Load(s, [tx[s] EXCEPT !.pc = "bought", !.item = r, !.offer = o], {r})
  /\ UNCHANGED <<tables, now, lost>>

\* Mutant of Renewed: the days left are lost.
Restarted(old, days) == now + days

\* grant_panel: the days are added to a panel that has not expired.
Renewed(old, days) == (IF old > now THEN old ELSE now) + days

\* Mutant of Open: a request that was decided is decided again.
Known(r) == request[r].status # "absent"

Open(r) == request[r].status = "pending"

\* approve_purchase up to its flush: read the request and the buyer, and renew
\* the panel if one is bought.
ApproveLook(s, r) ==
  LET u == request[r].buyer
      t == Loaded([tx[s] EXCEPT !.pc = "approve", !.item = r], {r, u})
  IN  /\ tx[s].pc = "ready" /\ tx[s].actor \in Approver
      /\ Open(r)
      /\ tx' = [tx EXCEPT ![s] =
                  IF request[r].offer \in Plan
                  THEN [t EXCEPT !.expires = Renewed(t.panel[u].expires, Days[request[r].offer])]
                  ELSE t]
      /\ UNCHANGED <<tables, now, lock, lost>>

\* ... and the flush, of the buyer and the request.
ApproveWrite(s) ==
  /\ tx[s].pc = "approve"
  /\ Lock(s, {request[tx[s].item].buyer, tx[s].item})
  /\ tx' = [tx EXCEPT ![s].pc = "approved"]
  /\ UNCHANGED <<tables, now, lost>>

\* reject_purchase up to its flush.
RejectLook(s, r) ==
  /\ tx[s].pc = "ready" /\ tx[s].actor \in Approver
  /\ Open(r)
  /\ Load(s, [tx[s] EXCEPT !.pc = "reject", !.item = r], {r})
  /\ UNCHANGED <<tables, now, lock, lost>>

\* ... and the flush.
RejectWrite(s) ==
  /\ tx[s].pc = "reject"
  /\ Lock(s, {tx[s].item})
  /\ tx' = [tx EXCEPT ![s].pc = "rejected"]
  /\ UNCHANGED <<tables, now, lost>>

(***************************************************************************)
(* The end of a session                                                    *)
(***************************************************************************)
\* Session s ends, and the copies of D that are left are out of date.
Ends(s, D) ==
  /\ tx' = [tx EXCEPT ![s] = IdleTx]
  /\ stale' = {p \in stale \cup D : p[1] # s}
  /\ lock' = [k \in Rows |-> IF lock[k] = s THEN Nobody ELSE lock[k]]
  /\ UNCHANGED now

\* The rows that session s writes: its request, and the buyer if a panel is given.
Written(s) ==
  LET r == tx[s].item
  IN  {r} \cup (IF tx[s].pc = "approved" /\ request[r].offer \in Plan
                THEN {request[r].buyer} ELSE {})

\* The copies of these rows in the sessions that have loaded them.
Outdated(s) == {p \in Session \X Rows : p[2] \in tx[p[1]].has /\ p[2] \in Written(s)}

Commits(s) ==
  /\ overwritten' = overwritten \cup {k \in Written(s) : <<s, k>> \in stale}
  /\ Ends(s, Outdated(s))

CommitBought(s) ==
  LET t == tx[s]
  IN  /\ t.pc = "bought"
      /\ request' = [request EXCEPT ![t.item] =
                       [buyer |-> t.actor, offer |-> t.offer, status |-> "pending"]]
      /\ UNCHANGED <<panel, history>>
      /\ Commits(s)

\* Mutant of Granted: the price is stored where the tier belongs.
GrantedPrice(u, old, p, expires) == [tier |-> p, expires |-> expires]

\* The panel of u after a session with the copy old has granted the plan p: a
\* column that was not changed is not written.
Granted(u, old, p, expires) ==
  [tier |-> IF old.tier = Tier[p] THEN panel[u].tier ELSE Tier[p], expires |-> expires]

CommitApproved(s) ==
  LET t == tx[s]
      r == t.item
      u == request[r].buyer
      p == request[r].offer
  IN  /\ t.pc = "approved"
      /\ request' = [request EXCEPT ![r].status = "approved"]
      /\ decided' = [decided EXCEPT ![r] = @ + 1]
      /\ granted' = [granted EXCEPT ![r] = @ + 1]
      /\ \/ /\ p \in Plan
            /\ panel' = [panel EXCEPT ![u] = Granted(u, t.panel[u], p, t.expires)]
            /\ bought' = [bought EXCEPT ![u] = @ + Days[p]]
         \/ /\ p \in Package            \* add_diamonds: see Wallets
            /\ UNCHANGED <<panel, bought>>
      /\ Commits(s)

CommitRejected(s) ==
  LET r == tx[s].item
  IN  /\ tx[s].pc = "rejected"
      /\ request' = [request EXCEPT ![r].status = "rejected"]
      /\ decided' = [decided EXCEPT ![r] = @ + 1]
      /\ UNCHANGED <<panel, granted, bought>>
      /\ Commits(s)

\* A handler that refuses or writes nothing else, an exception, a crash, a
\* deadlock of row locks.
Abort(s) ==
  /\ tx[s].pc # "idle"
  /\ Ends(s, {})
  /\ UNCHANGED <<tables, overwritten>>

Tick ==
  /\ now < MaxTime
  /\ now' = now + 1
  /\ UNCHANGED <<tables, lock, lost, tx>>

Step(s) ==
  \/ \E u \in User : Receive(s, u)
  \/ TakeRow(s)
  \/ \E r \in Request : ApproveLook(s, r) \/ RejectLook(s, r) \/ \E o \in Offer : Buy(s, r, o)
  \/ ApproveWrite(s) \/ RejectWrite(s)
  \/ CommitBought(s) \/ CommitApproved(s) \/ CommitRejected(s) \/ Abort(s)

Next == (\E s \in Session : Step(s)) \/ Tick

Spec == Init /\ [][Next]_vars

(***************************************************************************)
(* Properties                                                              *)
(***************************************************************************)

\* The tables and the sessions have the values the columns and objects allow.
TypeOK ==
  /\ request \in [Request -> [buyer : User \cup {Nobody}, offer : Offer \cup {Nobody},
                              status : {"absent", "pending", "approved", "rejected"}]]
  /\ panel \in [User -> Panel]
  /\ decided \in [Request -> Nat] /\ granted \in [Request -> Nat]
  /\ bought \in [User -> Nat]
  /\ now \in Nat
  /\ lock \in [Rows -> Session \cup {Nobody}]
  /\ stale \subseteq Session \X Rows /\ overwritten \subseteq Rows
  /\ tx \in [Session -> Tx]

\* Until an update of it is lost, a request is decided at most once, and what it
\* asks for is given if and only if it is approved.
DecisionUnlessOverwritten ==
  \A r \in Request \ overwritten :
    /\ decided[r] = (IF request[r].status \in {"approved", "rejected"} THEN 1 ELSE 0)
    /\ granted[r] = (IF request[r].status = "approved" THEN 1 ELSE 0)

\* Until an update of it is lost, a panel runs for all the days that were bought,
\* and no longer (grant_panel).
DaysKeptUnlessOverwritten ==
  \A u \in User \ overwritten :
    /\ bought[u] <= panel[u].expires
    /\ panel[u].expires <= now + bought[u]

(***************************************************************************)
(* What the texts of the bot say of it                                     *)
(***************************************************************************)

\* A request that was decided is not decided again (approve_purchase and
\* reject_purchase, their first answer).
DecidedOnce == \A r \in Request : decided[r] <= 1
=============================================================================
