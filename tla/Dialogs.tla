------------------------------ MODULE Dialogs ------------------------------
(***************************************************************************)
(* The dialogs of the bot: a user answers one question after the other,    *)
(* aiogram keeps the state and the data of the dialog in Redis, and the    *)
(* last answer makes an order (handlers/orders.py), a purchase request     *)
(* (handlers/shop.py), a ticket (handlers/tickets.py) or a gift code       *)
(* (handlers/admin.py).                                                    *)
(*                                                                         *)
(* aiogram reads the state, which decides what handler an update goes to,  *)
(* before the middlewares of the bot run; the session then waits for the   *)
(* row of its user, and the handler reads the data when it has it.  What a *)
(* handler writes to Redis is not undone when its session fails.           *)
(***************************************************************************)
EXTENDS Naturals

CONSTANTS
  User,             \* who talks to the bot, its owner excepted
  Session,
  Type,             \* order_type: members or an ad
  Chat,             \* chats that pass the checks of the bot's rights
  Count,            \* target_count
  Offer,            \* what the shop sells
  Amount,           \* amounts of gift codes
  Token,            \* bounds the previews, forms and reports of a user
  Nobody            \* no value

ASSUME NobodyAssumption ==
  Nobody \notin User \cup Session \cup Type \cup Chat \cup Count \cup Offer \cup Amount \cup Token

VARIABLES
  state,        \* Redis: the state of a user's dialog
  data,         \* Redis: its data
  report,       \* Redis: awaiting_report, Nobody when the key is absent
  phone,        \* users.phone_number is stored
  given,        \* history: the previews, forms and reports a user was given
  used,         \* history: how often each was turned into what it asks for
  shown,        \* history: the order in the last preview of the dialog
  asked,        \* history: the offer the dialog last asked a number for
  awaited,      \* history: the dialog has asked for a ticket
  torn,         \* history: whose dialog was left by a handler that failed in it
  lock,         \* who holds the row of a user
  tx            \* the state of every session

redis == <<state, data, report>>
ghosts == <<given, used, shown, asked, awaited, torn>>
vars == <<redis, phone, ghosts, lock, tx>>

States == {"none", "channel", "count", "confirm", "contact", "ticket", "amount", "uses"}

Order == [type : Type \cup {Nobody}, chat : Chat \cup {Nobody}, count : Count \cup {Nobody}]
NoOrder == [type |-> Nobody, chat |-> Nobody, count |-> Nobody]

Data == [order : Order, preview : Token \cup {Nobody},
         item : Offer \cup {Nobody},
         amount : Amount \cup {Nobody}, form : Token \cup {Nobody}]
NoData == [order |-> NoOrder, preview |-> Nobody, item |-> Nobody,
           amount |-> Nobody, form |-> Nobody]

\* History: an order, request or ticket that the dialog did not lead up to.
Unexpected == {"another order", "another request", "another ticket"}

Tx == [pc : {"idle", "read", "ready", "data", "data last", "state", "state last",
             "tell", "done"},
       actor : User \cup {Nobody},
       raw : States,                \* the state that has chosen the handler
       phone : BOOLEAN,             \* whether it has read a phone number
       sure : BOOLEAN,              \* history: no other update of the user came between
       state : States,              \* the state it writes
       data : Data,                 \* the data it writes
       makes : {"nothing", "preview", "question", "report", "gift",
                "order", "request", "ticket"} \cup Unexpected,
       token : Token \cup {Nobody}] \* the preview, form or report it turns into that

IdleTx == [pc |-> "idle", actor |-> Nobody, raw |-> "none", phone |-> FALSE, sure |-> FALSE,
           state |-> "none", data |-> NoData, makes |-> "nothing", token |-> Nobody]

Init ==
  /\ state = [u \in User |-> "none"] /\ data = [u \in User |-> NoData]
  /\ report = [u \in User |-> Nobody]
  /\ phone = [u \in User |-> FALSE]
  /\ given = [u \in User |-> {}] /\ used = [k \in User \X Token |-> 0]
  /\ shown = [u \in User |-> NoOrder] /\ asked = [u \in User |-> Nobody]
  /\ awaited = [u \in User |-> FALSE] /\ torn = {}
  /\ lock = [u \in User |-> Nobody]
  /\ tx = [s \in Session |-> IdleTx]

(***************************************************************************)
(* Sessions                                                                *)
(***************************************************************************)
\* An update of u comes in: aiogram reads the state of the dialog, and
\* UserMiddleware the user; no handler depends on both.
Receive(s, u) ==
  LET others == {t \in Session : t # s /\ tx[t].actor = u}
  IN  /\ tx[s].pc = "idle"
      /\ tx' = [t \in Session |->
                  IF t = s
                  THEN [IdleTx EXCEPT !.pc = "read", !.actor = u, !.raw = state[u],
                                      !.phone = phone[u], !.sure = (others = {})]
                  ELSE IF t \in others /\ tx[t].pc = "read"
                  THEN [tx[t] EXCEPT !.sure = FALSE]
                  ELSE tx[t]]
      /\ UNCHANGED <<redis, phone, ghosts, lock>>

\* UserMiddleware writes last_active_at before the handler starts.
TakeRow(s) ==
  LET u == tx[s].actor
  IN  /\ tx[s].pc = "read"
      /\ lock[u] = Nobody
      /\ lock' = [lock EXCEPT ![u] = s]
      /\ tx' = [tx EXCEPT ![s].pc = "ready",
                          ![s].sure = @ /\ u \notin torn]
      /\ UNCHANGED <<redis, phone, ghosts>>

\* The state of s when its handler has run up to pc.
Handled(s, pc) == [IdleTx EXCEPT !.pc = pc, !.actor = tx[s].actor, !.sure = tx[s].sure]

\* The handler of s goes on at pc to write the state st and the data d, and to
\* answer with m.
Goes(s, pc, st, d, m) ==
  tx' = [tx EXCEPT ![s] = [Handled(s, pc) EXCEPT !.state = st, !.data = d, !.makes = m]]

\* A mutant of Clears: set_state(None) alone, the data stay.
ClearsState(s, m, k) ==
  tx' = [tx EXCEPT ![s] = [Handled(s, "state last") EXCEPT !.makes = m, !.token = k]]

\* state.clear(), after which the session makes what m says.
Clears(s, m, k) ==
  tx' = [tx EXCEPT ![s] = [Handled(s, "state") EXCEPT !.makes = m, !.token = k]]

\* The user u is given k, a new preview, form or report.
Gives(u, k) ==
  /\ k \notin given[u]
  /\ given' = [given EXCEPT ![u] = @ \cup {k}]

(***************************************************************************)
(* Orders (handlers/orders.py)                                             *)
(***************************************************************************)
\* order_menu; the router of the admins comes first, its questions for a
\* number take every text.
OrderMenu(s) ==
  /\ tx[s].pc = "ready" /\ tx[s].raw \notin {"amount", "uses"}
  /\ Clears(s, "nothing", Nobody)
  /\ UNCHANGED <<redis, phone, ghosts, lock>>

\* cancel_flow, from any state.
Cancel(s) ==
  /\ tx[s].pc = "ready"
  /\ Clears(s, "nothing", Nobody)
  /\ UNCHANGED <<redis, phone, ghosts, lock>>

\* choose_order_type, from any state: the data of an earlier dialog stay.
ChooseType(s, t) ==
  /\ tx[s].pc = "ready"
  /\ Goes(s, "data", "channel", [data[tx[s].actor] EXCEPT !.order.type = t], "nothing")
  /\ UNCHANGED <<redis, phone, ghosts, lock>>

\* receive_channel and receive_count, for a text of MENU_TEXTS.
LeaveByMenu(s) ==
  /\ tx[s].pc = "ready" /\ tx[s].raw \in {"channel", "count"}
  /\ Clears(s, "nothing", Nobody)
  /\ UNCHANGED <<redis, phone, ghosts, lock>>

\* receive_channel; without an order_type in the data it raises.
ReceiveChannel(s, c) ==
  LET d == data[tx[s].actor]
  IN  /\ tx[s].pc = "ready" /\ tx[s].raw = "channel"
      /\ d.order.type # Nobody
      /\ Goes(s, "data", "count", [d EXCEPT !.order.chat = c], "nothing")
      /\ UNCHANGED <<redis, phone, ghosts, lock>>

\* receive_count: the preview is shown when the state is written.
ReceiveCount(s, n) ==
  LET u == tx[s].actor
      d == data[u]
  IN  /\ tx[s].pc = "ready" /\ tx[s].raw = "count"
      /\ d.order.type # Nobody
      /\ \E k \in Token :
           /\ Gives(u, k)
           /\ Goes(s, "data", "confirm", [d EXCEPT !.order.count = n, !.preview = k],
                   "preview")
      /\ UNCHANGED <<redis, phone, used, shown, asked, awaited, torn, lock>>

Complete(o) == Nobody \notin {o.type, o.chat, o.count}

\* A mutant of Confirm, without the filter of the state.
ConfirmAnywhere(s) ==
  LET u == tx[s].actor
      d == data[u]
  IN  /\ tx[s].pc = "ready"
      /\ \/ /\ Complete(d.order)
            /\ Clears(s, IF d.order = shown[u] THEN "order" ELSE "another order", d.preview)
         \/ Clears(s, "nothing", Nobody)
      /\ UNCHANGED <<redis, phone, ghosts, lock>>

\* confirm_order: the order is made of the data, or refused, or the data are
\* incomplete; the dialog is over in each case.
Confirm(s) ==
  LET u == tx[s].actor
      d == data[u]
  IN  /\ tx[s].pc = "ready" /\ tx[s].raw = "confirm"
      /\ \/ /\ Complete(d.order)
            /\ Clears(s, IF d.order = shown[u] THEN "order" ELSE "another order", d.preview)
         \/ Clears(s, "nothing", Nobody)
      /\ UNCHANGED <<redis, phone, ghosts, lock>>

\* on_report_order: the key is set when the question was sent.
AskReport(s) ==
  LET u == tx[s].actor
  IN  /\ tx[s].pc = "ready"
      /\ \E k \in Token : Gives(u, k) /\ report' = [report EXCEPT ![u] = k]
      /\ tx' = [tx EXCEPT ![s] = Handled(s, "done")]
      /\ UNCHANGED <<state, data, phone, used, shown, asked, awaited, torn, lock>>

\* The states whose handlers come before the filter of the reports.
BeforeReport == {"amount", "uses", "channel", "count"}

\* capture_report: the key is deleted, then the message goes to the owner.
CaptureReport(s) ==
  LET u == tx[s].actor
  IN  /\ tx[s].pc = "ready" /\ tx[s].raw \notin BeforeReport
      /\ report[u] # Nobody
      /\ report' = [report EXCEPT ![u] = Nobody]
      /\ tx' = [tx EXCEPT ![s] = [Handled(s, "tell") EXCEPT !.makes = "report",
                                                           !.token = report[u]]]
      /\ UNCHANGED <<state, data, phone, ghosts, lock>>

\* The key expires after ten minutes.
ExpireReport(u) ==
  /\ report[u] # Nobody
  /\ report' = [report EXCEPT ![u] = Nobody]
  /\ UNCHANGED <<state, data, phone, ghosts, lock, tx>>

(***************************************************************************)
(* The shop (handlers/shop.py)                                             *)
(***************************************************************************)
\* on_buy_plan and on_buy_stars: the request, or the question for the number.
Buy(s, o) ==
  LET u == tx[s].actor
  IN  /\ tx[s].pc = "ready"
      /\ \/ /\ tx[s].phone
            /\ tx' = [tx EXCEPT ![s] = Handled(s, "done")]     \* see Purchases
         \/ /\ ~tx[s].phone
            /\ Goes(s, "state", "contact", [data[u] EXCEPT !.item = o], "question")
      /\ UNCHANGED <<redis, phone, ghosts, lock>>

\* on_contact_received: the number is stored and the request is made of the
\* data as they were before the dialog was cleared.
Contact(s) ==
  LET u == tx[s].actor
  IN  /\ tx[s].pc = "ready" /\ tx[s].raw = "contact"
      /\ report[u] = Nobody
      /\ Clears(s, IF data[u].item = asked[u] THEN "request" ELSE "another request", Nobody)
      /\ UNCHANGED <<redis, phone, ghosts, lock>>

(***************************************************************************)
(* Tickets (handlers/tickets.py) and gift codes (handlers/admin.py)        *)
(***************************************************************************)
\* start_ticket: the state is written, the data stay.
StartTicket(s) ==
  /\ tx[s].pc = "ready" /\ tx[s].raw \notin BeforeReport \cup {"contact"}
  /\ report[tx[s].actor] = Nobody
  /\ Goes(s, "state last", "ticket", data[tx[s].actor], "nothing")
  /\ UNCHANGED <<redis, phone, ghosts, lock>>

\* submit_ticket: it needs no data, only the state that was read.
SubmitTicket(s) ==
  LET u == tx[s].actor
  IN  /\ tx[s].pc = "ready" /\ tx[s].raw = "ticket"
      /\ report[u] = Nobody
      /\ Clears(s, IF awaited[u] THEN "ticket" ELSE "another ticket", Nobody)
      /\ UNCHANGED <<redis, phone, ghosts, lock>>

\* admin_giftcode_start.
GiftStart(s) ==
  /\ tx[s].pc = "ready"
  /\ Goes(s, "state last", "amount", data[tx[s].actor], "nothing")
  /\ UNCHANGED <<redis, phone, ghosts, lock>>

\* A mutant of GiftAmount, which stores its two values the wrong way round.
GiftSwapped(s, a) ==
  LET u == tx[s].actor
  IN  /\ tx[s].pc = "ready" /\ tx[s].raw = "amount"
      /\ \E k \in Token :
           /\ Gives(u, k)
           /\ Goes(s, "data", "uses", [data[u] EXCEPT !.amount = k, !.form = a],
                   "nothing")
      /\ UNCHANGED <<redis, phone, used, shown, asked, awaited, torn, lock>>

\* admin_giftcode_amount.
GiftAmount(s, a) ==
  LET u == tx[s].actor
  IN  /\ tx[s].pc = "ready" /\ tx[s].raw = "amount"
      /\ \E k \in Token :
           /\ Gives(u, k)
           /\ Goes(s, "data", "uses", [data[u] EXCEPT !.amount = a, !.form = k],
                   "nothing")
      /\ UNCHANGED <<redis, phone, used, shown, asked, awaited, torn, lock>>

\* admin_giftcode_uses: the dialog is cleared before the amount is looked for.
GiftUses(s) ==
  LET d == data[tx[s].actor]
  IN  /\ tx[s].pc = "ready" /\ tx[s].raw = "uses"
      /\ \/ d.amount # Nobody /\ Clears(s, "gift", d.form)
         \/ d.amount = Nobody /\ Clears(s, "nothing", Nobody)
      /\ UNCHANGED <<redis, phone, ghosts, lock>>

(***************************************************************************)
(* What a handler does to Redis, and what it tells the user                *)
(***************************************************************************)
\* set_data; with no data left the dialog is over.
WriteData(s) ==
  LET t == tx[s]
      u == t.actor
  IN  /\ t.pc \in {"data", "data last"}
      /\ data' = [data EXCEPT ![u] = t.data]
      /\ \/ /\ t.data = NoData
            /\ shown' = [shown EXCEPT ![u] = NoOrder] /\ asked' = [asked EXCEPT ![u] = Nobody]
            /\ awaited' = [awaited EXCEPT ![u] = FALSE] /\ torn' = torn \ {u}
         \/ t.data # NoData /\ UNCHANGED <<shown, asked, awaited, torn>>
      /\ tx' = [tx EXCEPT ![s].pc = IF @ = "data" THEN "state last" ELSE "tell"]
      /\ UNCHANGED <<state, report, phone, given, used, lock>>

\* set_state.
WriteState(s) ==
  LET t == tx[s]
  IN  /\ t.pc \in {"state", "state last"}
      /\ state' = [state EXCEPT ![t.actor] = t.state]
      /\ awaited' = [awaited EXCEPT ![t.actor] = @ \/ t.state = "ticket"]
      /\ tx' = [tx EXCEPT ![s].pc = IF @ = "state" THEN "data last" ELSE "tell"]
      /\ UNCHANGED <<data, report, phone, given, used, shown, asked, torn, lock>>

\* The answer to the user, or the report to the owner.
Tell(s) ==
  LET t == tx[s]
      u == t.actor
  IN  /\ t.pc = "tell"
      /\ shown' = [shown EXCEPT ![u] = IF t.makes = "preview" THEN t.data.order ELSE @]
      /\ asked' = [asked EXCEPT ![u] = IF t.makes = "question" THEN t.data.item ELSE @]
      /\ used' = [k \in User \X Token |->
                    IF t.makes = "report" /\ k = <<u, t.token>> THEN used[k] + 1 ELSE used[k]]
      /\ tx' = [tx EXCEPT ![s].pc = "done"]
      /\ UNCHANGED <<redis, phone, given, awaited, torn, lock>>

(***************************************************************************)
(* The end of a session                                                    *)
(***************************************************************************)
Ends(s) ==
  /\ tx' = [tx EXCEPT ![s] = IdleTx]
  /\ lock' = [u \in User |-> IF lock[u] = s THEN Nobody ELSE lock[u]]

Commit(s) ==
  LET t == tx[s]
      u == t.actor
  IN  /\ t.pc = "done"
      /\ used' = [k \in User \X Token |->
                    IF t.makes \in {"order", "another order", "gift"} /\ k = <<u, t.token>>
                    THEN used[k] + 1 ELSE used[k]]
      /\ phone' = [phone EXCEPT ![u] = @ \/ t.makes \in {"request", "another request"}]
      /\ Ends(s)
      /\ UNCHANGED <<redis, given, shown, asked, awaited, torn>>

\* An exception, a refusal that writes nothing, a crash: the database forgets
\* the session, Redis does not.
Abort(s) ==
  /\ tx[s].pc # "idle"
  /\ torn' = IF tx[s].pc \in {"data last", "state last", "tell"}
                /\ tx[s].makes # "report"
             THEN torn \cup {tx[s].actor} ELSE torn
  /\ Ends(s)
  /\ UNCHANGED <<redis, phone, given, used, shown, asked, awaited>>

Handle(s) ==
  \/ OrderMenu(s) \/ Cancel(s) \/ LeaveByMenu(s) \/ Confirm(s)
  \/ \E t \in Type : ChooseType(s, t)
  \/ \E c \in Chat : ReceiveChannel(s, c)
  \/ \E n \in Count : ReceiveCount(s, n)
  \/ AskReport(s) \/ CaptureReport(s)
  \/ \E o \in Offer : Buy(s, o)
  \/ Contact(s) \/ StartTicket(s) \/ SubmitTicket(s)
  \/ GiftStart(s) \/ GiftUses(s) \/ \E a \in Amount : GiftAmount(s, a)

Step(s) ==
  \/ \E u \in User : Receive(s, u)
  \/ TakeRow(s) \/ Handle(s)
  \/ WriteData(s) \/ WriteState(s) \/ Tell(s)
  \/ Commit(s) \/ Abort(s)

Next == (\E s \in Session : Step(s)) \/ (\E u \in User : ExpireReport(u))

Spec == Init /\ [][Next]_vars

(***************************************************************************)
(* Properties                                                              *)
(***************************************************************************)

\* Redis, the phone and the sessions have the values the code can give them.
TypeOK ==
  /\ state \in [User -> States] /\ data \in [User -> Data]
  /\ report \in [User -> Token \cup {Nobody}]
  /\ phone \in [User -> BOOLEAN]
  /\ given \in [User -> SUBSET Token]
  /\ used \in [User \X Token -> Nat]
  /\ shown \in [User -> Order] /\ asked \in [User -> Offer \cup {Nobody}]
  /\ awaited \in [User -> BOOLEAN] /\ torn \subseteq User
  /\ lock \in [User -> Session \cup {Nobody}]
  /\ tx \in [Session -> Tx]

\* Dialogs implements Payouts: a preview is turned into an order, a form into
\* a gift code and a question for a report into a report at most once, however
\* often the user presses and whatever fails (confirm_order,
\* admin_giftcode_uses, capture_report).
Answers == INSTANCE Payouts WITH Claim <- User \X Token, paid <- used
AnswersSpec == Answers!Spec

\* What a dialog ends with is what it led up to: the order confirmed is the one
\* in its last preview (confirm_order takes it from the data, the preview only
\* shows them), the number sent completes the request it was asked for
\* (on_contact_received), and one ticket is made (submit_ticket); unless
\* another update of the user came between, or a handler had failed in the
\* middle of the dialog.
EndsAsExpected == \A s \in Session : tx[s].sure => tx[s].makes \notin Unexpected
=============================================================================
