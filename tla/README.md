# TLA+ models of Star-bot

Star-bot is a Telegram bot (aiogram, SQLAlchemy on PostgreSQL, Redis, Celery) in which users earn
"stars" by joining channels, spend them on orders for members and on ads, invite others, redeem gift
codes and buy panels from admins. Nearly everything that can go wrong in it goes wrong between
sessions: each update is handled in a transaction of its own, reads rows without locks, computes in
memory, waits on Telegram in between, and writes sums. The models are about that.

## 1. How the program runs

These rules hold in every module; the code they come from is in brackets.

* **A session per update.** aiogram handles every update in an asyncio task of its own;
  `DatabaseMiddleware` opens a session around it, and the session commits when the handler returns
  and rolls back when it raises [`bot/middlewares.py:15`, `database.py:25`]. The isolation is
  Postgres' default, READ COMMITTED. The recheck of the worker is one long session without any
  middleware [`tasks/order_tasks.py:20`].
* **Read first, lock later.** `UserMiddleware` reads the acting user, and with them the wallet
  (`lazy="selectin"`), then sets `last_active_at`; the next query flushes that and takes the row
  lock of the user [`bot/middlewares.py:39-52`]. A session that has to wait for the lock goes on
  with the values it read *before* it waited: the identity map does not refresh loaded objects.
  The models split every update into *Receive* (read) and *TakeRow* (lock).
* **What follows.** Handlers of one user run one after the other from *TakeRow* on. Whatever a
  handler queries after that is up to date as far as only that user's sessions write it; what it
  has read before is not. This is the only mutual exclusion there is: no table has a unique
  constraint for joins, redemptions, referrals or claims, and no query says `FOR UPDATE`.
* **Sums are written, not added.** `row.count += 1` reads, adds and writes the sum in a later flush;
  a flush writes the changed columns only. Updates of two sessions to one column are lost, those to
  different columns of a row are not.
* **Telegram comes before the commit.** Posts, edits and messages are sent inside the session and
  stay when it is rolled back. `chat_member` updates are dropped with all pending updates when the
  bot starts [`bot/main.py:54`], and each runs as the user who *caused* the change, which is not
  the member when an administrator removed them.
* **Failures.** An exception, a crash and a deadlock that Postgres breaks are one action, *Abort*.
* **Redis is outside of the transaction.** aiogram reads the state of a dialog before the middlewares
  run, and what a handler writes to Redis stays when its session is rolled back. `Dialogs` and
  `Broadcasts` are about that.

A counter of a row need not be exact once an update of the row was lost: a session has written it
from a copy that another session had made outdated. The modules keep such rows in a history variable
`overwritten`, and state what is exact for the others (`...UnlessOverwritten`) next to what survives
even lost updates. So they say that lost updates are the *only* cause of wrong counters: neither
failures nor any other overlap of sessions is, and `SELECT ... FOR UPDATE` or a version column, which
refuse just these commits, would be enough. This is the line between what the code guarantees and
what it does not; the findings (section 5) are on the far side of it. Where a session's copy can be
compared with the table when it commits, outdated means that they differ (`Sponsors`, `Accounts`);
elsewhere a second variable, `stale`, remembers which copies another commit has made outdated
(`OrdersHistory`, `Wallets`, `Purchases`, `Promotions`). In `Broadcasts` the question is not of lost
updates but of a user whose messages are in two sessions at a time, kept in `shared`.

## 2. Inventory

| Component | State | Operations | What is hard, what makes it correct |
|---|---|---|---|
| Member orders (`order_service`, `handlers/orders`) | `orders`, `participations`, the collector post | create, post, click, complete, leave, refill | rewards once; progress = participants; status follows progress; the post shows what can be joined |
| Recheck (`order_tasks`, beat) | none of its own | every 15 min. ask Telegram for participants | finds the leaves whose updates were lost |
| Leave events (`chat_member_events`) | none | orders part, then sponsors part | races with the recheck, lost updates |
| Referrals, missions, achievements | `referrals`, progress and achievement rows | register, reward when earned | paid once, across sessions of several referees |
| Wallets (`wallet_service`) | balance, lifetime total, receipts | credit, spend, penalize | receipts add up; no overdraft; lost updates |
| Daily reward (`handlers/earn`) | `last_daily_claim` | claim | once a day |
| Shop, panels | requests, panel and its expiry | request, approve, reject, renew | decided once; days kept |
| Gift codes | `used_count`, redemptions | make, expire, redeem | once per user; no more uses than allowed |
| Ad banners | `shown_count`, status | buy, show, complete | impressions paid for are sent |
| Sponsor channels (`force_sub_service`) | channels, joins | gate, leave, switch on and off | one open join; leaves found; one penalty |
| Registration, `/start` | `users`, `wallets`, `referrals` | first message, `/start` with a link | two first messages at a time; one referrer for ever |
| Moderation | warnings, bans, `admin_logs` | `/warn`, `/unwarn`, `/ban`, `/unban` | lost warnings; a stale copy that undoes a ban |
| Roles (`admin_service`) | `admin_users` | `/addadmin`, `/removeadmin`, asked by each handler | a role read twice in a session |
| Trust (`vip_trust_service`) | `trust_score`, a Redis counter | penalties; the limit on clicks | lost penalties; crash between INCR and EXPIRE |
| Broadcast (`broadcast_tasks`) | state in Redis, `broadcast_jobs` | ask, send to all, report | skipped recipients, double start, a session that runs for minutes |
| Dialogs (FSM) | state and data in Redis | steps of each dialog | state tested before the lock, cleared before the commit, kept by a rollback |
| Reports of orders | a key in Redis for ten minutes | ask, capture | captured in the middle of a dialog |
| Tickets, buttons, texts, settings, profile, health | rows, no rules across them | read, write | opening a ticket is a dialog; for the rest nothing a model would add |

Interaction: handlers call services in their session; `order_service` calls referrals, missions,
achievements and wallets; a dialog ends in one of these handlers; the leave handler serves orders and
sponsors; the gate runs before every handler of a message or a button. `PROJECT.json` lists the components with their files, and the
hazards with their lines.

## 3. Modules

| Module | Models | Main state |
|---|---|---|
| `Payouts` | abstract: every claim is paid at most once, a transaction pays a set of unpaid claims | `paid` |
| `Orders` | orders, clicks, leaves, refills, recheck, post, referral and bonus rewards | `order`, `paid`, `charged`, `post`, `member`, `events`, `lock`, `tx` |
| `OrdersHistory` | `Orders` with the orders that have a lost update | `stale`, `overwritten` |
| `Wallets` | balances and receipts under every handler that pays, charges or fines | `balance`, `earned`, `last`, receipts, `lock`, `tx` |
| `Purchases` | purchase requests and panels | `request`, `panel`, `lock`, `tx` |
| `Promotions` | gift codes and ad banners | `code`, `redeemed`, `banner`, `sent`, `lock`, `tx` |
| `Sponsors` | sponsor channels: gate, joins, leaves, penalties | `sponsor`, `join`, `fines`, `member`, `events`, `lock`, `tx` |
| `Dialogs` | the dialogs for an order, a purchase, a ticket, a gift code, a report | `state`, `data`, `report` (Redis), `lock`, `tx`, histories |
| `Accounts` | first messages, invitations, warnings, bans, trust, roles | `known`, `user`, `role`, `referral`, `log`, `lock`, `tx` |
| `Broadcasts` | a broadcast from the question to the report | `awaiting`, `got`, `job`, `lock`, `tx` |
| `MC*` | the instances TLC checks | |
| `*Proofs` | the theorems and their proofs | |

`tx[s]` is the state of session `s`: where it is in its handler (`pc`), what it has loaded and how
it has changed it. `lock[k]` is who holds the lock of row `k`. An action is the part of a handler
between two points where another session may run: a query whose answer matters, a flush that takes a
lock, a message to Telegram that others can see, the commit. `PROJECT.json`, "map", gives the lines
of every definition.

**Orders.** `PlaceOrder` is `create_order` with its payment and commission, `PostOrder` and
`PostFails` the two ends of `confirm_order`; `ClickLook`, `ClickReferral`/`ClickNoReferral`,
`ClickCount`/`ClickComplete` are `handle_collector_click` cut at its awaits; `LeftUpdate`,
`LeftFound`, `LeftSkip`, `LeftMark` are `handle_member_left`, called by an update or by the recheck
(`RecheckStart`, `RecheckOrder`, `RecheckStays`, `RecheckGone`). Abstracted: prices and balances (see
`Wallets`), texts, who invited whom (a constant; `register_referral` sets it once), refusals for a
ban, low trust or the rate limit, which write nothing. Editing a post may fail and is ignored, as in
the code. `Channel`s are joined only by those whose join can be rewarded. `Deadlocked(s)` lets
Postgres pick a victim when sessions wait for each other. The constant `Failing` says what else may
fail: the `"bot"` (its sessions end anywhere, and at a restart it drops the pending updates), the
`"worker"` (its recheck ends anywhere), and the `"post"` of a new order, which Telegram may refuse.

`OrdersHistory` adds the two history variables to `Next` as a whole, so that `Orders` itself stays what
the code does: a session that commits a row of an order, or a participation of it, makes the copies
of the order in other sessions `stale`, and if its own was stale the order is `overwritten`.

**Wallets.** The handlers differ only in what they pay and to whom: `ClaimDaily`, `Earn` (join,
mission, achievement, gift), `Pay` (order, banner), then perhaps the referrer (`FetchReferrer`,
`CreditOther`), `/adjustwallet`, and `FetchLeaver`/`FineLeaver` for leaves. Other users are loaded by
`session.get` without a lock, so their copies are the stale ones.

**Purchases.** `ApproveLook` is `approve_purchase` up to its flush, `ApproveWrite` the flush that
locks buyer and request. `Granted` keeps the tier of another session when this one did not change
it, as a flush writes changed columns only. The catalogue is constant. The dialog for the phone
number comes before `Buy`.

**Promotions.** A redemption and an impression both read a counter, add one and write it.
`Show` comes after the flush and before the commit, so a crash leaves impressions that were sent
and not counted, never the reverse. Expiry is a status, because only its order with other steps
matters.

**Sponsors.** The gate asks Telegram channel by channel (`GateMember`, `GateOther`) and records joins
as it goes; a leave is looked up (`LeftLook`) and closed (`LeftWrite`). Age of a join is the flag
`early`; the sum charged is in `Wallets` and taken to be positive. Leaves caused by administrators run
under *their* row, and are collected in `missed` together with dropped and failed updates, because
nothing handles those again.

**Dialogs.** A handler is cut at its writes to Redis (`WriteData`, `WriteState`) and at its answer
(`Tell`), in the order of each handler: most write the data first and then the state, the shop's
question and `state.clear()` the state first. `Abort` between any two of them leaves what was written,
and puts the user in `torn`. Which handler an update reaches is decided by the state that was read at *Receive* and by the
order of the routers (admin, orders and its reports, shop, tickets). What a dialog shows and asks is kept in
the histories `shown`, `asked`, `awaited`, so that what it ends with can be compared with them.
A preview, a form and a question for a report carry a token of their own, which the code does not
have; no guard looks at its value. What `Confirm` and `Contact` do to the tables is in `Orders`,
`Promotions` and `Purchases`. Further dialogs of one question (a direct message, a setting, a text)
only write a row.

**Accounts.** A row has four columns that count (`standing`, `warnings`, `referrer`, `trust`), and a
flush writes those a session has changed (`Written`). `Register`/`RegisterFails` are the two ends of an
INSERT of the same key, `Start` is `/start ref_`, `Flagged` and `Recheck` are the two callers of
`adjust_trust`. Standing, trust, role and referrer change only for the rows in `Subject`.

**Broadcasts.** `Text` takes the recipients at once, as the query does, and tries them one by one.
`Send` is a call that returned. `SendFails` is one that raised: the text may have arrived all the
same, as `except Exception` [`broadcast_tasks.py:40`] takes a timeout like a refusal. `SendSkipped` is
`TelegramRetryAfter`: the bot waits and goes on with the next user, so that user is not sent the text
and not counted. `told` keeps the reports that admins were shown (`Tell`), also of jobs whose
session is rolled back after it. A text is taken from whoever was asked, even if they are no longer
an admin: the handler does not ask the role again.

## 4. Runs

| Run | Instance | Shows |
|---|---|---|
| `orders_concurrent` | 2 sessions, 1 order of target 1, owner and 2 clickers invited by the owner, 1 recheck, no group, nothing fails; with the histories | lock discipline, only leavers are charged, open orders have buttons, counters and charges exact until an update is lost |
| `orders_channels` | 2 sessions, 2 orders of target 1 for one channel, 2 joins for a referrer | **violation** `ReferralByChannels` |
| `orders_found` | 2 sessions, owner and a participant invited by the owner, 2 orders (targets 2 and 1) for one group, an achievement, crashes of the bot, dropped updates, refused posts, deadlocks, fairness | liveness: leavers are charged; implements `Payouts` |
| `orders_progress` | as `orders_concurrent`, target 2 | **violation** `ProgressExact` |
| `wallets_concurrent` | 2 sessions, user and admin who invited them, sums 1, 2 days, 3 receipts of the user, 1 of the admin | bounds, exact ledger, daily reward |
| `wallets_daily` | the same | **violation** `DailyOnce` |
| `purchases_concurrent` | 2 sessions, 2 admins who also buy, 2 requests, 2 panels, 1 package, 1 day | decided once, days kept |
| `promotions_concurrent` | 2 sessions, 2 users, 1 code of 1 or 2 uses, 2 banners of 2 impressions, 3 messages | codes implement `Payouts`; uses, impressions |
| `sponsors_concurrent` | 2 sessions, 1 user, 1 admin, 1 channel, 2 joins | one open join, leaves found, one penalty |
| `dialogs_concurrent` | 2 sessions of one user, all dialogs, two types of order, two offers, 2 tokens | implements `Payouts`; a dialog ends with what it led up to |
| `accounts_concurrent` | 2 sessions, owner and a user who are new, a third who invites, 3 warnings, trust 3 and penalties of 2, the role "full" | warnings, bans, trust, one referrer |
| `broadcasts_fair` | 2 sessions of an admin, 1 broadcast, 2 recipients, fairness | report, one text per question, everybody is answered |

**Bounds.** Two sessions suffice for every race above: a lost update, a stale read and a double
decision each need one session between another's read and write. Two orders suffice for a claim of
one order to be confused with another's, and for a deadlock: a leave locks order and user, then the
next order. Two joins suffice for a second open join, two days for a reward of yesterday. Two
referees of one referrer at a time are not in a run of rewards; the theorem
`OrdersImplementPayouts` has them.
Named bounds are `MaxChecks` and `CheckLimit` (of the code), `MaxTurnover`, `MaxDay`, `MaxTime`,
`MaxSent`, `MaxWarnings`, `MaxLost` and the sizes of the sets of ids. In `Wallets` three receipts of
the user are what a payment from an outdated balance takes: a credit, a payment committed by another
session in between, and the payment. In `Dialogs` the rows of other users matter to nobody, so one
user has both sessions, and `Token` has one preview to spend and one to confuse it with. In
`Accounts` trust is 3 and a penalty 2: the first penalty leaves some trust, the second meets the
floor, and a row that lost one of them is told from a row that has both; three warnings reach the
ban. The run gives the role "full" only, which is the one that reads and writes what "support" does
and more. In `Broadcasts` one of the two recipients is the admin, who may be banned before the
broadcast; a second text on the same question is possible in the run when the session of the first
crashed before it sent anything, and the theorems have any number of broadcasts.
The target 1 of `orders_concurrent` makes the edges meet: the join that completes the order, the
leave that opens it again, and a second click that finds it full. Symmetry is used in safety runs
only, over values the instances treat alike; not in `orders_found` and `broadcasts_fair`. Deadlock
checking is on everywhere: some user can always write to the bot.

**Fairness** (`orders_found`). `FairSpec` asks that a session that can go on again and again does
(asyncio resumes coroutines, Postgres grants locks in turn), and that rechecks start (beat's
schedule, `celery_app.py`). The fairness is strong because a session loses its turn each time
another takes the lock it waits for. Being picked as the victim of a deadlock counts as going on:
Postgres looks for one after `deadlock_timeout` and ends a session, and without that two sessions that
wait for each other's rows would be a counterexample to `LeaverFound`, which this instance reaches.
Nothing is assumed of users, of the delivery of updates or of the bot, whose sessions may crash at
any point: `Failing` is `{"bot", "post"}`. Only the worker has to run and Telegram to answer it when
it asks who is a member; a recheck that crashed every time would charge nobody. The one participant
is within `limit(10)`.

**Fairness** (`broadcasts_fair`). `SF_vars(Proceed(s))`: a session that has begun takes its next step
if it is able to again and again, for the same reasons. Handlers are not in `Proceed`: a session
whose handler does nothing commits. Nothing is assumed of `Send` against `SendFails` and
`SendSkipped`.

**Mutants.** Each property of a passing run has a mutant, a plausible bug in a mapped definition
(`Mutant of ...` in the modules), which the run rejects.

## 5. Findings

Three runs end in a violation of what a text of the repository says:

1. `ProgressExact`: two clicks at a time count as one (`order_service.py:266`); the order takes more
   members than were paid for.
2. `DailyOnce`: two presses at a time are paid twice (`handlers/earn.py:54`): `last_daily_claim` was
   read before the row was locked. Contrast `PaidOnce`, which holds because joins are queried
   *after* it.
3. `ReferralByChannels`: the texts pay the inviter for a referee who has joined N *channels*
   (`README.md:109`, `referral_service.py:1-3`, `handlers/referral.py:31`, `handlers/start.py:45`); the
   code counts rewarded participations, one per order (`referral_service.py:45`), and a channel may
   have several orders. The run pays for two orders of one channel. What the code counts it counts
   right: `ReferralEarned`, of orders, is a theorem (`ReferralsEarned`).

Met while modelling, stated or noted without a run:

* `PaidOrderPosted` (`Orders`): a failed post leaves the order paid and queued for ever
  (`handlers/orders.py:178`), as the exception is swallowed and the session commits. That this is the
  only way is proved: where Telegram takes every post the property holds, whatever crashes
  (`PaidOrdersPosted`).
* The report of a broadcast names the recipients it sent to, those it failed to and the total, which
  need not add up: a user skipped on `TelegramRetryAfter` is in neither (`broadcast_tasks.py:35`), and one
  whose message arrived although the call raised is among the failures (`:40`). `BroadcastReport` says
  what the numbers do mean.
* `DecidedOnce` (`Purchases`): two admins can decide one request (`shop_service.py:46`).
* `OneActivePerChannel` and `AtMostMaxActive` (`Orders`) fail with two sessions (tests before inserts),
  and with one as well: a completed order that starts refilling joins one placed meanwhile.
* `ChargedLeft` (and its theorem) promises less of a group: the recheck takes a restricted member for one who left
  (`order_tasks.py:55`), `chat_member_events.py:15` does not.
* `LeaverFound` fails with more participants than the recheck's limit (`order_tasks.py:47`).
* The post is sent before the commit (`order_service.py:187`): a crash in between leaves a post whose
  order is still queued. A buyer is told of an approval before it commits (`shop_service.py:73`).
* `/delpanel` hides a tier whose prices are still listed and sold (`handlers/admin.py:641`).

## 6. Proofs

tlapm checks every theorem for any number of users, sessions and rows. Assumed are only the named
`ASSUME`s of the modules: constants have their sorts, ids of users and orders differ, `Nobody` is
none of them, amounts and targets are positive, users are finite where they are counted.

| Theorem | States |
|---|---|
| `OrdersProofs!TypeCorrect`, `Discipline`, `OrdersImplementPayouts`, `NeverPaidTwice` | `TypeOK`, `LockDiscipline`, `PayoutSpec`, `PaidOnce` |
| `OrdersProofs!OnlyLeaversCharged`, `ReferralsEarned` | `ChargedLeft`, `ReferralEarned` |
| `OrdersProofs!CountsExact`, `LeavesOnceUnlessOverwritten`, of `HSpec`; `HistoryWatches`: `HSpec => Spec` | `CountsExactUnlessOverwritten`, `ChargedOnceUnlessOverwritten` |
| `OrdersProofs!OpenOrdersShown`, where no process crashes (`Failing \subseteq {"post"}`) | `OpenOrderHasButtons` |
| `OrdersProofs!PaidOrdersPosted`, where Telegram takes every post (`"post" \notin Failing`) | `PaidOrderPosted` |
| `OrdersProofs!HandlersEnd` | every step of a handler ends it or brings it nearer to its end |
| `WalletsProofs!WalletsTypeCorrect`, `NeverOverdrawn`, `ExactLedger`, `OneDailyReward` | `TypeOK`, `BalanceBounded`, `ExactUnlessOverwritten`, `DailyOnceUnlessOverwritten` |
| `PurchasesProofs!PurchasesTypeCorrect`, `DecidedAndGranted`, `DaysKept` | `TypeOK`, `DecisionUnlessOverwritten`, `DaysKeptUnlessOverwritten` |
| `PromotionsProofs!PromotionsTypeCorrect`, `GiftsImplementPayouts`, `RedeemedOnce`, `UsesExact` | `TypeOK`, `GiftSpec`, `GiftOncePerUser`, `UsesExactUnlessOverwritten` |
| `PromotionsProofs!PaidImpressionsSent`, `CompletedExactly` | `BannerDelivered`, `CompletedAtTarget` |
| `SponsorsProofs!SponsorsTypeCorrect`, `NeverTwoOpenJoins`, `EveryLeaverFound`, `OnePenalty` | `TypeOK`, `OneOpenJoin`, `LeaversFound`, `PenalisedOnceUnlessOverwritten` |
| `DialogsProofs!SpecTypeOK`, `SpecAnswers`, `SpecEndsAsExpected` | `TypeOK`, `AnswersSpec`, `EndsAsExpected` |
| `AccountsProofs!SpecTypeOK`, `SpecWarnings`, `SpecBanned`, `SpecTrust` | `TypeOK`, `WarningsLoggedUnlessOverwritten`, `BannedAtThreeUnlessOverwritten`, `TrustExactUnlessOverwritten` |
| `AccountsProofs!SpecReferralKept`, `SpecBansLifted` | `ReferralKept`, `BansLiftedByUnban` |
| `BroadcastsProofs!SpecTypeOK`, `SpecReport`, `SpecOneText` | `TypeOK`, `BroadcastReport`, `OneTextPerAskUnlessShared` |

The arguments:

* **Orders.** The invariant is `LockDiscipline`: a session holds the rows of its actor and of
  everybody it is about to pay, those claims are unpaid, and it holds the orders it has changed. A
  claim `<<kind, u, x>>` is paid only under `u`'s row, so nobody else can pay it until the commit,
  and the commit is a step of `Payouts`. `PaidOnce` alone is not inductive: it does not say why a
  claim found unpaid at the look is still unpaid at the commit.
* **Orders, leaves and referrals.** `History` adds what a session has learnt of others: whoever it
  looks for or marks has taken the reward and has left (`Leaving`), and the claims it is about to pay
  hold the join that earns the referral (`Earning`). Both survive the steps of other sessions because
  joins are never taken back and `quit` only grows; `JoinsGrow` counts.
* **Orders, buttons.** `Shown` follows who holds the lock of an order: its post is open if the
  session is about to commit the order as open, and also if the session can still be rolled back and
  the table has the order open (`Shows`). Where nothing crashes, a session is rolled back only while it
  waits for a lock, and it edits the post after it has all the locks (`AbortShown`). With crashes the
  property is false: an edit that was sent stays when its session is rolled back.
* **Orders, counters.** `Counted(F, o)` says that the tables are right about the order `o` (`Exact`:
  the progress is the number of participants who have not left, the order is completed exactly when
  that is its target, nobody is charged twice), and that every session of `F` that has loaded `o`
  still sees its row (`Current`) and would leave the tables right if it committed (`Right`, with what
  it has paid and charged so far in `Here` and `Fits`). It is inductive for the sessions whose copy is
  not stale (`Fresh`), for orders with no lost update: a commit by a fresh session makes all others
  with the order stale, so nothing has to be known of them. That a session locks what it writes
  (`LockDiscipline`) is not enough for this: two sessions may hold a copy from before the lock, which
  is finding 1.
* **Orders, posts and ends.** Only the session that places an order sees it as queued (`Queued`), and
  unless the post is refused it goes on to post it or is rolled back with it. `Nearer` orders the states of a
  session lexicographically: orders left to recheck, participants left to ask for, orders left to
  charge for, place in the handler (`Rank`). The sets shrink because a query gives each row once.
  With the fairness of section 4 this is why every handler ends; that step is left to TLC.
* **Wallets.** What a session knows of a balance however old its copy is (`Sane`: it lies between its
  bounds, given the session's own credits and fines) is kept apart from what it knows while nobody
  else has written the row (`Faithful`: its copy is the balance with its own receipts). The bounds
  survive lost updates because each copy obeys them.
* **Purchases, Promotions.** The same shape: what a session has read is still so at its commit unless
  its copy is stale. Redemptions need no such exception, because the row of the user, held since
  *TakeRow*, covers them: this is why gift codes implement `Payouts`. `BannerDelivered` compares each
  session's count with the messages sent (`CountsSent`): a count that is written is never ahead of
  them.
* **Sponsors.** While a session holds `u`'s row, no other records a join of `u` (`Fresh`), and none
  handles a leave that `u` caused; when it ends with such a leave, it has found every open join of
  it (`Leaving`). What others caused is in `missed`. `Rests` shows that all this is kept by the
  steps of other sessions. A session that ends a join found it open; if it still is, it has not been
  charged for (`OnePenalty`).
* **Dialogs.** Handlers of one user follow each other, so Redis has to be described between two of
  them and in the middle of one. Every token in the data or in an awaited report is given, unused and
  in one place (`Sound`); a session that is going to spend one has removed it from Redis or will do so
  before it lets go of the row. `Coherent` says that between handlers that did not fail the state fits
  the data and what the user was told; `EndsAsExpected` follows for a session whose state, read
  before it waited, is still the one in Redis.
* **Accounts.** A session says which row it changes and how (`Noted`). When it commits, the row is
  overwritten, or its copy is that of the table, or it writes nothing; in the last case a penalty
  was taken from trust that was gone already, and still is, as trust only falls (`Falls`).
  `ReferralKept` needs no exception: who writes a
  referrer holds the row since before it asked the table, and `referral` says what the row says
  (`ReferralRecorded`). A ban survives stale copies because a flush writes changed columns only.
* **Broadcasts.** A session that sends is alone with its job. The users it has reached are at least
  those it counted as sent and at most those it counted at all, and the users still to try are
  neither reached nor counted, so that one more call keeps the brackets whichever way it ends
  (`Counted`). A question that is about to be answered is still open, unless the admin was in two
  sessions (`Open`, `Apart`).

Only model-checked are `LeaverFound` and `UpdatesHandled` (liveness and fairness are beyond the prover,
as is ENABLED). No property here needs induction over data.

## 7. Not modelled, and the plan

Order of the plan, most important first: 1. `Payouts`, `Orders`. 2. `Wallets`. 3. `Purchases`.
4. `Promotions`. 5. `Sponsors`. 6. `Dialogs`. 7. `Accounts`. 8. `Broadcasts`, each with its runs and its
proofs: done. What joins them stays an interface: `Orders` says which claims a session pays, `Wallets`
what any payment does; `Dialogs` says that one preview makes one order, `Orders` what an order is.

Not modelled:

* The counter that limits clicks (`vip_trust_service.py:31`): one refusal reads it, which writes
  nothing but the flag that `Accounts` has as `Flagged`. That a crash between INCR and EXPIRE makes it
  last for ever is listed as a hazard.
* The counters per day of missions: an achievement or mission is due or not due in `Orders`, and a
  further credit in `Wallets`.
* The catalogue of the shop, the rates of panels and the settings: constants of the modules. Only
  commands of admins write them, one row each.
* Dialogs of one question whose answer writes one row or sends one message, and replies to tickets.
* Texts and layout, keyboards, profile and leaderboard queries, custom buttons and editable texts,
  the health API, seed and migrations. They keep no state that a step of another part could
  contradict.

## 8. Running

    tlc -config Orders_concurrent.cfg MCOrdersHistory
    tlc -config Orders_found.cfg MCOrders
    tlapm OrdersProofs.tla

`PROJECT.json` names the module of each configuration. Each run takes from seconds to three minutes with
two workers; every proof module takes a few minutes
from nothing.
