# Formal models of the ARK web shop

The repository is a shop for a cluster of ARK game servers: a web backend
(`src/backend`, TypeScript on PostgreSQL), a plugin that runs inside each game
server (`src/ark-plugin`, C++), a web frontend and some auxiliary plugins. Users
buy points with real money, spend them on items and dinos that the plugin hands
over in the game, and sell dinos to one another. Value therefore crosses two
durable stores that share no transaction, the database and the game world with
the plugin's journal file, over HTTP. The models here are about that: what
happens to an order, a payment, a point or a dino when requests interleave,
messages are lost or late, and processes die between two steps.

This directory holds TLA+ modules, TLC configurations and TLAPS proofs.
`PROJECT.json` lists the runs, the source lines each definition models (`map`),
the deliberate defects each property was seen to catch (`mutants`), the hazards
of the code and the theorems.

    tlc -config DeliveryQueue.cfg MCDeliveryQueue      # model-check
    tlapm WalletLedger_proofs.tla                      # check proofs

Abbreviations for source files: PC `plugin.controller.ts`, DS `delivery.service.ts`, DA
`deliveryAdmin.service.ts`, OC `order.controller.ts`, AC `admin.controller.ts`, WS
`wallet.service.ts`, PY `payment.service.ts`, DM `dino-market.controller.ts`, CK
`checkout.controller.ts`, VP `vip.service.ts` (all under `backend/src`), HS `HeartShop.cpp`, DJ
`DeliveryJournal.cpp`, CM `Commands.cpp` (under `ark-plugin/src`).

## 1. Inventory

| Component | State it keeps | Operations | Talks to |
|---|---|---|---|
| Order state machine (`orderState.ts`) | none: a transition table | `canTransition`, `isRefundable` | everything that moves an order |
| Delivery queue (PC, DS, DA) | `DeliveryJob` rows: status, lease token and expiry, attempts, retry time; `Order.status` | claim, complete, fail, release, lease expiry, dead-lettering, admin retry | plugin over HTTP; orders, refunds, market |
| Order refunds (OC, AC) | `Order.status`, ledger posting | owner refund, admin refund | ledger, delivery queue |
| Plugin delivery (HS, DJ) | journal file, claimed deliveries in memory, game world | poll, begin, mark, give, complete, abort, recovery after a crash | backend over HTTP |
| Wallet ledger (WS, `afterCommit.ts`) | accounts, transactions, entries, `User.pointsBalance` | `post` | every component that moves points |
| Payments (PY, AC) | `PaymentIntent`, `PaymentWebhookEvent` | webhook, success page, slip approval and rejection | payment provider, ledger, VIP |
| Dino listing (PC, CM, HS, DJ) | `DinoAssetLock`, `DinoListing`, journal, world | `/sell`, prepareLock, confirmLock, recovery pass | plugin and backend |
| Dino market (DM, PC) | `DinoListing`, delivery jobs, escrow | cancel, buy, settle, refund | ledger, delivery queue |
| Checkout, cart, promotions (CK, `promotion.service.ts`) | carts, sessions, stock, vouchers, redemptions | price, commit, redeem | ledger, delivery queue |
| VIP (`vip.service.ts`, `PermissionSync.cpp`) | memberships, permission jobs, groups in the game | buy, extend, revoke, expire, resync | delivery queue, payments |
| Wallet feed (`pluginCompanion.service.ts`, `WalletNotifications.cpp`) | cursor and seen events in memory | poll, notify | ledger, plugin |
| HTTP client (`HttpClient.cpp`, `RequestPolicy.cpp`, `GameThreadDispatcher.cpp`) | in-flight count, circuit state, callback queue | admit, retry, record, shut down | everything the plugin sends |
| Schedulers (`ledgerReconcile`, `vipScheduler`, `serverQuery`) | Redis locks and snapshots | tick | database, Redis |
| Authentication, content, admin views, chat, Discord, frontend, old plugin | sessions, rows, broadcasts | CRUD, login, relay | users |

What is hard in it, component by component:

* **Concurrency.** The backend runs any number of handlers at once, on several
  replicas. Some operations are one Serializable transaction, some are a read
  followed by a conditional update, and some a read followed by an update by id
  (`advanceOrder` PC:46-54 with the plain client, `cancelListing` DM:386-416,
  the expiry in `confirmLock` PC:1149). The last kind can overwrite what
  happened in between. The plugin is one game thread, with callbacks.
* **Failure.** A game server crashes between changing the world and recording
  it; the journal file cannot be replaced; a backend process dies between two
  statements; the payment provider repeats events.
* **Ordering and time.** Leases last a minute, locks ten; reports of an old lease
  arrive during a new one; a webhook overlaps the buyer's success page.
* **Correctness.** An order, a dino, or a payment takes effect once; money
  follows what was delivered; nothing is lost silently; everything ends.

## 2. Plan

Order: what carries value across the two stores first, then what feeds it.

1. `OrderState`, `DeliveryQueue`, `DeliveryPlugin`, `DeliverySystem`,
   `DeliveryContract` -- **done**, with proofs of queue, plugin and system, refinements included.
2. `WalletLedger`, `LedgerContract` -- **done**, with proofs including refinement.
3. `PaymentIntents` -- **done**, with proofs.
4. `DinoListing`, `DinoMarket` -- **done**, with proofs.
5. `PluginHttp` (the circuit breaker, worker threads and shutdown of the plugin's
   HTTP client) -- **done**, with proofs.
6. `VipPermissions` (memberships, permission jobs that supersede one another, several
   servers that claim, the groups the game ends up with) -- **done**, with proofs.
7. `Promotions`, `Checkout` (the cart, checkout sessions with vouchers and campaigns,
   the in-game shop's quotes) -- **done**, with proofs.
8. Wallet feed: no event skipped by cursor and poll.
9. Release streaks and visibility; legacy order endpoints; a
   player's change of Steam link (`onSteamLinkChanged`).

Every invariant, action property and refinement a passing run checks is proved; what
these components have left is liveness, which stays with TLC. When a run is needed for a
new component, the violation runs whose findings are fixed or recorded are the first to
go.

## 3. Modules

Conventions: a VARIABLE has the name and meaning of a column or field where there
is one; one action is one database statement or transaction, one game-thread step
up to the next durable write, or one message. A read whose result is used in a
later statement leaves a record of what was read. `UNCHANGED` lists what the code
leaves alone. Definitions headed "Mutant:" are defects, never used by a
specification: replacing the definition below them by the mutant breaks a
property.

**Histories instead of assumptions.** Some properties hold only until a rare
event. Rather than forbid the event, the models record it in a history variable
and state the property up to it: `overtaken` (a lease expired or was renewed while
a handler was still busy with the order), `delayed` (a delivery took longer than
its lease), `overlapped` (an event was redelivered while it was being handled),
`mishaps` (what the game world may do to a dino), `overtaken` and `unheard` in the
market, `lost` (a half-open probe whose thread did not start), and for permission
jobs `missed` (the last change could not be queued) and `astray` (a job may have run
beside or after a newer one). The theorems hold for the unrestricted specifications.

### OrderState, Deliveries, DeliveryQueue
`OrderState` is the table of `orderState.ts`, `Deliveries` what queue and plugin
both speak of. `DeliveryQueue` is the backend half of
delivery. `status`, `token`, `attempts`, `maxAttempts` are the columns of
`DeliveryJob`; `expired` and `waiting` abstract `leaseExpiresAt` and `nextRetryAt`
(time passes by `LeaseExpires` and `BackoffOver`, whenever it likes); `order` is
`Order.status`; `credits` and `refundedBy` are the ledger's view of
`order:refund:<id>`. `inflight` holds the handlers between the read of a job and
their conditional update, `advances` those between their job update and the end of
`advanceOrder`, whose read and write are separate outside a transaction.
Clients are arbitrary: any report for any job under any token, except that nobody
knows a lease before the claim's response has been sent.

### DeliveryPlugin
The game thread runs one delivery at a time through `Begin`, `MarkMutating`, the
mutation of the game and the journal's `Complete`; `outbox` is what it tells the
backend. The result of the game mutation is all, part or nothing. `Journal` writes
may fail, `Crash` may hit between any two steps and may find the journal
unreadable. It assumes nothing of the backend: any job may be claimed at any time
under any lease.

### DeliverySystem, DeliveryContract
`DeliverySystem` extends both halves and adds the network: claim responses
(`replies`) and reports (`outbox`) travel independently and may be lost. Faults are
counted (`MaxFaults`): a lost message, a crash, a dead handler, a failed journal
write, or a delay, that is, a lease that ends while something of it is still under
way. `DeliveryContract` says what is promised of one order: it enters the game at
most once and never after its money went back, it is called delivered only if the
game has all of it, and it is paid back at most once. `Promise` is that refinement,
up to the first delay; `QueueAlone` says that the composed backend is still a
`DeliveryQueue`, so what is checked of the queue with arbitrary clients holds here.

### WalletLedger, LedgerContract
`WalletService.post` row by row: key lookup, insertion of the key, conditional
updates in account-key order, commit, announcement after commit. The database is
taken at READ COMMITTED with row locks, the weakest level a caller uses;
Serializable only adds aborts, which `Fail` allows anywhere. `LedgerContract` posts
a request atomically and once per key; `Promise` is the refinement.

### PaymentIntents
A webhook handler in as many steps as it makes statements (`stage`), with what it
read (`sawEvent`, `sawIntent`); `VerifyStripeSession` is the success page's one
conditional transaction; administrators decide slips from an earlier read.
`Settle` is the provider: it decides once and repeats its events until accepted.

### DinoListing
`place` is the world; `journal` the `dino_listing` records; `lock` and `listings` the
backend's rows. `thread` is the `/sell` callback between two durable writes, `confirms`
the `confirmLock` handlers between their statements, `acks` and `offers` answers that
have not reached the game thread. `subject` is the dino and price of a lock and
stands for the unique asset fingerprint.

### DinoMarket
Rows of a listing and its job, the ledger as balances plus posted keys. Leases
are reduced to status and attempts, the plugin to what `DeliveryPlugin`
guarantees. Cancelling is a read and an update by id; buying checks before and
inside its transaction.

### PluginHttp
The game thread asks (`Submit`, `Refuse`, `CannotStart`), a detached thread per request
sends, perhaps pauses and sends again, records the result in the `RequestPolicy`, looks
at `ShuttingDown`, enqueues the answer, gives back its slot and leaves the count; these
are separate steps (`stage`), since each takes another lock. `Unload` destroys the
client, which waits for the count (`plugin` = "waiting"), then `Unloaded` closes the
dispatcher; `Load` starts again. The variables of the policy are its fields; time is
`Cool`, the end of the open circuit's thirty seconds. An attempt's outcome is a success,
a refusal (any status that is no success and not transient), or, when the backend is
not `healthy`, a transient failure.

### VipPermissions
One player's rows of one group: `row` and `sync` are `status` and `syncStatus`. Dates are
reduced to what they decide: which row is the last (`IsLast`), whether the group is held
for good (`Hold`), and the timed adds whose end has passed (`over`). The backend's
transactions on rows and finished jobs are Serializable, one step each. A claim is not: it
reads the candidates (`ReadCandidates`), the live leases (`ReadLive`) and the recent completions
(`ReadPin`), lets older expired leases give way one by one (`Supersede`), and then leases the
newest by an update conditional on what was read of it (`Claim`, `LoseClaim`, or
`DeadLetterExpired`); `seen` is what the claim has read and how far it is, and anything may
happen between these steps.

A server runs the calls of `BuildPlan` one by one, records the job in its own `journal`, and
reports; anything may fail, fault or be lost between. The groups are in `store`, which the
cluster shares, but a call is answered from the server's own copy of them, `cache`
(PC:591-595): a copy that already is as the call asks changes nothing, and what changes in the
copy is written to the store either as that entry alone or with everything else the copy holds,
since the code only says that a server "rewrites the group columns from a stale cache" and the
Permissions plugin is not in the repository. `ReadGroups` reads the copy again. `pin` is the
affinity window of the server that completed the group's last job; it ends (`PinEnds`) only
when every other server has read the groups since, as the window is ClusterSyncTime and half a
minute more.

Two history variables say why a copy may be old. `news` is, for each server, "change" when
another has changed the groups since it read them, "done" once that other has completed the
job, so that the window keeps this one away, and "torn" when the other's lease has ended
otherwise (released, failed, expired), so that nothing does. `astray` is set when a claim finds
a newer open job or a live lease, when an old job returns to the queue, when a server is still
at work after its lease ended, when a server abandons a run of a job another server has
completed, when a job is completed after a claim that will supersede it has looked for
completions, and when a call is answered from a copy that differs from the store and is "torn".
From then on an older job can show through, and the properties say nothing; section 7 has what
can happen then.

### Promotions, Checkout
`Promotions` is `promotion.service.ts` as operators: which campaigns apply to the lines of
a cart (`Candidates`, `Available`, `Discount`), in which order (`Before`, `Selected`), and
how each discount is spread over the lines with its rounding (`Share`) and capped
(`Evaluate`). `Checkout` is what happens around them. A checkout session or a quote of the
in-game shop is an `offer` with the lines and the total the buyer was shown; its commit
or confirmation, up to fifteen or two minutes later, is one Serializable transaction and
so one step, which checks it against whatever the rows have become: `CommitSession`,
`ConfirmQuote`, with `Purchase` for what they share. Creating a session is several
statements, hence `Draft` (what it read of the cart) and `CreateSession` (which
evaluates the promotions and writes). The cart changes by `AddToCart`, `UpdateCartItem`
and `SyncCart`, each with the checks it makes and no more. `orders`, `balance`, `taken` and
`redeemed` are the rows a purchase leaves behind; `supply` is a history, the units ever put
up for sale. `price` stands for all columns of a product that the commit compares with
the snapshot, a server's state for everything that makes it take deliveries. A refund may
happen at any time, which is more than `DeliveryQueue` allows.

`MC*.tla` give TLC its constants and symmetry; `*_proofs.tla` hold the proofs.

## 4. Runs

| Run | Module, configuration | What it shows |
|---|---|---|
| delivery_queue | MCDeliveryQueue, `DeliveryQueue.cfg` | whatever clients, refunds and retries do, a job stays within its attempts (`BudgetRespected`) and is refunded once (`RefundedOnce`); the order tells the truth about its job and a refunded order stays out of the plugin's reach, until a handler is overtaken (`OrderFollowsJob`, `RefundedStaysOut`) |
| delivery_plugin | MCDeliveryPlugin, `DeliveryPlugin.cfg` | through crashes and unwritable files an order enters the game at most once (`AtMostOnce`), and reports are true when they are made (`HonestAnswers`) |
| delivery_system | MCDeliverySystem, `DeliverySystem.cfg` | an order called delivered is in the game whatever is lost or late (`DeliveredMeansGiven`); without a delay only a lease that ran out kills a job whose order was given (`OnlySilenceKillsAGrant`); refinements `Promise`, `QueueAlone`; every order is settled again and again or its delivery is in doubt (`EventuallySettled`) |
| wallet_ledger | MCWalletLedger, `WalletLedger.cfg` | one story told by balances, entries and projection (`ViewsAgree`), honest answers (`HonestAnswer`), no circular wait (`NoStandstill`), refinement of the contract (`Promise`: atomic, covered, once per key) |
| payment_intents | MCPaymentIntents, `PaymentIntents.cfg` | completed exactly when granted, once (`CompletedIsCredited`); outcomes final (`OutcomeIsFinal`); until deliveries of one event overlap, a claimed intent has an owner (`ClaimIsOwned`) and a paid one is granted in the end (`PaidIsCredited`) |
| dino_listing | MCDinoListing, `DinoListing.cfg` | a destroyed dino is listed or its snapshot is in the journal (`Traceable`); in an orderly world it is listed once (`OnceAndGone`) and a cancelled sale never (`CancelledIsNotListed`) |
| dino_listing_liveness | MCDinoListing, `DinoListingLiveness.cfg` | a destroyed dino is listed in the end and its record completed |
| dino_market | MCDinoMarket, `DinoMarket.cfg` | no debt, money follows the job, escrow is exactly the open purchases, no refund for a given dino and no cancelled sale unless overtaken or unheard, every purchase settled |
| plugin_http | PluginHttp, `PluginHttp.cfg` | no slot leaks and none is given back twice (`SlotsMatch`); while the half-open circuit refuses, its probe is on the way (`ProbeIsComing`); a request is answered once and nothing runs after unloading (`AnsweredOnce`); every request and every unloading ends (`EverythingEnds`); a healthy backend is reached again (`Recovers`) |
| vip_permissions | MCVipPermissions, `VipPermissions.cfg` | once all jobs have run the game has what the newest asked for, whatever was superseded, repeated, lost or half done (`NewestWins`); what the backend calls synced is in the game (`SyncedIsTrue`); a server at work has the groups as they are stored, unless a run that changed them has ended without a completion (`RunsFresh`); all three until `astray` |
| checkout | MCCheckout, `Checkout.cfg` | whatever was shown before and whatever changes in between: no more of a product is sold than there was and its stock is what is left (`NothingOversold`), no buyer gets beyond a limit (`WithinLimits`), no promotion is redeemed beyond its own (`RedeemedWithinLimits`), and a buyer pays the total shown, once, of which the orders and redemptions are the parts (`PaidAsShown`); the first two except for a product on two lines of a session |
| dino_sold_and_cancelled | MCDinoMarket, `DinoSoldAndCancelled.cfg` | violation, see section 7 |

Beside the regular runs lie configurations that are run by hand; each is violated within
seconds and shows the behaviour section 7 describes: `OrderDraggedBack.cfg` (MCDeliveryQueue),
`DinoSoldTwice.cfg` (MCDinoListing), `CheckoutSplit.cfg`, `CheckoutFree.cfg`,
`CheckoutTwoVouchers.cfg` (MCCheckout), `VipOutOfOrder.cfg`, `VipPending.cfg`,
`VipSyncedNotGiven.cfg`, `VipRemovalForgotten.cfg`, `VipStaleCopy.cfg`, `VipClaimSlip.cfg`
(MCVipPermissions), `TwoProbes.cfg` and `CircuitStuck.cfg` (PluginHttp).

### Bounds, and why they are enough
* `DeliveryQueue`: one order (jobs touch no common row; `DeliveryPlugin` has two,
  since there the game thread is shared), three leases, so that reports of two
  old leases meet a third, three handlers at once, two attempts and one retry
  (`MaxBudget` = 4), which reaches the last attempt, its release and its retry.
* `DeliverySystem`: two faults, enough for a lost report followed by a crash or a
  failed journal write, and for two delays; two lease tokens, reused only when no
  message carries them, so a stale lease meets a current one; two handlers.
* `WalletLedger`: three callers, four accounts, four requests with two under one
  key, and balances such that a purchase fits only after a top-up: a short
  balance, a replay, a conflict, and a three-way lock queue all occur.
* `PaymentIntents`: a card payment reported in two events, a bank transfer, two
  handlers, two administrators, and one fault: a redelivery after a crash meets the
  other event and the success page. No symmetry, since liveness is checked.
* `DinoListing`: two dinos, two locks (two sales of one dino, or one of each), two
  handlers (an overlapping confirmation), two prices (two fingerprints of one
  dino), one seller linked and one not. The liveness run has one dino and no mishap.
* `DinoMarket`: two dinos, three users, points for one dearer dino, two attempts.
* `PluginHttp`: three requests, of which one is a read that retries once, for two
  slots and a threshold of two: the limit, the open circuit, results older than a probe
  and a retry during unloading all occur. The counts 8, 5 and 2 of the code are
  parameters; the proofs are for all of them.
* `VipPermissions`: a timed and a permanent membership, two servers, two jobs: an add and its
  removal, a timed hold over a permanent one and back, a job that is claimed by the second
  server after the first crashed or completed it, with an old copy or a new one, and two claims
  whose steps interleave. The inductive invariant of the proofs, which are for any number, was
  also checked with three jobs. Some configurations run by hand use three. Exploration stops at
  `astray`, where every property is void, and at a change that was not queued when no job is
  left to follow it (CONSTRAINT `Bounded`). The view drops journal records of jobs that are
  over and in no server's hands, how such a job ended, reports that will be refused, and the
  details of a claim that only closes older leases: no action and no property reads them again.
* `Checkout`: a buyer with two checkout sessions and a quote beside another buyer's quote,
  product a with two units in stock and two per buyer, product b with no limit; an automatic
  campaign, once per buyer, and a voucher of a campaign that ends with its first use. So two of
  three offers together take more than the stock, the limit, the balance or a promotion allows,
  and a refund lets them in again. `MaxDrafts`: one session is created at a time, while
  anything else may happen between its two steps. `MaxChanges`: one change by an administrator
  or a schedule, to one column (a second change can only undo the first or spoil the sale in
  another way), and only when something has been shown, since before that it is another initial
  state of the same shop. A cart holds two units and changes only while its owner has a key
  left for it (`HasKey`), and not between the two steps of creating a session, where the cart
  is not read again; the view drops carts that nobody can check out any more.

Symmetry is used only in runs without liveness, over jobs, tokens, handlers, callers, locks,
servers and checkout sessions that no definition tells apart. `CHECK_DEADLOCK FALSE` is set
where the system may stop: when every order or purchase is settled, and when the bounded number
of permission jobs has run.

### Fairness
* Delivery (`Running`, `Welcoming`): the plugin polls on a timer (HS:483-507),
  leases and backoffs elapse, handlers and the game thread run on: weak fairness.
  Strong fairness for taking a claim response, meeting the buyer and giving:
  a claim is repeated and some repetition gets through, and a buyer who is offered
  an order again and again is some day online with room for it. Without that
  buyer the code releases the delivery for ever, by design.
* Payments: handlers run on (weak), and the provider redelivers an event until it
  is accepted (strong, since a handler must be free).
* Listing: the game thread finishes its callback (weak); every poll runs the
  recovery pass, and a confirmation repeated on every poll reaches a handler in
  the end (strong).
* Market: jobs are claimed (weak); the buyer comes online, a report gets through,
  an unanswered lease runs out (strong).
* HTTP client: threads run on and their network calls time out (HttpClient.cpp:515
  sets them all), the game ticks, the thirty seconds pass, unloading is followed by
  loading: weak. Strong for starting a request: the timers keep asking, and whenever a
  slot is free again and again some request gets it.
Faults are bounded in the liveness runs that count them, as endless crashes would
prevent any progress.

## 5. Proofs

| Module | Theorems | Argument |
|---|---|---|
| `SumTheorems` | (lemmas) | sums over finite sets as the unique outcome of taking elements one by one, and what adding, removing, changing or scaling an element does to them; the ranks a strict order gives a finite set. Induction over finite sets is stated for the family of subsets that have the property |
| `DeliverySystem_proofs` | plugin: types, `AtMostOnce`, `HonestAnswers`; queue: types, `BudgetRespected`, `OrderFollowsJob`, `RefundedOnce`, `RefundedStaysOut`; system: `DeliveredMeansGiven`, `OnlySilenceKillsAGrant`, refinements `QueueAlone` and `Promise` | `AtMostOnce` is not inductive. `JournalLeads` is: only one delivery is being worked on; at "give" the record is mutating and the game has nothing; a record none or prepared means nothing given, completed means given in full. `BudgetRespected` needs that what a handler read is still so while the lease it read is there (`ReadIsCurrent`), since a release writes the attempts it read. The order follows its job because, until it is overtaken, a handler inside `advanceOrder` is alone and its job is where it left it (`AdvanceIsTimely`), and a report comes after the claim's answer (`ReportIsAnswered`, `AnsweredIsDelivering`). Every step of the system is a step or a stutter of each half, so both invariants hold in it; what joins them is `OneHand`: until a delay, the lease of a job is carried by one thing at a time (a claim's handler, its answer, the game thread, a request or a report's handler), and reports say what the game holds (`CompleteIsGiven`, `FailIsHonest`) |
| `WalletLedger_proofs` | types, `NoDebt`, `ViewsAgree`, `HonestAnswer`, `AnnouncedOnce`, `NoStandstill`, `Promise` | rows updated by an open transaction are exclusive and hold the committed balance plus the amount (`RowLocks`); an open key is exclusive and unposted (`KeyLocks`); at most one announcer per key, and only unannounced (`Announcers`); answers agree with what is posted (`Told`). A commit then is one `Post` of the contract and every other step a stutter. For `NoStandstill`: a posting that waits for a row holds only lesser ones (`Ascending`), and only finitely many transactions are ever open, so of any callers that wait for each other the one after the greatest row waits for nobody among them |
| `PaymentIntents_proofs` | types, `CompletedIsCredited`, `OutcomeIsFinal`, `ClaimIsOwned` | `Settled`: what a handler at each stage implies about verdict, event and intent. Finality follows from it. For `ClaimIsOwned`, until an overlap: at most one handler per event (`Alone`) and a claim keeps its event in processing (`Owned`) |
| `Dino_proofs` | listing: types, `Traceable`, `CompletedIsListed`, `OnceAndGone`, `CancelledIsNotListed`; market: types with no overdraft, `SettledByDelivery`, `CancelledIsUnsold`, `RefundedIsNotGiven`, `ClearingHoldsEscrow` | Listing: `Position`, `Prepared`, `Acknowledged`, `SavedGone` tie thread, journal, locks and acknowledgements together. For the orderly world: `Unique` (one sale of a dino past the mark), `Where` and `Final`. Market: `Agreement` says, per listing, what status, buyer, delivery, job and posted keys can be together; `Unsold`, that a cancelled and sold listing was overtaken; the escrow is a sum over the purchases held and not settled, and each step adds or removes one of them |
| `PluginHttp_proofs` | types, `SlotsMatch`, `ProbeIsComing`, `AnsweredOnce` | the counts equal the cardinalities of the sets of threads at the stages that hold a slot or a place (`SlotsMatch` itself, with lemmas on adding to and taking from such a set); answers in the queue are distinct and their threads past answering; while the flag is set the circuit is half-open and a recorded probe is the one that cleared it |
| `VipPermissions_proofs` | types, `RunsFresh`, `JobsInOrder` (one lease, a pending job is the newest, a server at work holds the lease), `NewestWins`, `SyncedIsTrue` | `RunsFresh` needs the order of the jobs, `Order`, which holds until `astray`: a server at work holds an unexpired lease (`Held`); at most one job is leased (`OneLease`), a pending one is the newest (`PendingIsNewest`), a leased one that is not has a pending one after it (`NewerIsPending`); a lease is with the pinned server if there is one (`HostPinned`); what each step of a claim has read constrains what can still be open or pinned when it comes to lease the job (`SeenWell`). From this a server whose copy is old for a "change" or a "done" is not the one at work (`Guarded`), and any other copy that is neither "torn" nor such is the store (`CopiesAgree`). `NewestWins` adds what the game holds (`GameInv`): from whatever entries there are, what is left of the newest job's plan leads to what it asks for (`Ready`, `RunLeadsThere`); once it is recorded in a journal the game has that, or the job is being run again (`RecordedIsGiven`), and a second run that breaks off is `astray`; no newer job is recorded while an older one is leased (`LeasedGoesFirst`), so no other run disturbs it; a completed job is recorded (`RecordsAgree`). A call that is not misled does to the store what it does to the copy it is answered from, so the plan's effect can be followed in the store. `SyncedIsTrue` follows with: while a membership is active the newest job asks for the group (`ActiveIsAsked`), and when that job is dead nothing marks a membership synced (`DeadIsKnown`) |
| `Checkout_proofs` | types, `NothingOversold`, `WithinLimits`, `RedeemedWithinLimits`, `PaidAsShown` | The promotion engine first: shares of a discount are rounded down, so they add up to it; what the applications take off the lines adds up to what the lines are cut, and no line goes below zero. Then the stock of a product is what was put up less what the orders of all offers take (`StockAgrees`), never below zero unless split; a purchase adds to one buyer's units after checking each line (`SaleSplit`); the uses of a promotion grow by one at a time, each after a check (`LimitsKept`). For money: a committed offer's charges and redemptions make up the total and the subtotal shown (`OfferPaid`), quotes carry no promotions (`QuoteTotals`), and a balance is the initial funds less what was taken plus what came back (`BalancesAgree`) |

Each module proves Init => Inv and Inv /\ [Next]_vars => Inv' with one lemma per
group of actions, and derives the theorems. All theorems are about the full `Spec`
for arbitrary constants; the only assumptions are the ASSUMEs on constants stated in
the modules, which TLC evaluates in the runs.

Some invariants are proved and no longer repeated by a run: `NoDebt` and
`AnnouncedOnce` of the ledger, `CompletedIsListed` of the listing, and the types of
every proved module.

Induction over data comes in where sums do. The provers take no predicate as a parameter, so
`SumTheorems` states induction for a set of numbers, or a family of subsets, and derives it
from the well-founded order of the natural numbers.

**Only model-checked.** The liveness properties (`EventuallySettled` of the delivery
system and of the market, `PaidIsCredited`, `EventuallyListed`, `EverythingEnds`,
`Recovers`): fairness and ENABLED are out of the prover's reach. So is what only the
configurations run by hand show (section 4).

## 6. What the models leave out

* Payload contents, quality, texts; signatures and
  authentication; the HTTP validation of requests.
* Release streaks (any backoff is allowed), the choice of the server an order's job is
  queued for, and the attempts of permission jobs (any failure may be the last).
* VIP packages, tiers and dates; a player without or with a changed Steam link
  (`no_steam`, `onSteamLinkChanged`); several groups of one player, which share no row.
* In `Checkout`: a buyer without a Steam link, who is refused; the rule that dinos are bought
  one at a time; the discount type `percentage`, which a CHECK of the database excludes; a
  promotion's scope by server or category (a scope is a set of products); the order in
  which rows come back when a query does not say (one order is taken); a
  change of a product's limit.
* Creating accounts, logins, intents; the sandbox provider's auto-credit;
  mismatched payment events, which change no intent.
* Two events that disagree about one payment. A Stripe session here takes cards only
  (`stripe-payment-provider.service.ts:35`), so it is paid or it expires, and `Settle` fixes one
  outcome; the guard against a late contrary event (PY:544) is in the model but never needed.
* The Permissions plugin itself, which is not in the repository: only the copies and the two ways of
  writing described in section 3 are assumed of it.
* Dino trading between players, which is compiled only under ENABLE_DINO_TRADING;
  the retired routes createListing and markDelivered, which answer 410; the return of cancelled
  dinos: the backend has the routes, but nothing in the plugin calls them.
* The components marked not_modelled in `PROJECT.json`, each with its reason.
* Most of the C and C++ lines of the repository are SQLite (`sqlite3.c` and its headers, 216
  thousand lines vendored with the older plugin) and compiler probes; they are third-party or
  generated. Of the plugin's own code, item and dino spawning, tribe protection, the catalog
  and the configuration are calls into the game engine, modelled by their outcome.

Account status and a job's payload are constant in the models, as no modelled operation changes
them.

## 7. Where the code and its documents disagree

Shown by a violation run:

* **A dino sold and cancelled** (`dino_sold_and_cancelled`). DM:414 tells the seller
  that the dino will be returned; the cancellation is written by id, over a sale
  that committed after its read. The delivery's completion then answers 409, and
  in the end the buyer has the dino and the money.

Shown by the configurations run by hand:

* **One dino, two listings** (`DinoSoldTwice.cfg`). HS:341 calls confirming a record whose
  dino does not exist "safe and idempotent". A crash between `MarkMutating` and
  `Destroy` leaves a mutating record and a living dino; if the owner sells it again at
  another price before the recovery pass, the pass confirms both records.
* **One product on two lines** (`CheckoutSplit.cfg`). Stock and limit are checked line by
  line (CK:344, CK:357), and a cart may hold one product for two servers. Both lines pass, the
  deductions at CK:388 take the stock below zero, and the buyer goes over the limit.
* **A free order cannot be refunded** (`CheckoutFree.cfg`). CK:394-396 leaves out the ledger
  posting of a fully discounted checkout; a refund of such an order makes the same posting of
  nothing, which WS:140 refuses, so it stays failed although `backend/contracts/README.md:90`
  has a failed order refundable. Lines made free in a paid session are no better off.
* **Shown but never sold** (`CheckoutTwoVouchers.cfg`). `evaluateCheckout` grants two vouchers
  of one campaign, or a campaign that applies both by itself and by voucher, side by
  side; the database admits one redemption of a campaign per session (migration
  `20260620070000`), so the session with the total shown can never be committed.

* **A slow release drags a delivered order back** (`OrderDraggedBack.cfg`). PC:36
  says that an out-of-order callback "can never drag an order backwards (e.g.
  delivered -> delivering)". Outside a transaction `advanceOrder` reads the order
  and writes it by id; while a release handler is between the two, the job can be
  claimed again and completed, and the write then makes the delivered order queued.
* **An add and a remove out of order** (`VipOutOfOrder.cfg`). PC:560-562 has a claim hand
  out only the newest job "so an add and a remove for one player can never be applied out of
  order". Two servers read job 1 as pending; the second claims it, a revocation queues job 2,
  and the second releases job 1 and then runs and completes job 2. The first server's
  conditional update (PC:509-515) still passes if the job was queued for the server that
  released it: status, token and serverId are again what was read. The old add then runs
  after the removal.
* **A removal answered from an old copy** (`VipStaleCopy.cfg`). PC:591-595 has the affinity
  window so that no revoke "run on a stale server reports "not in group" (AlreadyInState) while
  MySQL still holds the timed VIP" (`vip-2026-10.md:232-240`). The window opens with a
  completion, and a superseded lease opens none (PC:610, "was never applied by its server"). A
  server runs an add, and before it is acknowledged releases it (its journal cannot be
  written), fails, or is lost; a revocation supersedes the add; another server claims the
  removal, finds nothing to remove in its copy and completes it. The player keeps the group
  until the timed entry ends, or for good. The same happens to a grant that follows a removal:
  it is called synced with nothing stored.
* **A completion the claim does not see** (`VipClaimSlip.cfg`). PC:559-562 has one key stay in
  order. A claim reads that there is no recent completion (PC:597); the server whose lease has
  expired reports completion after all, which `completeDelivery` accepts (PC:696 compares the
  token and asks for no expiry); the claim's update that would have superseded it matches
  nothing (PC:627-632), and the newer job is leased all the same (PC:509), by a server that has
  the old copy.
* **Pending with no job** (`VipPending.cfg`). VP:427 says "never leave rows "pending" with no
  job". A revocation's removal that is still pending is superseded by the add of a new grant;
  that add settles only active rows (VP:499), so the revoked row stays pending with nothing to wait
  for. So do rows that a revocation of an earlier one shifts when the end of the hold does
  not change.
* **Synced but not given** (`VipSyncedNotGiven.cfg`). PC:746 marks the memberships synced
  because the "VIP group [is] applied in the cluster Permissions DB". A server applies an add and
  records it, but its lease ends unheard; a second server claims the job, clears the
  old entry as the plan has it, and gives up on a fault; the first server claims the
  job again, finds it completed in its journal and "re-acknowledges only" (HS:1686).
* **A removal forgotten** (`VipRemovalForgotten.cfg`). VP:799 says that ended rows "get syncStatus
  pending (remove queued)"; a row that expires last keeps the "synced" it had. When no server
  row is active at that moment nothing is queued, only pending rows become unqueued
  (VP:429-437), and only unqueued rows are queued again (VP:913). Where the game has no timed
  groups, the permanent entry stays.
* **Two probes** (`TwoProbes.cfg`). `ark-plugin/VERIFICATION_REPORT.md:20` says the circuit
  "permits one half-open probe". The late result of a request admitted before the circuit
  opened clears the probe's flag; when that result was a transient failure the circuit
  opens again, and after another thirty seconds admits a second probe beside the first.
* **A circuit that stays half-open** (`CircuitStuck.cfg`). If the thread of the probe cannot be
  started, its slot is given back but no result recorded (HttpClient.cpp:792-811): the probe's
  flag stays, and every request is refused until the plugin is loaded again.

Met while modelling; no run of their own:

* **A late confirmation strands the dino.** CM:556 calls a crash after `Destroy`
  recoverable; `confirmLock` refuses a lock past its ten minutes (PC:1148) and
  nothing else lists or returns the dino, where `ark-plugin/P2P_SAFETY_AUDIT.md:47` asks
  for exactly one return job. The snapshot stays in the journal
  (`Traceable`), and `EventuallyListed` is stated without that mishap.
* **A confirmed lock marked expired.** The update at PC:1149 is by id after a read, so it
  can overwrite a confirmation; the listing stays, but a later confirmation is
  refused, where `ark-plugin/P2P_SAFETY_AUDIT.md:45` has it return the original listing.
* **A rolled back world.** After a crash that restores a save older than `Destroy`,
  recovery abandons a record the backend may have confirmed (HS:332-334): the dino
  is in the game and for sale (mishap "rollback").
* **Where refunds go.** `backend/contracts/README.md:101` has a refund credit the buyer's
  `refundable` account; the code credits `available` (OC:348, AC:969, with the policy of
  2026-10 explained at OC:276), and so do the models.
* **A refund for an order that was given.** OC:324 says never to refund "while any
  delivery for this order reached or may reach the game". When every report of a
  grant is lost until the attempts run out, the job is dead-lettered and the
  order refundable; the backend cannot tell.
* **Stock written back.** `updateProduct` stores the stock the form held (AC:665), so units
  sold since the form was loaded are for sale again. `EditStock` counts what is entered as
  new supply; `NothingOversold` says nothing of what the administrator meant.
* **An intent completed twice.** PY:41-42 says that completion happens once per intent;
  the webhook's transaction sets completed without a condition (PY:594), after the
  success page may have done so. The grant itself replays.
* Two comments of `orderState.ts`, that every write to an order goes through
  `assertOrderTransition` (line 10) and the one at line 38, do not describe the legacy
  endpoints and failed -> queued.
