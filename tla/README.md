# A formal model of Storevia

Storevia is a multi-tenant shop platform: merchants run stores, shoppers check
out on a storefront, a worker runs scheduled jobs, and PostgreSQL holds all
shared state. This directory holds TLA+ models of the parts where that state is
hard to keep right, the TLC configurations that check them on small instances,
and proofs, checked by TLAPS, of what can be shown for instances of any size.
Paths are relative to `src/`.

The models describe the transactions of the code: what each reads, the
conditions under which it returns early, what it writes, and what can happen
between one and the next. A transaction that locks the row it works on is one
action. Where an operation leaves a transaction, asks a payment provider and
comes back, it is several actions, and every other action can happen in between.

## Inventory

| Part | State it keeps | Operations | What is hard |
| --- | --- | --- | --- |
| Checkout, `packages/commerce/src/checkout` | Checkout, Payment, InventoryLevel, InventoryReservation, Discount, DiscountRedemption, PaymentWebhookEvent | start, steps, begin, confirm and cancel payment, webhooks, the sweeps, purge | the provider is asked outside transactions; answers are late, lost or repeated; shopper, webhook and sweep act on one attempt |
| Order operations, `packages/commerce/src/orders` | Order, OrderLine, Fulfilment, Refund, RefundLine, OrderNotification | fulfil, update a fulfilment, complete, cancel, refund, settle by hand, delete a demo order | partial quantities; refunds in flight; one level shared by orders and checkouts |
| Payment providers, `packages/payments` | none of their own; links and refunds at the provider | create, read and cancel a link, refund, webhooks | a link can be paid at any moment while it is open |
| Pricing and money, `checkout/pricing.ts`, `money.ts` | none | price a cart, split an amount | parts rounded on their own that must add up |
| Cart, `storefront/cart.ts` | Cart, CartLine | line edits, merging, expiry | several tabs |
| Catalogue and inventory, `inventory.ts`, `products.ts`, ... | Product, ProductVariant, InventoryLevel | edits, adjustments, transfers | levels locked, and inserted where missing, beside the checkout |
| Notifications, `orders/notifications.ts` | OrderNotification | claim, send, retry, requeue | at-least-once sending, leases that overrun, senders that die |
| Job scheduler, `packages/jobs` | ScheduledJob, JobRun | claim, heartbeat, finish, retry | leases that expire while the job still runs |
| Worker and outbox, `apps/worker` | OutboxEvent, StorefrontInvalidation | dispatch, clean up | repeated dispatch; commits out of order |
| Site engine, `packages/site-engine` | per-process caches | follow the invalidation log | identifiers that become visible late |
| Page drafts, `packages/site-admin` | Page, PageVersion | open, save, publish, revert, take down | several tabs on one page, each with a revision token |
| Store policies, `packages/commerce/src/settings` | StorePolicy | save, publish, take down | a row read without a lock and written later |
| Editor, `packages/editor` | one document in the browser | edits, undo | |
| Billing, `packages/billing` | Subscription, BillingWebhookEvent | webhooks, changes by staff, the sweep of manual plans | snapshots out of order and repeated; one live subscription |
| Entitlements, `packages/entitlements` | usage counters | consume, release, reconcile | limits under concurrency; a counter that is created lazily |
| Tenancy and domains, `packages/tenancy`, `packages/domains` | Membership, Invitation, Domain | roles, suspension, transfer, leaving, invitations, domain checks | roles resolved before the request acts; invitations that outlive their sender's access |
| Media, `packages/media` | MediaAsset, objects in storage | upload, process, clean up | storage and database disagree |
| Authentication, `packages/auth` | sessions, verification rows | sign-in, email change, second factor | mostly in a library |
| Shared libraries and web applications | none | parse, render, call the above | |

The components call each other inside one database: the storefront's actions and
the webhook route call the checkout; the worker calls its sweeps; the checkout
places orders and queues notifications in the same transaction; the dashboard
calls the order operations; both call the provider's adapter after they commit.
Checkout and order operations meet in the inventory level: what a checkout holds
becomes what an order is owed. The worker's scheduler runs everything periodic: the
checkout's sweeps, the emails, the dispatch of the outbox, through which a change in
the dashboard reaches the caches of the storefront's processes. Joining an
organisation takes a seat of its plan's limit.

For each part, what makes it correct:

- *Checkout*: one order per checkout; money is never forgotten; stock and
  discount uses are held exactly while a payment is in flight; they come back.
- *Orders*: every unit is on sale, reserved for somebody or shipped; refunds never
  exceed captures; a cancelled order ships nothing; a status says what is so.
- *Scheduler*: a slot is run to success or given up, one claim at a time.
- *Outbox and caches*: every change reaches every cache in the end.
- *Page drafts and policies*: a token that matches means the draft has not changed;
  what is published is what its editor saw, or at least what was judged fit.
- *Billing*: an older snapshot never replaces a newer one; what has ended stays ended.
- *Tenancy and entitlements*: one owner, no more members than seats, no invitation
  that outlives its sender's access.
- *Notifications*: nothing is sent never, or for ever.
- *Inventory locks*: transactions on stock serialise, they do not block each other
  for good.
- *Pricing*: the parts of a quote are the whole of it.

`PROJECT.json` lists, under `hazards`, the lines of the code where these are at
risk, with the properties below that would show it.

## Modules

| Module | What it is |
| --- | --- |
| `Checkout` | the checkout and payments in flight |
| `CheckoutPromise` | what a checkout promises, without links, webhooks, sweeps or crashes |
| `CheckoutRefinement` | the refinement mapping: `Checkout` implements `CheckoutPromise` |
| `MCCheckout` | instances of `Checkout` for TLC |
| `CheckoutProofs` | proofs about `Checkout` |
| `Orders` | what a merchant does to placed orders |
| `MCOrders` | instances of `Orders` for TLC |
| `OrdersProofs` | proofs about `Orders` |
| `StockLocks` | the row locks of inventory levels |
| `Pricing` | the price of a basket, with its rounding |
| `PriceAndLockProofs` | proofs about `Pricing` and `StockLocks` |
| `JobSlot` | what the scheduler promises for one job |
| `JobScheduler` | claims, leases, runs and faults of one job |
| `Notifications` | the order emails of the worker |
| `MCWorker` | `JobScheduler` and `Notifications` for TLC |
| `WorkerProofs` | proofs about both, with the refinement of `JobSlot` |
| `Invalidation` | a change on its way to the caches: outbox, log, feed and page cache |
| `InvalidationProofs` | proofs about `Invalidation` |
| `PageDrafts`, `PolicyDrafts` | drafts and publishing of a page, and of a store policy |
| `DraftProofs` | proofs about both |
| `Members` | members, invitations and seats of an organisation |
| `Billing` | subscriptions, told of by events and changed by staff |
| `MCPlatform` | `Invalidation`, `PageDrafts`, `PolicyDrafts`, `Members`, `Billing`, `StockLocks` and `Pricing` for TLC |
| `PlatformProofs` | proofs about `Members` and `Billing`, and that what is proved of the parts holds of the platform |
| `Sums` | facts about finite sums, for the ledgers |

`MCWorker` and `MCPlatform` put parts beside each other that share no state in the
code: a variable `part` says which of them moves, and a behaviour is one of that
part alone. Nothing is lost by it, since steps of parts that share nothing
commute, and one run then checks them all at the sum of their sizes and not the
product. Parts that do share state, checkouts with the shelf, the
seats with the members, the outbox with the caches, are in one module.

### Checkout

| Variables | In the code |
| --- | --- |
| `cart`, `checkout`, `payment`, `orders` | rows of Cart, Checkout, Payment, Order; the columns the properties tell apart |
| `available`, `reserved`, `held`, `sold` | an inventory level, and the reservations of each checkout |
| `uses`, `redemption` | a discount's usage count and each checkout's redemption row |
| `checking` | checkouts whose row is locked by a `beginPayment` between its unlocked read of the cart and its writes |
| `attempt` | where the provider call of `beginPayment` has got to |
| `link` | the payment link at the provider |
| `settled` | links whose event was delivered and answered with success |
| `calls` | `confirmPayment`, `cancelPayment` and `sweepExpiredPayments` under way, each with what it read at first |

`StartCheckout`, `Reprice`, `BeginPayment`, `ReserveForPayment`, `AbandonPayment`
and the actions on `attempt` are `service.ts`; `ApplyOutcome` and what it leads to
(`EndAttempt`, `Capture`, `CompleteCheckout`, `AttachExtraCapture`,
`CaptureWithoutOrder`) is `confirm.ts`, and the webhook, the return page, the
cancellation and the sweep all take it. `Ask`, `StopLink` and `EndCall` are the three
stages of a call: ask the provider, stop the link, end the attempt. A call whose attempt
has no recorded link, or whose connection cannot be opened, goes straight to the last of
them (`unasked`), and a link may stay open when the provider refuses to stop it.
`CallFails` ends a call at any stage: the provider does not answer, or the process dies.
`LinkEnds` is the provider and the shopper; `PaymentWindowEnds` and
`CheckoutExpires` are time.

A quote is an opaque value with a total, a number of units and whether it uses the
discount: the checkout never looks further, it compares hashes and totals.
`Reprice` stands for each step and each view of an open checkout. All quotes draw
on one inventory level and one limited discount, which is where checkouts
compete.

### CheckoutPromise and CheckoutRefinement

The promise has four variables: whose turn it is (the shopper's, a payment's, or
placed), the deal, the payments taken, and the shelf. It says that a
checkout waits for one payment at a time, that its deal does not change
while it waits or after it is placed, that stock leaves the shelf when it begins
to wait and comes back when it gives up, and that a late payment places the order
all the same. `PromiseKept` maps it to the rows; it is checked as a property of
`Checkout`, and proved.

### Orders

`order`, `completed`, `fulfilled`, `returned`, `refunded` and `paidBack` are
columns of Order, OrderLine and Payment; `shipment` and `told` the fulfilments and
the emails queued for them; `refund` the Refund rows; `call` and `provider` where a
refund's provider call is and what the provider has made of it; `available`,
`reserved` and `reservation` the stock. Every operation locks its order, so each is
one action; a refund is three, `RequestRefund`, `ProviderAnswers`, and
`RefundAnswered` or `RefundUnconfirmed`, with `ResolvePendingRefund` for staff who
settle it by hand as the provider's dashboard shows it at that moment.

The model has one location, so a fulfilment is one parcel, where the code makes
one per location. The journey's statuses are READY, SHIPPED and DELIVERED: the
two others of the code, in transit and out for delivery, are SHIPPED to every
condition that is modelled. Archiving an order, its note and the reset of the
customer's link write columns that no modelled condition reads.

### StockLocks

The quantities of `Orders` and `Checkout` are left out here; what is left is which
rows of InventoryLevel a transaction locks (`locking`), inserts (`inserting`) and
holds, in which order, and which it found `missed`. `Reserve` is `reserveStock`;
`SettleReservations` is `releaseCheckoutStock`, `fulfilStock` and `cancelOrderStock`;
`Restock` is `restockStock`; `Adjust` the adjustments and transfers of
`inventory.ts`. Each begins a transaction. `Lock` is one row of a
`SELECT ... ORDER BY ... FOR UPDATE`, `Insert` one `INSERT ... ON CONFLICT DO
NOTHING`, `Supply` the choice of a location for an item of a reservation, `Commit`,
`Refuse` and `Victim` the ends of a transaction. An uncommitted row is seen by nobody
and blocks whoever inserts it too, as in PostgreSQL. Levels are numbered in the
order of the `ORDER BY`.

### Pricing

`DivideRounded` and `Allocate` are `money.ts`, `TaxFor`, `DiscountAmount`,
`LineDiscounts`, `QuoteLine` and `PriceCheckout` are `pricing.ts`. A basket is one
store's settings and one shopper's choices, and is not a state of the program but
its input: the run prices every basket of a set. `Pricing` says nothing about how
`Checkout` uses a quote; there, a quote is an opaque value.

### JobScheduler and JobSlot

`slot`, `attempt`, `delayed`, `lockedBy` and `leased` are the ScheduledJob row, `runs`
the JobRun rows, `claim` and `work` what each worker process has in memory. `Claim`
and `Finish` are the two transactions of `scheduler.ts`; `Heartbeat`, `WorkEnds`,
`Crash`, `Shutdown` and `Restart` are what happens between them. Time is the slots that
have come due and whether a lease or a delay has run out; a worker that is alive may
lose its lease (`LeaseIsLost`) and still finish. One that was told to stop while its claim
committed does not hear of it and works on (`deaf`). `JobSlot` is the promise: slots in
order, each when due, the next one only after this one succeeded or was tried
often enough. It knows no workers, leases or crashes; `SlotsAreKept` maps it to the
row and the runs.

### Notifications

`status`, `attempts` and `waiting` are columns of OrderNotification, `batch` and
`inHand` what a sender has claimed and where it is, `copies` what left. A claim is
one statement; sending and marking are separate steps, and a mishap (a bound
counts them) can come anywhere: the process dies, the mark fails, the email leaves
although sending threw, a slow sender's lease overruns.

### Invalidation

`outbox` and `dispatch` are OutboxEvent and the open transactions that dispatch it;
`log` is StorefrontInvalidation, whose ids (`lastId`) are taken when a transaction
inserts and seen when it commits; `cursor`, `seen`, `lastSync` and `reading` are the
feed of one storefront process, `cached` and `load` its page cache. A page is
`stale` once the database has a newer one. `FeedReads` and one of `StartAtHead`,
`StartClean`, `ApplyRows` and `ReadFails` are the two halves of `sync`, between which
everything else can happen; `Post` is the worker's direct call, which may come,
come again or never come. Time passes in ticks, whatever is open and whether or not
anybody asks the process for something: the only limit is the transaction's `Timeout`,
after which a dispatch can no longer commit. `late` is the model's own: the rows that
became visible behind a higher id and that no read has asked for within the overlap.

### PageDrafts and PolicyDrafts

`versions`, `live` and `deleted` are the rows of Page and PageVersion, `tab` the
revision and the document each builder shows, `task` an open transaction.
`openPageDraft`, `savePageDraft`, `unpublishPage` and `deletePage` decide and write in
one statement or under the page's lock, and are one action each; `publishPage` and
`revertPageDraft` read, validate and write later, and are two (`BeginPublish` and
`Publish`, `BeginRevert` and `Revert`). `PolicyDrafts` is the same of a store policy,
where publishing and unpublishing read without a lock. `issued` is the model's own:
every pair of revision and document the draft has had.

### Members

`member`, `invitation` and `counter` are Membership, the pending Invitation rows and the
UsageCounter of `staff_accounts`. `context` is the role a request was resolved with,
read once and trusted for the rest of it: that, and `joining`, an acceptance that
claimed its invitation and may have counted the members before it has the
counter's lock, are where others come in between. The deferred constraint
trigger that wants one active owner at commit is `HasOneOwner`, a guard of
`LeaveOrganisation`.

### Billing

`changes` is everything that happened in order, at the provider or here: an event's
version is its place in it. `ledger` is BillingWebhookEvent, `row` Subscription,
`applying` an open transaction that found a live subscription in one statement and
locks it in the next. Any event can be delivered at any time (`ApplyEvent`,
`ApplyTombstone`, `FindLive` and `ApplyFirst`), again if it was not settled;
`DeliveryFails` marks it as the code does, over what another delivery wrote.
`AssignPlan`, `ChangeManual` and `Expire` are staff and the sweep. A manual row has no
snapshot: its version is when it was last written, also when it ends (`Ended`). Whether
a cancelled subscription still has access depends on dates; an event that reactivates one
may be refused if the row missed a change before it (`AccessMayBeOver`).

## Runs

| Run | Question | Result |
| --- | --- | --- |
| `checkout` | two attempts of one checkout, all outcomes, one shopper call beside the sweeps; and two checkouts of one cart, the last unit and the last discount use | holds |
| `checkout_liveness` | does stock come back, is money recorded, whatever happens | holds |
| `checkout_reread` | is a paid link read again before its attempt is cancelled, as the comment says | violated |
| `orders_stock` | two orders, three lines (one untracked), three parcels, one refund | holds |
| `orders_refunds` | two refunds of an order with two captured payments | holds |
| `orders_demo` | does deleting a demo order return only what is still held | violated |
| `orders_refund_race` | can a refund the provider makes end as failed | violated |
| `worker` | two workers with one job, two senders with one queue, through faults: is a slot kept, is it left, is each email settled | holds |
| `platform` | caches, page and policy drafts, members, billing, stock locks and prices, each with everything that can interleave | holds |
| `pages_publish` | does a publish make live what its editor saw | violated |
| `billing_order` | do events in any order converge to the provider's word | violated |
| `invalidation_overlap` | does every invalidation reach a cache | violated |

`checkout` explores the steps that are `InScope`: all that one checkout can go through, and what
two checkouts do to each other, begun before either is paid for and without the shopper's
calls, failing links and new prices. A second checkout starts only from a cart that is
active, and to start it earlier changes nothing for the first, so nothing is lost by
beginning both at first.
`orders_stock` and `orders_refunds` split the store's orders by what they contend for.

**Bounds.** Two payments per run are enough for an attempt to be superseded, to be
paid late, and to be an extra capture; a third only repeats the second. Two
quotes, one with the discount, make a repriced checkout and a total that no
longer matches. One unit on hand and one use of the discount make every
reservation a contest. `MaxCalls` bounds the shopper's calls under way, not the
sweep's: one beside one sweep per attempt and the webhook already
gives every pair of paths that can act on an attempt. In `Orders` one line has two units, so it can be fulfilled,
returned and refunded in part; one is untracked; one belongs to another order on
the same level, and one unit is held by a checkout, so taking another's units
shows. Two payments of one order make an extra capture whose refunds are not the order's. Rows are never reused, so the small stores run out of them and the runs
that allow it say so by not checking for deadlock. Symmetry is used over rows of
one kind in runs of safety properties only.

In `worker` a slot has two attempts, so it can be retried and given up; two slots, so a
late answer can be about the wrong one; two faults, so that a lease is lost and its
thief dies too. Two emails, one with nothing to say, two tries, two mishaps and one
requeue by staff let a row be in two senders' hands at different attempts.

In `platform`:

- *Caches.* One tag and one request, since tags do not meet but in a row's set of
  them; two dispatchers, so that ids commit in the other order; three rows, so that a
  row can be behind two others. The overlap is two ticks of time, and the run lasts
  as long, so that a row can leave it; `ReadLimit` is two, so a read can be full. In
  `invalidation_overlap` time goes on for two more ticks, within the `Timeout` of four.
- *Page drafts.* Two tabs, two documents, three versions and revisions to 4: enough for
  a publish between a save and its token, and a new draft after a take-down. *Policies.*
  Three editors and revisions to 4, so that a take-down can write a revision that comes
  back with another draft while a publish is open.
- *Members.* Four people, the owner and an administrator among them, three seats and two
  invitations: the last seat is contested, and ownership can move while a request is
  under way. The counter is there or missing at first.
- *Billing.* Two provider subscriptions and one manual row, three changes; four
  changes of one subscription in `billing_order`.
- *Stock locks.* Two transactions over two items at two locations, one of which serves
  online orders, from every set of existing levels. A circle of two is what
  can go wrong; the proof covers any number.
- *Prices.* Baskets of up to three lines whose amounts and rates leave remainders, and
  baskets of up to two with every kind of problem.

Symmetric sets of different parts are permuted together: only one part moves, so
the group stays small without losing any permutation of that part.

**Fairness.** `checkout_liveness` assumes no more than `Fairness` in `Checkout`:
a transaction ends (WF of `BeginPaymentEnds`) and time passes (WF of
`PaymentWindowEnds`); the sweep, which `apps/worker/src/jobs.ts` schedules each
minute and which takes a candidate that failed again on the next run, gets through
if it is possible again and again (SF of its steps, since a row lock or a failing
provider can get in its way each time); and the provider repeats an event
until it is answered (SF of `Webhook`). Nothing is assumed of the shopper, nor
of `beginPayment` after its first transaction, which may die at any point.

`worker` assumes that retry delays and leases run out, that a job's code ends (its
timeout is hard), that a `finish` that can commit does, and that a process told to
stop is replaced (weak fairness of `RetryComes`, `LeaseExpires`, `WorkEnds`, `Finish`
and `Restart`); and that some worker claims what is claimable again and again
(strong fairness of a claim by any worker: they poll, and a shutdown or another's
transaction only keeps a claim out for a while). Faults are finitely many: `Crash` and
`LeaseIsLost` share a bound. For the emails it assumes that the job, which the scheduler
runs each minute, works through its batch, and that leases run out (weak
fairness of `SenderWorks` and `WaitEnds`). `platform` checks no liveness.

**What disagrees.** Six runs show where the code does not do what its own
words say; `PROJECT.json` quotes the lines under `findings`.

- `checkout_reread`. A shopper who pays between the provider's answer "pending" and
  its refusal to cancel the link sees the attempt cancelled. The money is not lost,
  as `CaptureIsRecorded` shows, but it arrives as a late capture, whose stock was on
  sale in between.
- `orders_demo`. Deleting a demo order that was partly fulfilled puts its whole
  reservation back on sale, with the units that were shipped.
- `orders_refund_race`. A refund can be settled by hand while its provider call is
  under way; the answer is then ignored.
- `pages_publish`. `publishPage` compares the token and validates the draft, then
  publishes the row by its id: a save that commits in between goes live unseen and
  unchecked.
- `billing_order`. An event whose transition is not allowed from the stored status is
  settled as ignored without its version being kept; an older one can then be applied
  over it, and the row stays behind the provider until some later event.
- `invalidation_overlap`. A row of the log that becomes visible behind a higher id is read
  again for ten seconds from its insertion. A dispatch posts inside the transaction that
  inserted it and may be open for sixty, and a process that is asked nothing reads nothing:
  either way a row can leave the overlap unread, and `NothingStaysStale` fails. It takes two
  dispatches at a time, as when a run was abandoned at its timeout and its slot is retried;
  with one there are no late rows (`OneDispatchLosesNothing`). What holds in any case is
  `OnlyLateRowsAreMissed`: such a row is the only one the feed can miss, whatever loads,
  reads, restarts and the read limit do. The cache's expiry, after five minutes
  (`site-engine/src/cache.ts:133`), then ends it.

One comment is true only in part, and the property states the part that holds:
`checkout/stock.ts:14` says that levels are always locked in one order, so that
transactions do not deadlock. That is so of transactions that find the levels
they need. A reservation or a return that finds one missing inserts it, and the
insert is a lock out of that order: `DeadlocksNeedAMissingLevel` says that every
deadlock has such a member, and one that is not an adjustment by hand.

## Proofs

`CheckoutProofs` proves for any finite or infinite number of checkouts, carts,
payments and quotes: `TypeCorrectness`, `HoldsOnlyWhilePaying`, `ExactlyOneOrder`,
`MoneyStaysRecorded`, `ExtraCapturesAreAttached`, `TimelyCapturesAreWhole` and
`StatusTablesSuffice`. They rest on the named assumptions of `Checkout`: carts,
payments and quotes are what their names say, totals and units are natural numbers.

The properties are not inductive. A begin under way could reserve for a checkout
that is not open, or a call could end a payment that was never made, in states the
invariants alone allow. `IInv` adds two things. `Rows`: a payment's checkout and
a checkout's cart exist, a checkout being checked is open, only a completed
checkout has sold anything. `Memories`: what a begin or a call remembers is a
payment that was made. The preservation proof has a lemma for each of the three
transactions everything goes through (ending an attempt, marking a capture, placing
an order) and one step for each action. The action properties follow from `IInv`
and from a description of what a step can do to money (`MoneyStep`) and to a
checkout's status, which every action is shown to be an instance of.

`CheckoutKeepsPromise` is the refinement `PromiseKept`: every step of `Checkout` is a step
of the promise, or leaves all the promise speaks of alone. The mapping chooses the
payment a checkout waits for; `IInv` leaves one to choose (`TurnsAreClear`, before the step
and after it), and `TurnAssumption` says that a payment is not mistaken for one of the
promise's other turns. A reservation is `Wait`, an ended attempt `GiveUp`, an order
`Place`, or `PlaceLate` when nothing was held for it, money without an order of its own
`TakeOther`: one lemma each. Whatever else happens rests (`Rests`): rows that are
not waited for and not placed may be priced, abandoned, swept and purged unseen.

**Ledgers.** The sums of the models are folds, that is recursive functions over the
subsets of a set, and no property of one follows by unfolding it. `Sums` proves what the
ledgers need: that a sum is a number, that it does not depend on the order in which the
fold takes its elements (`SumWithout`), how it changes when one element or one value
does (`SumOfChanged`, `SumMoves`), and how sums are added, compared, scaled and exchanged
(`SumOfSums`, `SumIsMonotonic`, `SumScales`, `SumByColumns`). The library's induction
theorems take a predicate and cannot be used; `SetInduction` does without one. The sets
a fact holds for are collected in a set of sets, and strict inclusion is well founded on
finite sets, so if some set were missing, a smallest one would be.

`CheckoutProofs` adds `LInv` to `IInv`: what is available and reserved is what was on hand,
what is reserved is the sum of what checkouts hold and have sold (`StockInv`), and the
uses of a discount are the checkouts that hold one and the orders that were granted one
(`DiscountInv`). A sum needs a finite domain, and there may be infinitely many checkouts:
the invariant says that only finitely many were ever started. Every step does one of
five things to the ledgers (a checkout starts, reserves, gives back, is sold, or none of
them), and each of these keeps them. `StockAddsUp`, `DiscountAddsUp` and
`ShortagesAreTold` follow, for any quantities and limits.

**Money.** `CheckoutProofs` also proves what no run checks, the safety half of
`CaptureIsRecorded`. `MoneyIsRecordedOrDue`: the money of every order was really captured,
and money captured is recorded, or its delivery is still due and carries the reference
that finds the payment. `LinkInv` relates the provider's link of a payment to its row and
to the deliveries settled: a link is only paid once its reference is recorded, because only
then the shopper is given it, and no step forgets a reference or a capture (`Records`).
`DeliveriesRecordCaptures` follows: the delivery of a capture is never answered without
recording it, whatever became of the attempt. Fairness of the deliveries is then all
that `CaptureIsRecorded` needs beside it, and that part is checked by TLC. `SalesStand`: a
completed checkout keeps its order and its units, whatever else is captured for it.

`OrdersProofs` works in three layers. `IInv` gives `CancelledOrdersShipNothing`,
`WholeOrdersAreDelivered`, `ShoppersAreTold` and `OrdersShowTheirRefunds` for any orders,
parcels and refunds: it adds that a parcel carries units of its order
(`ParcelsCarryUnits`), which is why an order without fulfilled units has none, and that a
cancelled order holds no reservation. `RefundInv` is about the sums over refund rows:
what is paid back and still asked of a payment is at most what it took
(`RefundsFit`), and what was returned and is on its way back of a line at most what was
shipped (`OnlyShippedUnitsComeBack`). It implies something no run checks:
`RefundsCanBeRecorded`, that a pending refund fits when it succeeds, however late, so that
the checks of `settleRefund` never turn away money the provider has paid out. `StockInv` is
the shared level: `ReservedUnitsAreOwed` and `UnitsAreConserved`. These two assume
`~DemoDeletion`, as the runs that check them set it, since deleting a demo order breaks them:
that is what `orders_demo` shows. `TypeCorrectness` needs no such assumption.

`WorkerProofs` proves `RunningIsTheLease` and the refinement `SlotsAreKept` for any
number of workers, attempts, slots and faults. Alone, `RunningIsTheLease` says
nothing of a worker that comes back from a run that was taken from it. `JInv` adds
that a busy worker's claim is a run it made that has not succeeded
(`BusyHaveTheirRun`); that the holder in the row made the newest run, of the row's
slot and attempt (`HolderMadeTheNewest`); and that runs are of slots that were due
(`RunsAreOfDueSlots`), which gives `JobSlot`'s `ServeLate` its slot. Each
action is then a step of `JobSlot` or leaves it alone.

It proves `RepeatsNeedMishaps` for any number of notifications and senders. That no email is
sent more often than there were mishaps is not inductive: a mishap is counted when a
sender dies or a lease overruns, and the second copy leaves much later. `NInv` counts
the emails a notification may still come to (`Emails`): the copies that left, the senders
that will yet send it, and one if it can be claimed again. One of them is meant, each of
the others is paid for by a mishap at the moment it becomes possible
(`ExtrasAreMishaps`), and no step makes two. `WorkerIsBoth` shows that a behaviour of
`MCWorker` is one of each part.

`InvalidationProofs` proves `OnlyLateRowsAreMissed` for any number of tags, dispatchers,
requests and rows, and any overlap, timeout and pause, without an assumption about them.
`Frame` gives the shape of rows and reads. `FeedFollows` says how the feed stands to the log:
what it has applied lies behind its cursor and is not `late`, and a read under way holds a
prefix of what is ahead, so a row that it does not hold comes after its last one, or is
behind the cursor, or is late (`ReadIsAPrefix`). `NothingIsLost` says what is still to come for a page that is
out of date, in the cache or in a load under way: it is in the outbox, in an open
dispatch, in a row the feed still awaits (`Awaited`), or in a late one. A full read proves
nothing about the rows that follow, but then the feed drops everything.
`OneDispatchLosesNothing` adds that with one dispatch at a time nothing is ever late,
so `NothingStaysStale` holds then, for any overlap: an open dispatch has a higher id than
every row that is visible.

`PriceAndLockProofs` proves `QuotesAddUp` for any number of lines and rates and any prices. The heart of
it is `AllocateIsFair`. Rounding the shares down leaves a number of units which is at most
the number of shares with a remainder; "larger remainder, or as large and earlier" is a strict
order, so each share has a rank of its own (`EarlyOnes`), and exactly as many shares as there
are units left have a rank below that number. None gets more than its weight. The sum of the
taxes over lines and the sum over rates are the same sum by rows and by columns.

The same counting gives `SharesAreFair`: a share without a remainder never gets one of the
units left over, so each part is less than a unit from its exact share (`Within`), and
the parts still add up. `RoundingIsToNearest` does the same for one division: it is off by
half a unit at most, half-up never takes a half down, half-even ends on an even number.

`DraftProofs` proves that a revision names one document for ever
(`RevisionNamesOneDocument`) and that a page shows its one published version
(`LiveIsThePublished`). The invariant says where the highest revision is: some version
has it, every revision issued is at or below it (`IssuedIsBehind`), the draft, if there
is one, has it, and there is one draft at most. So each revision taken is new.
It also proves `OnlyOwnTextIsLive`. The argument of the pages does not hold there,
since a take-down can bring a revision back; it rests on a publish writing the
text it read, and that text having been judged (`ReadToPublishIsOwn`).

`PlatformProofs` proves `SeatsAreNotOversold`, `OwnerStays` and `SuspendedInviteNobody` for any
finite number of people. The invariant is about open acceptances: who joins is no member
yet, holds an invitation whose sender is active or gone (`JoinersAreInvited`) and that
nobody else claims (`InvitationsAreClaimedOnce`); and as long as there is no counter,
whoever joins has counted at least as many as there are members (`CountIsEnough`),
since members only grow through the counter.

It proves `OlderNeverWins` and `ExpiredIsFinal` for any subscriptions and
number of changes, from: one live subscription (`OneLive`), no row newer than what has
happened (`RowsAreBehind`), and an open transaction's subscription still having no row
while the one it found has (`ApplicationsHold`).

`PriceAndLockProofs` proves `DeadlocksNeedAMissingLevel` for any number of transactions,
items and locations. Whoever found every level holds no row beyond the one it waits for
(`LocksInOrder`, `OneStatement`). In a circle of such transactions, take the one that
waits for the highest row: whom it waits for holds that row and waits for one that is
no lower, so for the same row, which its own blocker holds as well; but a row has one
holder (`Exclusive`).

`PlatformIsItsParts` shows that a behaviour of `MCPlatform` is one of each of its seven parts,
so that what is proved of a part holds of the whole; `PlatformTypeCorrectness` uses it.

The proofs rest on the assumptions the modules name: bounds are natural numbers,
the founder and the early members are people, who are finitely many and fit the seats, a
subscription is the provider's or manual, the baskets that may be priced are baskets, the
lines of the orders, the notifications and the senders are finitely many
(`OrderAssumption`, `NotificationAssumption`), and the value that stands for "none" is none
of the records it is compared with (`NoRowAssumption`, `NoMembershipAssumption`,
`AbsentAssumption`, `NothingAssumption`). TLC evaluates each of them in the runs above.

**Only model-checked.** Every invariant and every action property of the passing runs is
proved. What is left to TLC is liveness under fairness, which is out of the prover's
reach: `StockComesBack`, `CaptureIsRecorded`, `SlotsMoveOn` and `EmailsSettle`. What the six
violated properties show needs a counterexample, not a proof.

## Not modelled, and why

Most of the repository is not state that several actors change: of its lines the
greater part are React components and pages (`.tsx`, more than half), document
rendering, parsing and validation of requests, email texts, glue to libraries. The models follow
what is left, the transactions; a line counts as modelled here only where a definition
translates it.

Within the modelled parts: personal data, tokens, rate limits, row-level security and
audit entries gate or accompany operations and change nothing the properties
speak about. Archiving an order, its note and the customer's link write columns nobody
reads. Plans and prices of a subscription are left out, and with them
the events that are ignored because their customer or plan is unknown or retired
(`webhooks.ts:159`, `175-177`), which touch no row. Access to single stores, a page's title and
address, and what an email says are data the modelled conditions do not look at.

Not modelled at all:

- *Cart.* Edits and merges keep the cart's row locked and touch nothing else;
  `Checkout` has the status of the cart, which is all the rest of the code sees of it.
- *Catalogue.* Products, variants and collections are rows one merchant edits; of the
  inventory, the levels' locks are in `StockLocks`. `setLocationActive`, which refuses to
  take a location out of use while it holds stock, and the lock a stock change takes on
  its location for that (`inventory.ts:60`), are not modelled: locations do not change.
- *Domains.* The order in which the store's and the domain's rows are locked by a switch
  of the primary domain and by the worker's check needs a lock model of its own; the
  database refuses one of the two and the check is repeated.
- *Media.* Upload, processing and cleanup span the database and object storage.
- *Authentication.* Sessions and sign-in are those of a library.
- *Editor.* One document in one browser; its saves are `PageDrafts`.
- *The lock order of refunds.* `settleRefund` takes the refund and then the order,
  deleting a demo order the other way round; only a demo order with a refund under way
  is exposed, and one of the two is refused.
- *Refunds a provider settles later.* The adapter takes a pending refund for made, and
  no code listens for what becomes of it.

## Plan

Done, in order: `Checkout`, its promise, the refinement and their proofs; `Orders` and its proofs;
`JobScheduler` with `JobSlot`, and `Notifications`; `Invalidation`; `PageDrafts` and
`PolicyDrafts`; `Members`, with the seats of the entitlements; `Billing`; `StockLocks`;
`Pricing`. The proofs came with them, those of the ledgers, of `Notifications`,
`Invalidation` and `Pricing` last. What would come next:

1. `Domains`: verification and the primary domain of a store, with its row locks, and the
   same for `setLocationActive` beside stock changes.
2. `Media`: assets, their objects in storage, and the cleanup of either without the other.
3. `Cart`: merging of a visitor's cart into an account's, and its expiry.
