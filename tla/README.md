# Verification of azushop

TLA+ models of the services of azushop, the TLC runs that check them and the
TLAPS proofs about them.  The source (`src/`, Go) is the reference: definitions
are translated from the code, and `PROJECT.json` maps each to its lines.

## The system

azushop is a shop of five services, each a process with its own PostgreSQL
tables.  They call each other by RPC (ConnectRPC), and send each other events
through Kafka.  A service that changes its tables and must tell another saves a
message in its *outbox* table in the same transaction; a poller in the service
dispatches it later.

    customer --CreateOrder/CancelOrder--> order --order.created--> inventory
       |                                   ^  |                       ^
       |                                   |  +--ReleaseStock RPC-----+
       |                             payment.status ------------------+
       |                                   |
       +--CreatePayment--> payment --------+        product --product.created--> inventory
       |                      ^ callback
       +------pays----------> Stripe

| Component | State | Operations | Hard behaviour |
|---|---|---|---|
| outbox (`internal/pkg/outbox`) | one row per message: sent?, retry count, due time | save, poll, dispatch concurrently, mark failed, mark sent | crash between effect and mark; overlapping pollers in a rolling update; row-lock deadlocks; the retry limit |
| inventory | `inventories` (stock, reserved), `inventory_locks`, its outbox | create rows, adjust, reserve, deduct, release; handlers of three topics | repeated and concurrent calls, statement interleaving, deadlocks, events out of order, unvalidated quantities |
| order | `orders`, its outbox, Redis idempotency keys | create, cancel, list, get; handlers of payment.status and order.cancelled; dispatch of three messages | late and reordered payment results, read-then-update, one consumer group for two loops |
| payment | `payments`, its outbox, Redis idempotency keys | create (Stripe session, then row), callback; dispatch | several sessions per order, repeated and reordered events, failed callbacks answered with 200, stale order status |
| product | `products`, `skus`, its outbox, Redis listing cache | create, update, list, batch-get, search | cache fill against invalidation, singleflight key, page boundaries |
| auth | `users` | register, login | two registrations of one name |
| access (interceptors, CORS, RPC clients) | none | authenticate, route, forward the caller | what a handler's own calls carry |
| retry queue | Kafka topic, in-memory closures per event type | submit, consume, retry, dead-letter | counter lost in JSON, closures overwritten and lost in a restart |
| delay queue | Kafka topic, timer, paused partitions | send, consume, pause, resume, resend | message dropped by pausing; no runner starts it |
| Kafka consumer | offsets | consume, mark | failed handler is marked; redelivery after a rebalance |
| runtime | servers and loops of a process | connect, start all, stop all, exit | runners that never stop, failed loops, missing dependencies |

Telemetry, configuration, generated messages and the deployment manifests keep
no state the business logic reads; they are not modelled.

What makes each component correct:

- *outbox*: a message saved is finally dispatched with effect or given up after
  its failures, nothing is marked sent that had no effect, nothing is given up early.
- *inventory*: the reserved quantity is what the locked orders hold, however
  often and in whatever order the calls come; no update is lost.
- *order and payment*: an order is confirmed if and only if it was paid; a
  payments row and a deduction of stock never run ahead of Stripe; a payment is
  not lost; no order is paid twice.
- *product*: a listing is the current page that was asked for, and shows a
  customer active products only; page after page shows every product.
- *idempotency*: one order per key, no second payment row for a repeated
  request, and no request refused as a duplicate that is none.
- *amounts*: what Stripe charges is the total of the order.
- *auth*: who is told to be registered can log in, and no one else as them.
- *delay and retry queues*: a message is sent on once due; a retry runs the task
  it was submitted with and ends in success or the dead letter queue.
- *runtime*: a service comes up when what it needs is there, and ends when told to.

Not all of this is true of the code.  The properties below say what is, and
where the code falls short they name exactly how.

## The modules

| Module | Models | Kind |
|---|---|---|
| `AtLeastOnce` | what the outbox promises the service that uses it | abstract specification |
| `Outbox` | `internal/pkg/outbox`, with PostgreSQL's row locks | component; implements `AtLeastOnce` |
| `OutboxProofs` | | proofs |
| `Stock` | what the inventory service promises: each call one step | abstract specification |
| `Inventory` | the inventory service, statement by statement | component; implements `Stock` |
| `InventoryProofs` | | proofs |
| `Checkout` | order, payment and inventory services, Stripe, topics, outboxes | composition |
| `CheckoutProofs` | | proofs |
| `Consumer` | a Kafka partition and a consumer group's offsets in it (`kafka/sarama.go`) | operators |
| `RetryQueue` | `kafka/retry` as the order service uses it, over `Consumer` | component |
| `DelayQueue` | `kafka/delay`, over `Consumer` | component |
| `Runtime` | `internal/server`, `cmd/*`: the life of each service's process | component |
| `BackgroundProofs` | | proofs about the retry queue, the delay queue and the processes |
| `Catalog` | listings, creates and updates of the product service and their cache | component |
| `CatalogProofs` | | proofs |
| `Access` | interceptors, routes, CORS filter, RPC clients | operators |
| `Purchase` | CreateOrder and CreatePayment with SKU pages, idempotency and amounts, over `Access` | composition of order, payment and product services, Redis and Stripe |
| `Accounts` | the auth service, over `Access` | component |
| `PurchaseProofs` | | proofs |
| `StorefrontProofs` | | proofs about accounts, alone and beside purchases |
| `Induction` | least elements, induction, recursion and sums over finite sets | lemmas for the proofs |
| `MC*` | constants, bounds and symmetry for TLC | instances |

An operator `X_Fault` is `X` with a plausible fault (a missing guard, a wrong
status, an off-by-one).  No specification uses it; each property is tested by
replacing `X` with one and watching the property fail.

### Outbox

A `Worker` is one running poller.  The chart deploys one replica, but its
rolling update starts the new pod before the old one ends, and nothing in the
table keeps two pollers apart.  A poll is the transaction opened by `Run`:
`Poll` lists the due rows with their *committed* content (no `FOR UPDATE`), one
`DispatchSucceeds`/`DispatchFails` per goroutine calls `MarkID`, `AllDispatched`
is `wg.Wait`, and the two UPDATEs lock row after row (`LockRow`), failed
messages before sent ones, until `Commit` makes both visible.  PostgreSQL's
part is external: a row lock belongs to one transaction, an UPDATE works on the
latest committed version, a deadlock aborts one transaction (`DeadlockAbort`).
`Rollback` is a crash, a failed statement or a failed COMMIT: the bookkeeping is
undone, the effects of the dispatches are not.

The back-off is a flag `due` that is cleared by a failure and set again by
`BecomeDue`; `ORDER BY next_retry_at` is any choice of a batch.

`delivered` and `failures` are history variables.  With them the refinement to
`AtLeastOnce` maps only `outcome`, computed from the row: a row whose retry
count has reached the limit and that was not sent is given up.

### Inventory

`Tx` are the transactions that reserve, deduct or release; the outbox of the
service and the RPCs may start any of them any number of times (the events that
start them come at least once), so `Begin` takes any call and any order.  Each
runs one UPDATE per order item (`UpdateRow`), holding the rows it changed, then
inserts or updates the lock row and commits.  Abort is every error path at once.
`BatchCreateInventoris` is the dispatch of product.created.  A SKU that has no
row yet is skipped silently by the UPDATE; `missed` remembers that, because the
lock is created nevertheless.  `ReservedIsLocked` makes an exception of such
items: what should become of them the repository does not say.

`Stock` has each call as one atomic step: `Reserve` takes the items of an order
whose SKUs have a row, `Release` and `Deduct` give them back or take them out of
the stock.  `Inventory` maps to it by its committed rows and locks (`Promise`,
`Taken`), and `KeepsPromise` says that its interleaved, repeated and aborted
statements do only what these steps do.  With the pinned gorm the steps it takes
are `List` and `Reserve`; that the others never come is what the run
`inventory_effects` shows.

`UpdateInventories` and `UpdateInventoryLock` give gorm a model whose struct
names no primary key (`internal/biz/inventory.go:41-60`: the fields are tagged
with a column only, and none is called ID).  gorm 1.31.1 then adds no WHERE
condition and refuses the statement, as `AllowGlobalUpdate` is off
(`internal/pkg/db/db.go:57`).  That is the behaviour with
`ModelIsKeyed = FALSE`.  With TRUE the same statements run as they read; it
exists so that the interleavings of the deduction and release paths are checked
too.  Even then a positive quantity fails: the negated value is *set* and
violates the CHECK of the table.

### Checkout

One checkout from the order to the reservation and the payment.  `order`,
`payment` and `lock` are the three tables; `stripe` and `events` are Stripe's
view.  `saved` and `published` are the messages that were ever put in an outbox
or on a topic.  They only grow: `Outbox` shows a message may be dispatched again
as long as some poller has it, Kafka redelivers after a rebalance, and neither
keeps an order between messages without key, so any message may be handled
again at any later time.  What a failure loses for good is a member of
`dropped`: an event whose callback failed (`ServeHTTP` returns without an error
status), a message given up by an outbox, a message a consumer marked although
its handler failed.  `dropped` only frees the fairness of the actions; the
message may have been handled in part, or again.

The order service's two loops, `Retrier.Run` and `HandleKafkaMessages`, share
one consumer group, and sarama's `Consume` keeps the group until its session
ends.  The code does not guarantee that the second ever gets it, so nothing it
handles is fair, and no liveness is claimed of an order's own status.

`handleOrderCancelled` is two steps, since its read and its update are two
statements without a transaction.  Who publishes on `order.cancelled` is left to
the constant `TimeoutMessages`: only the delay worker would, and no runner
starts it.

The effects of deduction and release are absent: with the pinned gorm they have
none.  A reservation is one step, which `InventoryKeepsPromise` proves of
`Inventory`.

### RetryQueue, DelayQueue and Consumer

`Consumer` is what sarama's `ConsumeClaim` loop works on: a log that starts at
the committed offset, the position of the session, and the marks.  A mark takes
along everything before it, a session that ends commits the marks, a process
that dies may lose those of the last second.

`RetryQueue` follows a release of stock from `Submit` in the outbox's dispatch
through `once` (call, wait, publish or give up) to `Run`'s handler and back.
Each call of `once` is a record that interleaves with the others.  A decoded
message has lost its counter (`Decoded`), since the field is not exported, and
runs the closure that was stored last (`Loaded`).  `lost` remembers the first
reason a message was marked without effect: the closure was another order's
(*foreign*), none was there after a restart (*no_task*), the wait was cancelled
by a rebalance or a failed sibling loop (*cancelled*), or it could not be
published again (*publish*).  The outbox submits an accepted release again if
the poll that had it accepted was rolled back.  A session of the group that
`Run` shares with `HandleKafkaMessages` is either's (`session = "other"`).

`DelayQueue` is the worker's session: fetching ahead, passing over what is not
due with a pause and a timer, sending on, marking.  No runner starts it, and
`Run` does not call `Consume` again after a rebalance, so `Run` is an action
that happens at most `MaxRuns` times and is never fair.

### Runtime

`Needs` and `Loops` list, for each service, what `wireApp` connects in order
and what its runner starts.  `Connect`/`Panic`/`Bootstrap` are `main`; every
`Start` is a step of its own, as `startAll` runs them in goroutines; `Signal`
and `StopServer` are Bootstrap's goroutine and `stopAll`.  A runner's `Stop` is
empty and its loops run under `context.TODO()`, so only a failed loop ends the
others (`Cancelled`, by errgroup).  Outages and the restarts of the cluster are
external.

### Catalog

A reader is a `ListSellerProducts` in progress: cache look-up, singleflight
(keyed by the seller only: everyone in the flight gets what the leader's query
yields), query, `Store`, `Track`.  A look-up that fails is a miss.  A writer
commits its rows and then runs `delProductCaches` in three Redis commands.  Each
may fail, and no caller looks at the error; a request that is broken off is one
whose remaining commands fail.  `Crash` ends a process with the requests and
flights it has.  It counts as a failure in `fails` if it leaves a stored key
out of the seller's set or a cache uncleared, and so `MaxFails` bounds both.
Every key has a time to live of about a minute (`Expire`).

`overlaps` is a history of what has overlapped so far: a fill and
a write, two callers in a flight, a write of a product and the keys of a seller
it is not of.  `FreshUnlessOverlapped` and `OnlyActiveIsPublic` say that nothing
but these, failures and such crashes makes a listing stale or shows a product
that is not active; TLC also shows that each of the exceptions is needed, as
removing one breaks the property.  `StaleListingsExpire` says of whatever they
leave behind that it does not last.  A product has one version for its name,
SKUs and prices, and two of the five statuses.  `flight` has one singleflight
per seller, as one process has: queries that several processes run for a seller
at the same time are modelled one after the other.

### Access, Purchase and Accounts

`CORSFilter` is everything a request passes before its handler; `Called` is the
same for the calls a handler makes itself, with the header that
`AuthClientInterceptor` writes.  `Purchase` has a request of a customer as a
record that goes from stage to stage, one per call to PostgreSQL, Redis, Stripe
or a peer; `Fail` may end it at each.  The transaction of CreateOrder is open
from `InsertOrder` to `CommitOrder`: another insert of its key waits
(`WaitsForKey`), and `Fail` rolls it back, but not its entry in Redis.
CreatePayment has no transaction, and its row has no key, so of two payments
of one key that overlap both are recorded.  Both services look
for the raw key; the order service writes a prefixed one, so its own entry is
never found, but the payment service's is.  Entries are pairs of a form and a
key; a client whose raw key itself begins with the literal prefix would meet the
entry of another key, which the pairs do not show.  `orders` numbers committed rows;
what becomes of an order and a session afterwards is `Checkout`'s.

`Accounts` keeps the look-up and the insert of Register apart, as the code
does.  A hash is a pair of salt and password.  An insert that commits but
returns an error is not modelled.

## The runs

| Run | Instance | Question |
|---|---|---|
| `outbox_safety` | 3 messages, 2 pollers, batches of 2, limit 1, 1 lost poll; symmetry | the safety of `AtLeastOnce` and the outbox's own invariants |
| `inventory_keyed` | 2 orders naming 2 SKUs in opposite order, 2 transactions, positive quantities | exactly-once reservations, with all calls running |
| `inventory_pinned` | the same with a SKU named twice, zero and negative quantities | the same against the pinned gorm; it implements `Stock` |
| `inventory_effects` | 1 transaction | **violated**: adjusting, releasing or deducting takes effect |
| `checkout` | 1 order; 2 sessions, or 1 session and 1 loss, or 2 losses; a time-out or losses | records are backed by Stripe, a charge reaches the inventory whatever another session did to its row, an order reserves |
| `checkout_confirmed` | 1 order, 2 sessions | **violated**: a confirmed order was paid |
| `checkout_twice` | 1 order, 2 sessions | **violated**: an order is charged once |
| `background` | retry queue: 2 orders, 1 end of a session, loop or process; delay queue: 2 messages, 2 sessions, 1 failure; runtime: each of the 5 services, 2 outages, 2 signals; outbox: 2 messages, 2 pollers, 1 lost poll | what may be lost, and what goes on; every saved message is settled |
| `catalog` | up to 3 products of 1 to 2 SKUs, 2 readers, 1 writer, 2 writes, 1 failed Redis command or crash; symmetry | stale, exposed or skipped products |
| `catalog_live` | 1 offline product, 2 readers, 1 write, 1 failed command or crash | a stale listing does not last |
| `catalog_asked` | the same without writes and failures | **violated**: a listing shows the status that was asked for |
| `storefront` | 3 requests over 2 SKUs and 2 keys, pages of one SKU, 1 price change; 2 registrations with 2 names and passwords | idempotency, amounts, refusals, accounts |

`background` and `storefront` hold several components that share no state.
`awake` picks the one that runs in a behaviour, so the runs check each of them
completely and none of their products.  What rests is in a state in which none
of its fair actions is enabled, so fairness asks nothing of it.

*Why the bounds are enough.*  Two pollers that share two rows in different
lists are the smallest deadlock, a third row exceeds the batch, and a limit of
one is reached and overrun by two pollers.  One lost poll at any place shows
every effect a rollback has on the rows; more of them only repeat it.  The
outbox's symmetry permutes messages and pollers; it is used with safety only.
Two orders that name two SKUs in opposite orders give lost updates, deadlocks
and partial work; one order with two sessions gives every race between the
sessions, and orders share no row in the order and payment services.  In the
retry queue two orders are what a foreign closure takes, and one end at any
place cancels, kills or rebalances (for any number of them `AcceptedReleaseIsKept`
is proved).  In the checkout no property relates a time-out to a lost message,
and what a session does to another's row takes two of them (`Bounded`).  In the
delay queue a passed-over message and a later one are what a mark needs to
commit past; two sessions show what the next one gets.  Two readers share a
flight and one writer overlaps both; a seller without listings of its own is
the second seller whose keys a write may clear; a catalog of three products
with a page of two SKU rows cuts a product at a boundary, and is only read
(`MaxWritten`), since page boundaries do not depend on the history.  A listing
that is stale or not depends on one product and one write after it.  A page
size of one makes an order of two SKUs take several pages.  Of three requests
two may race and a third repeat either; a request that is refused whatever
happens changes nothing, so it comes first (`RefusedFirst`).  For larger
instances the proofs below hold.

*What the bounds leave out.*  Polls lost are bounded by `MaxRollback`, messages
lost by `MaxDropped`; the liveness runs say nothing of a system that fails for
ever.

*Deadlock checking* is off where the system may come to rest (all messages
settled, orders done, requests answered, bounds reached); the inventory runs
check it.

### Fairness

- `Outbox`: `Run` ticks for ever, so a poller goes on (`WF` on its steps); time
  passes (`BecomeDue`).  A dispatch returns: a statement ends, the Kafka
  client has timeouts, and an RPC of a background task has no deadline but
  carries no token, which `AuthClientInterceptor` refuses before anything is
  sent.  Nothing is assumed of crashes.
- `Inventory`, in `inventory_effects` only: a merchant who adjusts the stock,
  and callers who release and deduct every order, again and again.  The strong
  fairness (`CallingSpec`) is on who calls, and on statements that can succeed,
  as generous to the code as possible.
- `Checkout`: Stripe repeats its calls, outboxes dispatch (that is
  `AtLeastOnce!Liveness`), and the consumers of the inventory service consume,
  each unless the message is dropped.  No fairness makes the customer or Stripe
  act, nor the order service handle a message.
- `RetryQueue`: none.  Its consumer group is promised to neither of the loops
  that share it, and a release never succeeds, as its RPC carries no token (see
  `Checkout`) and the counter that should end it is lost: it goes round for ever.
- `Catalog`: every request goes on, whatever its commands answer, and Redis
  expires keys.  A reader, a crash or a failure need not happen.
- `DelayQueue`: time passes, the consumer's select loop takes what is ready,
  the client fetches.  Sessions are not fair.
- `Runtime`: goroutines run, the cluster restarts a container that has ended
  (the default of a Deployment), and an outage ends.  Nothing is assumed of
  signals, kills or failures.
- `Purchase`: a call to PostgreSQL, Redis, Stripe or a peer returns; the gateway
  breaks a request off after 30 s (`misc/dev.envoy.yaml`), which cancels it.

### What the violated runs show

- `SomeCallTakesEffect`: `inventory.proto:10` says of AdjustStock that it "sets
  stock to a specific quantity.", line 17 of ReleaseStock "release reserved stock
  when a customer cancels an order.", and `001_init.sql:57` has a status
  *confirmed*, which only a deduction would set.  All three end at the first
  UPDATE that gorm refuses: even together and repeated for ever they change
  nothing.  With `ModelIsKeyed = TRUE` the property holds.
- `ShowsWhatIsAsked`: `product.proto:70` says of the status of a listing "filter
  by product status."; who joins another's flight gets the other's filter.
- `ConfirmedMeansPaid`: `handlePaymentStatus` confirms the order for the status
  *cancelled* as for *paid*, so an expired Stripe session confirms it; the
  customer is then told (`payment_service.go:106`) it "has been paid already".
- `ChargedOnce`: the same check looks at the order only, which stays pending
  while sessions are open; two of them can be paid.

## The proofs

Every invariant and every action property that a passing run checks is also a
theorem: tlapm checks the proofs in the seven `*Proofs` modules and in
`Induction` for every value of the constants, under the assumptions named in the
modules (`OutboxAssumption`: finitely many pollers and natural limits;
`InventoryAssumption`: items are non-empty sequences of SKUs and integers;
`CheckoutAssumption`; `RetryAssumption`, `DelayAssumption`: natural limits;
`RuntimeAssumption`: the services are among the five, and limits natural;
`CatalogAssumption`: products are numbered, have sellers and at least one SKU;
`PurchaseAssumption`: requests are well-typed, prices natural, and a page has
room for a SKU).

- **Induction.**  What the other proofs need of data of any size: the least
  number and the least subset of a non-empty set of them, induction over numbers
  and over finite sets, and sums.  Each is stated about sets and functions, since
  an operator cannot be passed to a lemma: a property is the set of those that
  have it.  A sum of the community modules is a function chosen by its recursive
  equation (`Summing`).  `SumsExist` shows there is one, `SumsUnique` that there
  is only one, and `SumRemove`, `SumAdd`, `SumUnion` and `SumMore` are then
  plain facts about `SumOf`.

- **Outbox.**  `OutboxTypeCorrect`, `SentMessagesWereDelivered`,
  `CountedRetriesFailed`, `OverrunIsBounded`, and `OutboxKeepsPromise`: `Spec`
  implies `AtLeastOnce!Spec`.  The inductive invariant `IInv` adds to the four
  properties what the pollers carry between their steps: what they have listed
  was saved; what is in `sentIDs` was delivered; the committed retries of a
  message and the pollers that have counted a failure of it but not committed it
  do not exceed `failures`; and the committed retries and the pollers that may
  still commit one stay within the bound of the overrun.  Without the last two
  the properties are true but not inductive: a commit would be free to exceed
  them.  The refinement maps a commit to one `Settle`, a dispatch to
  an `Attempt`, `Save` to `Accept`, and the rest to stutters.
- **Inventory.**  `InventoryTypeCorrect` for both settings of `ModelIsKeyed`.
  `ReservedIsWhatLocksHold` (`ReservedIsLocked`) for FALSE and any quantities, or
  TRUE and positive ones, which is what the two runs check: with keys a
  quantity that is not positive would pass the CHECK of the table, and a
  deduction or a release would take effect.  The property is about committed rows only; the
  invariant `LocksAddUp` follows each transaction through its UPDATEs.  What a
  row holds of an order is the sum of the items it has run so far (`DraftsAdd`),
  a row without a writer holds what the locks add up to (`SumsHold`), an item
  skipped for want of a row is in `missed` (`MissedItems`), and a transaction
  that deducts or releases gets past such items only (`SettlesNothing`).
  `InventoryKeepsPromise` (`KeepsPromise`) for FALSE: a commit maps to one
  `Reserve`, `BatchCreateInventoris` to `List`, and every UPDATE, lock and abort
  to a stutter.  It rests on the same invariant and on rows having one writer.
- **Checkout.**  `CheckoutTypeCorrect`, `PaidRowsAreCharged`,
  `DeductionsAreCharged` and `ConfirmedIsReported`, for any number of orders and
  sessions.  Charged and Reported are stable, since a session never leaves the
  state paid and keeps its order once Stripe knows it; the invariant says that
  every event, row and message on the way was backed by one of them when it was
  written.
- **Retry queue.**  `RetryTypeCorrect` and `NothingIsGivenUp`
  (`DeadLetterStaysEmpty`) rest on one fact: every message a call carries counts
  from zero, since `Decoded` resets what `Requeued` has counted.
  `AcceptedReleaseIsKept` (`AcceptedIsKept`) needs more, as a release is moved
  from the outbox to the queue and on in several steps.  `KeptInv` says that the
  consumer has at most one record taken and unmarked, the one it handles
  (`OneAtATime`); that a call about to return has released, lost or republished
  its order, one of the consumer behind the record it is about to mark
  (`Disposed`); and that what is accepted is safe beyond the marks.  Marking is
  then harmless, and committing and rewinding only move the marks.
- **Delay queue.**  `DelayTypeCorrect`, `DelayLosesBehindSent`
  (`LostBehindALater`) and `PassedOverIsNotSent` (`PassedOverWaits`).  The invariant
  relates the log, the position of the session and its marks to `published`: a
  mark is set or committed only behind a message that was sent
  (`MarkedBehindSent`), and what was skipped was delivered (`SkippedIsBehind`).
- **Runtime.**  `RuntimeTypeCorrect`, `SignalIsNotEnough`
  (`SignalDoesNotEndRunner`) and `RunnerTakesNoListenerDown`
  (`ServingOutlivesRunner`): a loop has returned only if one
  has failed (`LoopsInv`), since no one cancels its context.  `BackgroundTypeCorrect` is the `TypeOK` of
  the run `background`.
- **Catalog.**  `CatalogTypeCorrect`, `PagesShowEveryProduct`
  (`PagesVisitEveryProduct`), `OnlyActiveShown` (`OnlyActiveIsPublic`) and
  `CacheIsFresh` (`FreshUnlessOverlapped`), for any products, readers, writers and
  page sizes.  Pages: a page of at least one row shows a product, and all that
  come before its last one, so the token grows until nothing is left
  (`PagesVisit`); the limit may cut a product's SKUs, never skip a product.  The
  others share `CatalogInv`: a flight and its leader
  know each other (`Led`); what overlaps now has been counted (`Counted`); who may
  see active products only has asked for those, and what is held for a query
  conforms to it, unless a flight was shared (`AsAsked`); and if nothing has
  overlapped or failed and no process died half-way, what is about to be stored is
  current, every cached key is tracked or about to be, a writer has read all its
  seller's keys, and what is stale is still to be deleted (`Tracked`).
- **Purchase.**  `KeysMakeOneOrder` (`OneOrderPerKey`): a transaction that has
  inserted its order is the only one of its key, and no committed order has the
  key (`KeyIsHeld`); without it a commit could add a second.
  `DuplicatesWereMade` (`DuplicateWasMade`): an entry the look-up can find was
  written for a payment that is recorded, as is one about to be written; only
  the order's entry, which nobody looks for, outlives a rollback.
  `RetriesRecordNoSecondRow` (`RetryRecordsNoSecondRow`): the key of a payment
  answered ok is in Redis or among those Redis failed (`Remembered`), and a retry
  reaches its insert only in the second case.  The last two share `Effect` and
  `Keeps`, which say what a step does to a call and to what others rest on.
  A second invariant, `SoundInv`, gives `PurchaseTypeCorrect`, `AmountsAreTotals`
  (`AmountIsTotal`) and `RefusalsHaveReasons` (`RefusedForAReason`).  A call that
  was not refused at its entry bears a token and a key; a call that fetches SKUs
  knows those up to its token and no others (`Fetches`), as a page is all that
  matches up to its token (`PageUpToToken`), so the last page leaves no SKU out;
  a payment on its way has the lines of its order, then their total (`Owed`), which
  no change of a price and no cancellation touches.  That a total is a number
  (`TotalType`) is an induction over the parts of a set of lines.
- **Accounts.**  `AccountsTypeCorrect` and `RegisteredLogsIn`
  (`RegisteredCanLogIn`), for any visitors, names and passwords.  The invariant
  says that each row belongs to the visitor whose salt it has, that names are
  unique, that whoever was told to be registered has a row, and that a token
  names the row it was issued for.

- **Storefront.**  `StorefrontTypeCorrect` is the `TypeOK` of the run
  `storefront`: accounts and purchases each behave beside the other as alone
  (`StorefrontParts`).

*Model-checked only*: all liveness (`PromiseLiveness`, `ChargeReachesInventory`,
`OrderReservesStock`, `StaleListingsExpire`, `PauseEnds`, `SignalStopsServing`,
`ComesUp`, `RequestsEnd`), which needs ENABLED and is out of the prover's reach,
and the violations.

## Plan

The components are modelled and the safety properties of the runs are proved.
What is left is to state more:

1. A register of keys in which an order is made in one step, that `Purchase`
   implements, against the insert, the entry in Redis and the commit.
2. `Checkout`: that its outboxes and the retry queue keep what `Outbox` and
   `RetryQueue` prove of them is an assumption of the model, stated in its
   comments; a refinement would make it a theorem.

## Not modelled

- `ListOrders`: its query has no `ORDER BY`, so what its pages contain is up to
  PostgreSQL's planner, and nothing promises an order.
- `SearchProducts`: a read-only similarity search without a cache.
- The limits of the connection pools (`db.go:44`): they would need those of the
  deployment.
- The CORS headers: the allow lists omit `idempotency-key` (`cors.go`,
  `misc/dev.envoy.yaml`), which only a browser would enforce.
- The OAuth2 provider (no caller), `DeleteOrder` (no caller), signature checks,
  tracing, metrics, logging, configuration and generated messages.

`PROJECT.json` lists every component with its status and every hazard of the
code with the properties that cover it, or why none does.
