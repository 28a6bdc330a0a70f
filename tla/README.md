# Verification of the Taberna GMI2 backend

TLA+ specifications of the parts of this backend in which requests race for
shared rows: what a customer buys online or in the shop, what it costs the shelf,
who pays for it and who cancels it; the cash register, the catalogue, the staff,
the sessions and the address books. TLC checks them on small instances and TLAPS
proves their safety properties for all instances.

- [The system](#the-system)
- [The modules](#the-modules)
- [What the runs check](#what-the-runs-check)
- [Fairness](#fairness)
- [What is proved](#what-is-proved)
- [Where the code and its documentation disagree](#where-the-code-and-its-documentation-disagree)
- [What is not modelled](#what-is-not-modelled)
- [Plan](#plan)

Run a model with `tlc -workers 2 -config orders.cfg MCOrders.tla`, a proof with
`tlapm OrdersProofs.tla`.

## The system

A NestJS service over one PostgreSQL database, one MercadoPago account and an
e-mail provider. Every HTTP request runs one use case; use cases of different
requests interleave at every `await`. Two crons run in the same process. State
that outlives a request is in the database only, so the shared state of the
models is columns, and the local variables of a request are what it has read.

Five mechanisms carry the concurrency control, and the models rest on them:

- `TypeOrmUnitOfWork.execute` runs a callback in a transaction at PostgreSQL's
  default isolation, READ COMMITTED. Each statement sees what is committed when
  it starts, and a row that was updated stays locked until COMMIT.
- *Guarded updates*: `UPDATE ... SET x WHERE id = ? AND <guard>`, whose
  `affected` tells the caller whether the guard held
  (`atomicStatusTransition`, `atomicStockDecrement`, `incrementUses`).
- Unique indexes (order number, payment external id, one open register per
  staff member, slugs, codes, e-mails) and foreign keys.
- Row locks taken in order of product id, to avoid deadlocks.
- `repository.save(entity)` everywhere else: TypeORM reads the row again, by its
  primary key, and writes every column in which the entity differs from it. An
  entity that was read earlier therefore puts back what it read, in every column,
  and inserts the row again if it was deleted. A model of such a use case keeps
  the whole entity from its read to its save.

| Component | State | Operations | What makes it correct, and what is hard about it |
|---|---|---|---|
| Cart | `cart_items` | add, update, remove, clear | compares with stock without reserving it; a checkout deletes the cart by user and not by what it read |
| Online orders | `orders`, `order_items`, `order_events`, `products.stock`, `coupons.current_uses` | create, cancel, admin status change, admin notes, list | stock and coupon counters agree with the orders; checks are made on unlocked reads and repeated by the writes |
| Order expiration cron | local list, counters of a run | every 15 min, batches of 50, total 500 | the list is stale when used, runs may overlap, a transaction may fail; nothing pending is kept for ever |
| Payments | `payments`, provider's payments | preference, webhook (two protocols), verify, retry | one payment, notified several times and verified, settles its order once; a cancellation races all of it |
| Coupons | `coupons` | validate, increment, decrement, CRUD | the global limit under concurrency, the limit per user, whole-row saves of the CRUD |
| Point of sale | `orders` (channel pos), `payments`, stock | sale, cancel, full and partial refund | row locks taken in different orders, refunds that do not know of each other |
| Cash register | `cash_registers`, `cash_movements` | open, movement, close | what is sold or moved while a register is opened or closed |
| Shipping | `shipments`, order status | create, update | the shipment and the order's status move in separate statements |
| Products, categories, banners, settings | their rows | CRUD, adjust stock | whole-row saves that overwrite columns other requests changed; keys and parents checked by queries |
| Reviews | `reviews`, `products.average_rating`, `total_reviews` | write, edit, approve, delete | a rating computed by two statements and saved with the whole product |
| Staff | `staff_members`, `staff_invitations` | register, invite, accept, revoke, role, suspend | there is always a super administrator; an accepted invitation made an account |
| Auth and sessions, customers | `refresh_tokens`, `customers` | sign-in, refresh, logout, passwords, suspension, cleanup cron | rotation, reuse detection by family, two refreshes at once, revocation after the save |
| Addresses | `addresses` | CRUD, default | a limited number, one default |
| Order numbers | `order_number_counters` | next number | taken on another connection than the checkout's: gaps, and pool exhaustion |
| Wishlist | `wishlist_items` | add, remove | single statements under a unique constraint |
| Dashboard, search, POS reports | none | queries | - |
| Notifications, uploads | none | send, upload | fire and forget |
| Configuration, health, migrations, scripts | none | start-up | the constraints they declare are used above |

Interactions. A checkout reads the cart, the catalogue and the coupon, asks the
order-number generator, and in one transaction inserts the order, decrements
stock, increments the coupon and clears the cart. From `pending` on, five parties
may resolve an order: a payment notification, a payment verification, the
customer, the expiration cron, an administrator. They share nothing but the
order row: `atomicStatusTransition` picks the winner. The customer's
cancellation and the cron also give stock and coupon back in the same
transaction; the administrator's change is three statements without one. At the
point of sale the order is inserted with its final status; from then on tills
cancel and refund it in transactions while shipments and administrators move it
by single statements. Sales and registers meet only in the sum a closing reads;
the catalogue and the orders in the columns `stock`, `current_uses` and the
ratings of rows that both write; accounts and tokens in the revocations that
follow a save.

## The modules

| Module | Models | Theorems |
|---|---|---|
| `OrderStatus` | the statuses and `VALID_TRANSITIONS` | |
| `StockLedger` | abstract: reserve and return stock, whoever sells | in it |
| `OrderLifeCycle` | abstract: until it is shipped, one payment or cancellation resolves a pending order and the table says the rest | |
| `Orders` | cart, checkout, cancellation, expiration, payment, administrator, on stock and coupon | `OrdersProofs` |
| `OrderNotes` | `Orders` with the administrators' notes, which save an order whole | |
| `OrderExpiration` | the cron's runs: list, batch, failures, overlap | `OrderExpirationProofs` |
| `Payments` | payment links and retries, notifications, verification, idempotency, late payments | `PaymentsProofs` |
| `PosOrders` | sales, cancellations, refunds and expirations with row locks and deadlocks; shipments and administrators on the same orders | `PosOrdersProofs` |
| `CashRegister` | cash sales, order numbers, the connection pool; opening, moving and closing registers | `CashRegisterProofs` |
| `Catalog` | whole-row saves of products, categories, coupons, banners, settings; reviews and ratings | `CatalogProofs` |
| `Sessions` | customers and staff signing in; refresh tokens, their rotation, revocation and cleanup | `AccountsProofs` |
| `StaffAccounts` | invitations, new members, roles, suspension | `AccountsProofs` |
| `Addresses` | address books | `AccountsProofs` |
| `MCOrders`, `MCOrderNotes`, `MCPayments`, `MCPos`, `MCRegister`, `MCCatalog`, `MCAccounts` | values of the constants and symmetry for TLC | |

`Orders` implements `StockLedger`. `OrderExpiration` and `Payments` look closer at
two of the actions of `Orders`, `ExpireOrder` and `ConfirmPayment`, and leave out
what those do to stock. What the three say of an order is the same, and is
`OrderLifeCycle`, which each of them implements. Two writers of an order's status
are outside it because they do not heed the table of transitions: a delivery,
which moves an order from any status (`PosOrders`), and a note that is saved over
a change (`OrderNotes`). What is said of orders in the other modules is said of
orders that neither of them has touched so. `PosOrders` implements neither
abstract module, because the code does not: partial refunds may return more than
an order holds, and there are the deliveries. It composes the point of sale with
the shipments, the administrators and, for a sale that awaits MercadoPago, the
cron, whose query does not look at the channel. `CashRegister` composes sales
with numbers, pool and registers, `Catalog` the editors with the sales that move
the same counters. `MCAccounts` puts `Sessions`, `StaffAccounts` and `Addresses`,
which share no row, side by side in one run: its variable `part` says whose turn
a behaviour is, so that their states add up and do not multiply.

### Orders

| State | Code |
|---|---|
| `cart[u][p]` | `cart_items.quantity`, 0 without a row |
| `stock[p]` | `products.stock` |
| `uses[c]` | `coupons.current_uses` |
| `request[o]` | what a checkout has read (`items`, `coupon`), and after COMMIT the order's columns and lines |
| `status[o]` | `orders.status`, `"none"` before COMMIT |
| `events[o]` | `order_events`: status and author |
| `change[a]` | local variables of the administrator's request |

A checkout is four steps: `BeginCheckout` (open the transaction, read the
cart), `CheckCoupon` (read the coupon row), `CountCouponOrders` (count the
committed orders of the user with it), `CommitCheckout` (all writes). Other
requests run between any two. The writes are one step although they are many
statements: each is a guarded update evaluated on the row as it is once locked,
every lock is kept to COMMIT, and a statement that finds its guard false aborts
the whole transaction (`RollbackCheckout`, enabled at every point because any
statement may fail). No other transaction can see or change a row between two
of them. `Release` is the cancellation of customer and cron in the same way.
`UpdateOrderStatusUseCase` has no transaction, so `ReadForChange`,
`ApplyChange`, `RecordChange` are three steps and `AbandonChange` is a conflict
or a crash between them.

`OrderNotes` adds `ReadForNotes` and `SaveNotes`, the two statements of
`UpdateOrderNotesUseCase`. `OrderMapper.toOrm` copies the status, so the save
writes the status that was read if it finds another in the row.

Cart edits read and save without a lock. They are one step here: a late save
leaves a cart that some order of single steps leaves, or one of more units than
there is stock, which no checkout can commit.

### OrderExpiration

Orders are numbered by `created_at`; `old` is how many are past the threshold.
`run[k]` holds the local variables of `ExpireUnpaidOrdersUseCase.execute`:
threshold, the rest of the batch, `batchCount`, `totalExpired`. `ListBatch` is
`findPendingExpired`, `ExpireOrder`/`SkipOrder`/`FailOrder` the three ends of
an order's transaction, `EndBatch` the loop's condition. `totalExpired++` is
inside the callback, before the COMMIT, so a failing COMMIT may leave it counted.

### Payments

`links` are the orders with a payment link: the checkout asks for one after its
transaction and goes on without it when the provider fails (`LinkAtCheckout`), and
a retry asks again for an order it reads as pending (`RetryPayment`). No link is
ever taken back, so an order can be paid after its cancellation.
`provider[x]` is what MercadoPago answers for a payment, `rightAmount` whether
its amount is the order's, `row[x]` the row of `payments`, `trail[o]` the events
of the order, `inbox` the notifications on their way. `request[r]` is a
notification handler or a verification: `Receive`, `FetchInfo`, `Lookup`
(idempotency, order, amount: outside the transaction), `FindRow` (inside),
then `CommitPayment` or `UniqueViolation`. A unique violation aborts the
PostgreSQL transaction, so the re-query `upsertByExternalId` makes in its
`catch` fails too and everything is rolled back. `Lookup` merges three reads:
the order's total never changes, and of the order's status it only feeds the
text of an event. A second provider status, a refund for instance, does not
arise: the code asks for `approved` and ignores any other.

The administrator is not in this module. The table lets one mark a pending
order paid by hand (bank transfers are settled so), so `PaidIsBacked` speaks of
orders that nobody moved by hand.

### PosOrders

| State | Code |
|---|---|
| `stock`, `uses`, `status`, `sale`, `events`, `parcel` | `products.stock`, `coupons.current_uses`, `orders.status`, `order_items` and the coupon, `order_events`, `shipments.status` |
| `parts[o][p]` | the units partial refunds returned, as the metadata of their events tell |
| `tx[t]` | the local variables of a till's use case, and `todo`: the rows its UPDATEs have yet to lock, in the code's order |
| `lock[r]` | the transaction whose UPDATE holds the row |
| `desk[d]` | the local variables of a shipment's or an administrator's request |
| `passed[o]` | auxiliary: every status the order has had |

Here the locks are the subject, so the statements of a transaction are steps:
`LockRow` is an UPDATE that finds its WHERE true on the committed row,
`RejectRow` one that does not, `Commit` makes all the writes visible, `FailTx`
is any other error, `BreakDeadlock` PostgreSQL's choice of a victim. A sale locks
products sorted by id and then the coupon; a cancellation and an expiration the
order, the products and the coupon; a full refund the products and then the order; a partial refund
the products only. The statements of the back office are outside transactions, so
each is a step of its own and may be the last one (`Crash`).

### CashRegister

`sale[s]` is a cash sale from the request for a connection to its COMMIT and
later life, `counter` the day's row of `order_number_counters`, `register[r]` and
`movement[q]` the rows of the register, `request[q]` what a request has read. The
order number is taken on a second connection and committed at once: `TakeNumber`
needs a free connection while the sale holds one, and `TimeoutSale` is the pool's
`connectionTimeoutMillis`. An amount is the set of what was added up and an
instant the set of the sales dated by then, so `openedAt < created_at` is
`s \notin openedAt`; a closing is four statements.

### Catalog

One `row` record stands for the row of any of the five tables (`count` is stock
or uses, `key` a slug or code, `parent` a foreign key, `active` the columns of no
one else), because all are edited in one way: `Begin` reads and checks, with the
entity's own update (`ProductEdited` and the others) as what is to be saved,
`SaveRow` writes the whole entity under the unique index and the foreign key,
`RemoveRow` deletes under RESTRICT and SET NULL. Approving a review is a
transaction that locks the review; removing one is a series of statements without
one; both average, count, read the product again and save it. A rating is the set
of the marks it was computed from. An update of a product may state its stock,
whatever the row has (`sets`). `family` holds the use cases that run together, a
bound for TLC that the theorems do not have: they are for any `Families`, that of
all the use cases included. The auxiliary variables say what the row would
hold without overlaps (`serial`), and which rows (`drifted`) or ratings
(`unrated`) an overlap has touched since.

### Sessions, StaffAccounts, Addresses

In all three a request is a record of what it read and of its next statement, and
`alone` tells whether another request on the same account (customer, staff) ran
since it began. `Sessions` numbers tokens in the order of issue; a token is a
family member (`first`), of an age (fresh, expired, cleanable), issued under a
password and in the place of another token (both auxiliary). What a signed-in
user asks for passes `Admitted`, the guard that looks the account up. `mixed` holds the
accounts written by overlapping requests, or by one that is between its save and
its `revokeAllByUser`, or died there. `StaffAccounts` has members and invitations;
`raced` says that the last save of a member was not made by a request that ran
alone. `Addresses` has the books; `disputed` those in which an overlapping
request saved an address since the default was last marked.

## What the runs check

| Run | States | Properties |
|---|---|---|
| `orders` | 580 161 | `StockConserved`, `CouponAccounting`, `ReleasedIsCancelled`, `ImplementsLedger`, `ImplementsLifeCycle`, `TypeOK` |
| `expiration` | 83 174 | `ImplementsLifeCycle`, `OldOrdersResolved`, `RunsEnd`, `TypeOK` |
| `payments` | 523 328 | `PaidIsBacked`, `RecordedIsSettled`, `ImplementsLifeCycle`, `ApprovedIsRecorded`, `TypeOK` |
| `pos` | 733 778 | `StockMatchesHistory`, `CouponMatchesSales`, `OnlyRefundsDeadlock`, `HistoryFaithful`, `TransactionsEnd`, `TypeOK` |
| `register` | 791 479 | `OneOpenPerStaff`, `CountedOnce`, `NothingMissed`, `NumbersUnique`, `SalesEnd`, `TypeOK` |
| `catalog` | 1 049 967 | `ReferencesResolve`, `KeysUnique`, `CountsKept`, `RatingRepaired`, `TypeOK` |
| `accounts` | 899 156 | `RotatedNotLive`, `RevokedStays`, `SessionsCurrent`, `AcceptedHasAccount`, `SuperAdminUnlessRaced`, `BooksInOrder`, `AccountsTypeOK` |
| `orders_coupon_per_user`, `orders_admin_cancel`, `orders_notes`, `payments_late`, `pos_settled` | - | the [disagreements](#where-the-code-and-its-documentation-disagree) |

**orders.** Two customers, two checkouts, two products (two units of one, one of
the other: see `MCStock`), one coupon with one use, one administrator who asks
for `paid`, `cancelled` or `refunded`. Two checkouts are what it takes to race
for the last unit or the last use; two products let a checkout find the first
line and miss the second; a stock of two lets an order take one unit or both. A third order adds no new pair of racing transactions, and
the theorems cover any number. `StockConserved` says that shelf and unreleased
orders add up to the initial stock. `CouponAccounting` says that `current_uses`
is the number of orders that hold the coupon, and within `max_uses`:
`decrementUses` names no order, so only the orders can tell a double decrement.
`ReleasedIsCancelled` is the race of an administrator with a cancellation, and
`ImplementsLifeCycle` that of payment, customer and cron: the resolvers of an
order are the events they leave, and the abstract specification gives it one.

**expiration.** Three orders in batches of two make a second batch necessary;
`MaxTotal = 1` puts the limit of a run inside a batch; two executions overlap at
every point. `RunBounded`, a conjunct of `TypeOK`, states what the loop guarantees: the limit is tested
between batches, so a run may pass `maxTotal` by up to a batch minus one.
`docs/modules/orders.md:132` says at most 500 per execution; with batches of 50
the code guarantees 549, reached when some listed orders were resolved meanwhile
so that the count is not a multiple of 50 when tested. A run that never skips
stops at exactly 500, and the real rows differ by a few, so the bound is stated
as the code has it and not reported as an error.

**payments.** One order, two payments of either amount, both protocols, two
concurrent handlers and a verification, one failure. Two payments are what
`retry-payment` makes possible; two handlers race for one row. One failure is
the bound under which `ApprovedIsRecorded` is a promise of the code: each
approval is announced twice (WebHook and Feed), so one loss is covered and two
are not, because the controller answers 200 to what failed.

**pos.** Three transactions are the least in which two race for an order a third
one sold, or wait in a cycle; two orders let a sale run while the other order is
settled; two products, asked for in either order (`MCRequests`), are the least for
which sorting matters; one use of one coupon and a stock of three and two make the
limits bind. A sale is asked for with the coupon, without it, or with it and
payment by MercadoPago, which leaves it pending for the cron. Tills, and the orders sales ask for, are numbered in the order of
arrival: the numbers only name them, and naming them otherwise gives no other
behaviour. One desk suffices because its requests are checked against every
interleaving with the tills, and the theorems cover any number; the administrator
asks for `processing` and shipments are delivered, the two moves that change what
a till may do. `StockMatchesHistory` and `CouponMatchesSales` hold the counters
against the order's own records; what the returns of one order add up to they do
not bound, because the code does not. `OnlyRefundsDeadlock` finds which
transactions can wait for each other, `HistoryFaithful` tells what the statements
outside any transaction can leave behind.

**register.** Two sales of two sellers and a pool of two connections: each sale
may hold one and want another, which is the whole pool. Four requests of one
cashier for two registers: the least in which a register is closed while another
opens, or a row stored late reaches back over a register opened and closed
meanwhile. A second closing of a register after another was opened needs a fifth
request (the disjunct `again` of `CountedOnce`); the theorem covers it.
`CountedOnce` and `NothingMissed` name exactly which sales a closing may count
twice or miss.

**catalog.** Two rows of each kind that has relations, one of the others, two
editors, two keys, counts up to one. All use cases at once are out of TLC's reach.
`MCFamilies` lists seven sets of them, of which a behaviour runs one, such that
any two use cases that change the same row run together in one of the sets: edits
of a product with sales, with adjustments, with moderations, with deletions of its
category. `CountsKept` says that a counter is what sales, redemptions, adjustments
and stated stocks make it unless a save overlapped with another change, and is so
again once a lone update states the stock; `RatingRepaired` that the next moderation that runs alone puts a wrong rating
right.

**accounts.** Two requests at once, one account of each kind, two tokens, two
passwords; two members, e-mails and invitations; two books with three addresses
and a limit of one, so that a limit is reached by the least that can pass it.
`SessionsCurrent`, `SuperAdminUnlessRaced` and `BooksInOrder` say precisely when
a session, the last super administrator or a default can be wrong: after an
overlap or a death between two statements, and no other way.

Where one run is bounded most tightly (`pos`, `catalog`, `accounts`), random
simulation of instances with one more transaction, editor, request or token
visited between ten and thirty million states each and met no violation.

Deadlock is checked in `expiration`, `payments`, `catalog`, `accounts` and
`payments_late`. In `Orders`, `PosOrders` and `CashRegister` the orders, tills and requests are
finite and a state in which all of them are settled is an end, so their
configurations switch it off; there, `TransactionsEnd` and `SalesEnd` say that
nothing waits for ever.

Each property is known to notice a plausible bug: the operators marked *Mutant*
in the modules stand just before the definition they would replace (an UPDATE
without its guard, a check dropped, a limit left out), and with each in place TLC
finds the property violated.

## Fairness

`Orders` and `OrderNotes` need none: their properties are safety.

`OrderExpiration`: weak fairness of each run's next step, because the scheduler
starts runs for ever and a running loop goes on; strong fairness of the
cancellation of each order by some run, because nothing in that transaction can
fail permanently (its statements are updates by primary key and an insert), so an
order tried again and again is not refused each time. Customers, and the passing
of the threshold, are under no obligation. The assumption matters: with
fifty orders whose transactions always failed, `batchCount` would stay at
`batchSize`, `totalExpired` at 0, and the loop would list the same fifty for
ever. It would also keep the orders behind them waiting.

`Payments`: weak fairness of the steps of a request that has begun; strong
fairness of the reception of each payment's notifications, since the provider
keeps delivering and handlers are shared with other payments. Neither the
provider's approval nor the customer's verification is assumed.

`PosOrders`: weak fairness of the next step of each open transaction
(`TillRuns`). A use case awaits one statement after the other; PostgreSQL gives a
released lock to a waiter and ends a wait cycle by aborting one of its
transactions. A transaction that waits for a lock has no step enabled, so
`TransactionsEnd` really depends on the others ending and on `BreakDeadlock`.
Nobody is obliged to open a transaction and the back office owes no step.

`CashRegister`: weak fairness of each sale's next step (`SaleRuns`): it gets a
connection that is free, or the pool gives up after 5 seconds. Without
`TimedOut`, two sales that hold the two connections wait for ever, which is the
mutant of `SalesEnd`.

`Catalog`, `Sessions`, `StaffAccounts` and `Addresses` promise nothing in the
end: their properties are safety.

## What is proved

Every invariant and every refinement that a passing run checks is also a theorem,
for all values of the constants. The assumptions are the named `ASSUME`s of the
modules, which TLC evaluates in the runs. They say that constants have their
types and that "no order" and the like are not orders; that rows of different
tables are different rows; that the orders of `Orders` and `PosOrders` and the
requests in flight on the address books are finitely many; that the limits of a
book, a batch, a pool and a counter are positive.

The proofs have one pattern: an inductive invariant that implies the property, a
lemma that the initial states satisfy it, a lemma per action that preserves it,
and a temporal step that combines them. The invariants say what a request in
flight still knows: which of the facts it has read cannot have become false, and
which hold only as long as nobody else touched its rows.

**StockLedger.** `LedgerConserves`: every unit is on the shelf or held by one
order. The units an order holds are given names, so that the units of all
orders form one finite set; reserving adds as many as it takes from the shelf
(`AddUnits`), returning removes as many as it puts back, and one order's units touch no
other's (`SplitUnits`).

**OrderLifeCycle.** Three theorems, `OrdersFollowLifeCycle`,
`PaymentsFollowLifeCycle` and `RunsFollowLifeCycle`, map a component each. What
resolves an order are its events in `Orders` and `Payments` (with the payment
they name, so that a second payment of one order is told from the first) and its
status in `OrderExpiration`. A guarded update that finds its order pending is
`Resolve`, an administrator's is `Move`, and all that reads, fails or comes late is
a stutter. The step is where the invariants are needed: that a pending order has
no resolving event yet, and that an administrator in flight holds a pair of the
table. `OrdersResolvedOnce`, `OrdersConfirmedOnce` and `SettledOrdersStay` say in
each module's own terms what this amounts to there.

**Orders.** The inductive invariant `OrderInv` adds three parts to the type
invariant and `ReleasedIsCancelled`:

- `PlacedRows`: a row exists exactly when its checkout committed, and has no
  event before. Without it a payment could confirm an order that is not there.
- `OneResolver`: a pending order has no event of a payment, customer or cron.
  Without it the next resolver would be a second one.
- `ChangeFromTable`: an administrator in flight holds a pair of the table. This
  is where a stale read is harmless: `cancelled` has no successor, so a request
  can hold it as *from* only if the table were different.

From it: `OrdersTyped`, `ReleasedOrdersAreCancelled`, `OrdersResolvedOnce`.
`OrdersImplementLedger` maps an order to `free` before its commit, `held` from
then on and `returned` once its events show that the customer or the cron
released it; a commit is a reservation, a release is a return, every other step
stutters. `OrdersConserveStock` is the ledger's theorem carried over the
mapping. `CouponsAccounted` is proved by counting the orders that hold a coupon:
a commit adds one to the counter and one to the set, a release removes one of
each.

**Payments.** `PaymentInv` needs `RequestsInform` (a request past the provider
works on an approved payment, one in the transaction on a payment of the order's
total: facts that cannot become false, which is why reading them outside the
transaction is enough) and `SettledByOne` (a pending order has no settling
event). From it: `PaymentsTyped`, `PaidOrdersAreBacked`,
`RecordedPaymentsSettle`, `OrdersConfirmedOnce`.

**OrderExpiration.** `ExpirationTyped` includes `RunBounded`, which is not
inductive alone: `BatchLeft` says that what a run has counted in this batch and
what it has left of it are a batch at most, so the test between batches bounds the
total. The lemma on `Oldest` shows that the query's LIMIT bounds a batch for any
number of expired orders. `RunsBounded` states the bound by itself, and
`SettledOrdersStay` follows from the guard of the UPDATE for any number of runs.

**CashRegister.** `RegisterInv` has a part for each fact the properties rest on:
`PoolInv` (connections given out), `NumbersBelow` and `CommittedNumbered` (numbers
are those the counter has passed), `OneOpen`, `WorksOnRegister` (a closing works on
a register its staff opened), `SalesCounted`, `OneBeforeTheOther` (of two registers
of one staff member, one was stored after the other was closed, or closed again),
`MovementsStay`, `ClosingMisses` and `MissedCancelled` (what a closing in flight
has not counted was not there when it began, or was cancelled since). From it:
`RegisterTyped`, `OneRegisterOpen`, `OrderNumbersUnique`, `CashCountedOnce`,
`ClosingsMissNothing`.

**PosOrders.** `PosHolds` has four invariants side by side, each relying on the
first:

- `PosInv`: `EndsLocked` (a transaction that ends an order has locked it in the
  status it is to leave, or has yet to lock it), `SaleAlone` (no other
  transaction has the order a sale is making), `PartialSeen` (a partial refund
  repeats a status the order had) and `DeskHolds` (what the back office read, and
  that it asks for a pair of the table or for a delivery). From it: `PosTyped`,
  `EventsTellHistory`, and `OnlyDeliveryLeavesSettled`: of all that `PosOrders` has,
  only a delivery moves a cancelled or refunded order, which is the disagreement
  that the run `pos_settled` shows.
- `CouponInv`: `RowsOfCoupons` (the counter is the size of the set of orders that
  hold the coupon; a cancelled or expired order is one whose status only a delivery
  changes, so it does not end twice), `UseLeft` (a sale that has locked its coupon has
  a use left) and `CouponOfOrder`. From it: `CouponsMatchSales`.
- `StockInv`: `OrderLines` (an order that ended can only be delivered, and one
  that is not there sold nothing), `StockLeft` (for each product of a sale, either
  it has its row yet to lock or it holds the lock and the shelf has what it sells:
  this is what the second evaluation of `stock >= quantity` under the lock is
  for) and `LinesOfOrder` (what ends an order gives back the lines of the order
  as it is). From it: `StockMatchesRecords`.
- `LockInv`: locks are held by open transactions, and `LocksAscend` (but for a full
  refund, a transaction has its remaining rows in one order, the order's row, then
  products by id, then the coupon, and holds none above them). From it: `DeadlocksNeedRefunds`. If no
  transaction of a cycle is a full refund, the row each waits for is below the
  row that the holder waits for. Those of the cycle whose row is above that of
  one of them are themselves stuck, and leave that one out, so the cycle was
  not minimal; no induction on its length is needed.

The order in which rows are locked is that of `SortSeq`, which is defined by a
permutation with certain properties that CHOOSE picks. `Places` shows that there
is one, the place of an entry being the number of entries before it, and that it
is a bijection because a finite set has no injection onto a proper subset of
itself; `SortedRearranges` concludes that sorting loses and repeats nothing.

Stock is a sum over orders and over the lines of each. The sums are
`MapThenSumSet`, a recursive function over the subsets of its set. The induction
theorems of the library cannot be used, so `SetInduction` restates induction
over the numbers as a statement about sets (one that has 0 and the successor of
each number it has, has them all) and gets that from the pigeonhole theorem: of a
number left out, adding one would map the members up to it into themselves and
miss 0. With it: `FoldExists` (the recursion defines a function), `FoldTakesOut`
(any element may be taken out first, not only the one CHOOSE picks) and
`FoldChanges` (a change of one term changes the sum by as much), which is all the
proof of a COMMIT uses.

**Catalog.** `CatalogInv` adds to the four properties `RowsBlank` (a row that is
not there left nothing), `ReviewsFit` (a review is of a product that exists),
`Fits` (what a request is about to write is fit to be written whatever overlaps),
`AsRead` and `Lone` (a request still marked as alone has its row for itself, and
has read the count, which it writes back or replaces by the one it states, and the
reviews as they are) and `RatingsHold` (a rating that
is not right has been touched by an overlap, or a removal in flight is about to
set it). From it: `CatalogTyped`, `ReferencesAlwaysResolve`, `KeysStayUnique`,
`CountsAreKept`, `RatingsAreRepaired`. References and keys hold without any
condition on overlaps because the database checks them at the write; counts and
ratings rest on `AsRead` and hold only as long as it does.

**Sessions.** `SessionsInv` adds to the type invariant `Holds` (a request past its
rotation holds a token that is gone) and `TokensInOrder` (tokens are issued in
order, and in the place of one that is gone). From it: `SessionsTyped`,
`RotationLeavesOne`, `RevocationIsFinal`. `CurrentInv` adds what makes a session
current: `Formed` (what a request is about to write is well formed whoever runs)
and `Apart` (a request that is alone on its account is the only one there, and
the password it will write or issue under is the account's). From it:
`OpenSessionsAreCurrent`.

**StaffAccounts.** `StaffInv` has `RowsFit` (members that are not there have no
e-mail; acceptances have accounts), `Fits` (what each request in flight has read
still holds of the columns nobody changes) and `Alone`: a request that runs alone
has read the rows as they are, and what it is about to save leaves a super
administrator. From it: `AcceptedHaveAccounts` and `OnlyRacesTakeTheLast`, which
says of any number of members that the documented rule is lost to overlaps only.

**Addresses.** `BooksInv` has `Room`, the strengthening that makes the limit
inductive: the addresses in a book, those that requests hold and may insert
again, and the insertions under way are together at most the limit and the
number of requests less one. `Carries` and `OneCustomer` say that an address is
not given to another customer while a request holds it, and that a request alone
on its book saves what is there. From it: `BooksStayInOrder`. `AccountsCompose`
shows that the run's composition of the three modules implements each of them,
and `AccountsTyped` carries their type invariants over to it.

Model-checked only: the liveness properties (`OldOrdersResolved`, `RunsEnd`,
`ApprovedIsRecorded`, `TransactionsEnd`, `SalesEnd`). They rest on fairness and so
on ENABLED, which TLAPS does not support.

## Where the code and its documentation disagree

1. *Coupon limit per user* (`orders_coupon_per_user`). `docs/modules/coupons.md`
   has the coupon locked before its validation; `create-order.use-case.ts:162`
   counts committed orders with no lock. Two checkouts of one customer both count
   zero and both commit. The limit per coupon is not affected: `incrementUses`
   has it in its WHERE.
2. *Cancelled by an administrator* (`orders_admin_cancel`). The documented
   cancellations restore the stock; the table allows `pending -> cancelled`
   through the status endpoint, which does not.
3. *Payment of a cancelled order* (`payments_late`). Documented as flagged for a
   refund by an event. A verification that loses the race records the payment and
   no event, and the notification that follows is then skipped as processed.
4. *A note over a change* (`orders_notes`). `docs/modules/orders.md:137-146` lists
   the transitions, and none leads out of `cancelled` or back to `pending`. An
   administrator's note (`update-order-notes.use-case.ts:30`) saves the order with
   the status that was read, so a cancellation or a payment in between is taken
   back; the stock of an order cancelled twice is returned twice.
5. *Delivery of a settled order* (`pos_settled`). The same lines, and
   `VALID_TRANSITIONS` in `order.entity.ts:11-23`, have `delivered` after `shipped`
   only. `update-shipment.use-case.ts:75-81` moves an order to `delivered` from any
   status, a cancelled or refunded one too.

`PROJECT.json` quotes the lines. These others show in the models, or in the code
they were read from, and have no run of their own:

- *Refunded quantities.* `docs/modules/pos.md:233` has them validated against what
  was bought, and `pos.md:296` an error for exceeding it. Each partial refund is
  compared with what was sold and not with earlier refunds, so repeated ones, or a
  partial one and then a full one or a cancellation, return a unit twice (`parts`
  in `PosOrders` is not bounded by the lines; `refund-pos-order.use-case.ts:84`).
- *The last super administrator.* `docs/modules/staff.md:27` wants one active at
  any moment. Suspension, demotion and update count the active ones and save the
  member in separate statements without a lock; two requests count two and take one
  each. `SuperAdminUnlessRaced` has this as its exception.
- *Closed registers.* `pos.md:251` has them immutable. Of two closings that both
  found the register open the second writes the closed row again (`again` in
  `CashRegister`).
- *Repeated notification.* `docs/modules/payments.md:54` has it ignored. The check
  is outside the transaction (`process-payment-notification.use-case.ts:170`); two
  handlers pass it, and the second flags for refund the payment that confirmed the
  order (the event `late` in `Payments`).
- *Order numbers.* `orders.md:93` and `151` have them without gaps. A number is
  taken on another connection and stays taken when its transaction rolls back
  (`counter` in `CashRegister`). Also, the date in the number is the process's and
  that of the counter is `CURRENT_DATE`, which differ around midnight.
- *Reuse of a refresh token.* `docs/modules/auth.md:105` has it revoke the family.
  Two refreshes at once with one token both find it good: either both get a
  successor, or the second revokes the family before the first adds to it
  (`Renew` in `Sessions`). `RotatedNotLive` is about the token that is rotated.
- *Addresses.* `docs/modules/addresses.md:34` allows ten;
  `create-address.use-case.ts:25` counts them before its insert. `LimitHolds` says
  by how much requests in flight together may pass the limit: by one less than
  their number.
- *Expired orders.* `orders.md:124` has the cron skip locked rows
  (`FOR UPDATE SKIP LOCKED`); `findPendingExpired` takes no lock, and overlapping
  runs list the same orders. `ImplementsLifeCycle` of `expiration` shows that this
  does no harm. A comment in `create-order.use-case.ts:285` has orders of manual
  payment stay pending until an administrator verifies them, while the cron's
  query does not look at the payment method.

One behaviour contradicts no document: two updates of categories may make each the
other's parent.

## What is not modelled

Prices, discounts and rounding, snapshots of addresses, e-mails, hashing and
signatures, filters and pagination: the properties do not tell them apart. An
order number is a number of one day; the next day starts another counter. Of the
components, these have no module:

- *Wishlist*: single statements on a set of products under a unique constraint;
  no property of it takes two steps to break.
- *Dashboard, search, POS reports*: queries that change nothing.
- *Notifications, uploads*: I/O that nothing waits for or reads back.
- *Configuration, health, migrations, scripts*: start-up and schema. Constraints
  the migrations declare are definitions of the modules that depend on them.

`Orders` is a statement about online orders among themselves, and `PosOrders`
about those of the shop: stock adjustments, edited coupons and moderated reviews
write the same rows whole, and `Catalog` says what that does to a counter
(`CountsKept`). It is not repeated in the modules of the orders, whose
properties it would weaken by the same exception.

`OrderNotes` composes the notes with `Orders` and not with `PosOrders`, whose
orders may have notes too: the effect is the same there, and of the same kind.

## Plan

What is left, in this order:

1. The notes in `Orders` and `PosOrders` themselves, with the orders that a note
   has overtaken as an auxiliary variable, and the theorems with that exception:
   it would say what still holds of the other orders and of the shared counters.
2. `Catalog` and `PosOrders` share `stock` and `current_uses`; a module that
   composes the counter's row with both would say in one place what `CountsKept`
   and `StockMatchesHistory` say in two.
3. A refinement of `OrderLifeCycle` for the shop: a version in which a delivery or a
   till moves an order too, with what `PosOrders` still promises of it.
