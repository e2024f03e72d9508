# A formal model of CommerceCore

CommerceCore is a small shop: a NestJS backend over PostgreSQL (TypeORM), Redis
and the TossPayments gateway, and a React single-page application. This
directory holds TLA+ modules that model the parts of it whose correctness
depends on the order of events, the TLC configurations that model-check them,
and proofs, checked by TLAPS, that hold for every size of the system.

Paths below are relative to `src/backend/src/` unless they start with `frontend/`.

    tlc -workers 2 -config MCOrdersStock.cfg MCOrders.tla     # one run
    tlapm OrdersProofs.tla                                    # the proofs of one module

## 1. Inventory

| Component | State it keeps | Operations | Hard behaviour |
|---|---|---|---|
| Orders (`orders/`) | rows of `orders`, `order_items`, `product_options.stock`; row locks | `createOrder`, `reclaimExpiredPendingOrders`, `restoreOrderStock`, lookups, `validateStock` | overlapping checkouts, unsorted lock order of returns, candidates read before they are locked, rollbacks, deadlock victims |
| Payments (`payments/`) | `payment_key` and `status` of an order; what the gateway did | `confirm`, `cancel`, `requestTossWithRetry` | lost, late and reordered gateway requests, a refund inside a transaction that may roll back |
| Admin: orders (`admin/`) | `status`, `delivery_events` | `updateOrderStatus`, `addDeliveryEvent` | races with confirmation, reclaim and other admins |
| Admin: stock and products | `product_options`, `products` | `restockOption`, `getStockOverview`, `createProduct`, `softDeleteProduct`, `addProductOption` | absolute stock written without a lock, SKU checks before inserts |
| Admin: statistics, lists | none | `getStats`, `getMembers`, `getBuyers`, `getRecentOrders` | boundaries of months, pages and hidden states |
| Admin events and screens | one-use tickets in Redis, an in-memory subject, the browser's copy of the stock and of a list | `issueSseTicket`, `AdminSseGuard`, `DomainEventsService`, `AdminPage` and its sections | snapshot against events, lost events on reconnection, order of emission, effects that run again, answers that overtake one another |
| Cart (`cart/`) | Redis hash with a TTL, rows of `cart_items` | `addItem`, `updateItem`, `removeItem`, `getCart`, `mergeGuestCartIntoUser` | several commands per request, nothing atomic; crash between two of them; expiry at any moment |
| Auth, sessions (`auth/`, `common/`) | `users`, sessions in Redis | `register`, `login`, `logout`, `resolveSession`, guards | concurrent registrations, stale roles, expiry |
| Catalogue, image search (`products/`) | a cached first page | `findAll`, `findOne`, `searchByImage` | stale cache, ranking and paging |
| Browser (`frontend/`) | cart id, session token (`localStorage`), user shown by each tab | `CheckoutPage`, `PaymentSuccessPage`, `AuthContext` | repeated confirmation after a reload, tabs that share a token, answers after a logout |
| Schema (`migrations/`) | tables, types, indexes, the seeded catalogue | fourteen migrations, each up and down; start of a server, `migration:revert` | a database made by hand, rows admins changed, reverts that meet reused SKUs |
| Storage, health, filters, logging, throttling, scripts | none of the shop's state | | |

How they interact. A request of the browser is one asynchronous handler; handlers
interleave at every `await`. They share the database, whose row locks
(`SELECT ... FOR UPDATE`, `UPDATE`) are the only synchronisation, and Redis, which
they use without any. `createOrder` and `getStockOverview` call the reclaim
first, which runs one transaction per abandoned order; the reclaim and
`updateOrderStatus` share `restoreOrderStock`; `confirm` and `updateOrderStatus`
call the gateway while they hold the row lock of the order. After a commit,
handlers emit events on an in-memory subject that the SSE endpoint forwards to
dashboards. `login` and `register` merge the guest's cart, `createOrder` deletes it.

What makes each component correct:

- orders: no unit is sold twice, lost or made up; an order gives its stock back
  exactly once; checkouts do not deadlock with one another; every request is
  answered; an abandoned order leaves PENDING;
- payments: an order that left PENDING is not charged by a live handler; the key
  on the row, the status and what the gateway did agree; the retry loop is one call;
- delivery: stages in order, none skipped or repeated, DELIVERED with the last one;
- cart: a request that meets no other on its carts takes effect as a whole, a login moves
  every unit once, a guest's cart has an expiry;
- events: the dashboard has one stream, which comes back after every failure; what its
  pages promise to show while connected is refuted (section 3);
- catalogue: one active option per SKU, none of a deleted product but one that was added
  across the deletion;
- sessions: one account per address; a right does not outlive the role; a tab shows the
  user whose session it uses;
- payment pages: a page that says paid is right about the gateway and the order, one that
  says failed about the order;
- schema: the next start succeeds, and what admins entered survives it.

`PROJECT.json` lists every hazard found in the survey at its line, with the
properties that address it.

## 2. The modules

    StockLedger            what the stock promises: reserve, release, advance, restock
      ^ implements (LedgerSpec)
    Orders                 handlers, transactions, row locks, gateway, faults
      ^ EXTENDS            OrdersInvariant: the inductive invariant     MCOrders: instances
                           OrdersProofs, OrderRowProofs, OrderLockProofs

    PaymentCall            what one gateway call promises to a handler of Orders
      ^ implements (CallSpec)
    TossRetry              the retry loop, the network, the gateway's idempotency keys
                           TossRetryProofs

    ShopperCart            what a cart promises to requests that meet no other on it
      ^ implements (CartSpec, through a refinement mapping)
    Cart                   every Redis command and SQL statement     MCCart: instances
                           CartProofs

    Catalog                products, options and their events, statement by statement
      ^ EXTENDS
    Dashboard              AdminPage in one browser, over Catalog    MCBackoffice: instance
                           BackofficeProofs

    Sessions               accounts, sessions and guards, statement by statement
      ^ EXTENDS
    Storefront             tabs of one browser, over Sessions        MCStorefront: instance
                           StorefrontProofs

    Schema                 the migrations and the requests between them
                           SchemaProofs

The properties of a component are defined in its own module, after its actions, so that
the runs and the theorems speak of the same formulas; an MC module has only what a
configuration cannot write down (`TossRetry` and `Schema` need none).

### Orders

A process is an HTTP request being served. `pc` says how far its handler has
come, `job` what was asked, `cur` the order row its transaction works on. Rows
are the committed ones: what a transaction writes is invisible until it commits,
so its writes belong to its commit action. What it has *read* under a lock is kept
in `snap`, because the code writes back `option.stock - quantity` computed from
the value it read (`orders.service.ts:145-165`, `308-311`) and not an increment;
with a lock missing this is the lost update the lock prevents.

| Actions | Code |
|---|---|
| `CreateOrder`, `ScanCandidates` ... `ReclaimCommit`, `StartOrder`, `LockOption`, `CreateCommit`, `StockInsufficient` | `orders.service.ts` `createOrder` 99-223, `reclaimExpiredPendingOrders` 225-276 |
| `StartLocking` with `sorted = FALSE`, `PutBack` | `restoreOrderStock` 278-326: its lookup has no ORDER BY |
| `Confirm`, `LockOrder`, `PgConfirmOk`, `PgFailed`, `SaveConfirm` | `payments.service.ts` `confirm` 38-80 |
| `UpdateOrderStatus`, `PgCancelOk`, `SaveStatus`, `CancelCommit` | `admin.service.ts` `updateOrderStatus` 616-681 |
| `AddDeliveryEvent`, `SaveDelivery` | `addDeliveryEvent` 688-742 |
| `RestockOption`, `RestockReload`, `RestockUpdate` | `restockOption` 522-559: find, then the reload and the UPDATE of `save` |
| `GetStockOverview`, `SweepDone` | `getStockOverview` 183-204 |
| `Abort`, `DeadlockVictim`, `PgSilent`, `PgLate`, `TtlPasses` | external: PostgreSQL, the gateway, the clock |

The gateway's part is deliberately generous: it may act although the handler hears
nothing (`PgSilent`), and act after the handler has rolled back (`PgLate`).
`TossRetry` shows that the retry loop offers no more than that.

Left out of `Orders`: prices, addresses and names (no guard reads them but the amount,
which is the Boolean `amountOk` of a confirmation), order numbers (an order is its
row; running out of numbers is an `Abort`), the events, the cart.

### TossRetry

One call of `requestTossWithRetry` (`payments.service.ts:133-189`) and its two
callers: attempts, the abort timer, sleep, the error body, which is read outside the
timer. The network holds requests that were given up and delivers them in any
order. The gateway captures once, replays the answer of an idempotency key it
knows, and says ALREADY_PROCESSED under another. `PaymentCall` is the view of
`Orders`.

### Cart

Steps are single commands: HINCRBY and EXPIRE are two, `save` is a lookup by id and
then an UPDATE or an INSERT, a merge is HGETALL, one upsert per entry and DEL. The
key of a guest may expire at any moment, and the process may die between any two
commands. In the mapping to `ShopperCart` a merge takes effect when it deletes the
guest's key: until then what it has saved still counts as the guest's, even if the
key expires under it. A login that dies half way has copied some entries and lost
none; the next one copies them again.

Any number of requests are interleaved. The code promises a request nothing when another is
at work on one of its carts: two additions of one member may lose one (`cart.service.ts:167`),
and what a guest adds between HGETALL and DEL of a login is deleted (145). The ghost
`contested` holds the requests that met another one before they took effect, and
`ShopperCart` calls them `disputed`: they may do anything to the carts they met on, for as
long as they are served, and nothing to any other cart. Everybody else's request takes
effect once, at once and as a whole.

`getCart` removes ids of options that no longer exist; options are only ever made
inactive (`admin.service.ts:514-518`), so it changes nothing and has no action.

### Catalog and Dashboard

`Catalog` has the requests that change what administrators look at. A check, a write
and an announcement are separate steps, because the checks of `createProduct` and
`addProductOption` run outside a transaction (`admin.service.ts:134-153`, `562-575`)
and events are emitted after the commit. `Sell` and `Ship` are one step each: `Orders`
shows that they commit as one.

`Dashboard` is one administrator's browser. The process `Me` serves the requests of its
own buttons, the other one those of everybody else.

| Actions | Code |
|---|---|
| `TicketIssued` ... `Reconnect`, `OnStockUpdate`, `OnOrderUpdate` | `AdminPage.tsx` 108-170, the closures of one effect |
| `Rerender` | `App.tsx` 40-101 renders `AdminPage`, which makes a new `handleAuthError` (37-39): every effect that depends on it runs again |
| `Leave`, `Return`, `Open`, `SetQuery` | leaving the page, a section, a filter or a page of a list |
| `Click`, `MyReply`, `MyReplyLost` | handlers of `AdminOrdersPage`, `AdminProductsPage`, `AdminProductForm`, `AdminInventoryPage`, with the `connected` and the query of the click |
| `Read`, `Show`, `LoadFails` | a load: the server reads, later the answer arrives, in any order |
| `Emit` | `DomainEventsService`: who has no stream misses the event |

A 401 from any of these logs the administrator out and so unmounts the page: that is
`Leave`. The moment between the 401 and the answer of the logout is not told apart.

The ghost `late` holds the options inserted under a product that was deleted after the
check; `SkusHeld` claims everything else.

What the screen shows is not what the database has, in more ways than a property can
sensibly except: events are lost while there is no stream, announced out of order
(`admin.service.ts:677`), overwritten by an older overview (`AdminPage.tsx:96`), or never
sent (`admin.service.ts:512`), and answers overtake one another. Most of that nobody
promises otherwise. But the comments say that an administrator's own action shows by itself
while the page is connected, and `ConnectedShows` states that, for one administrator and no
failure of anything. It is false. Opening the menu, or a link to the page one is on, renders
`App`; the stream is replaced, and the cleanup does not reset `connected`. A restock or a
shipment in that moment is announced while there is no stream, and nobody loads what it
changed: the inventory never does, and the list of orders does not because its handler
believed there was a stream.

### Sessions and Storefront

`Sessions` is `AuthService` with its guards: `register` looks up, inserts, merges and
makes a session in separate steps, and any of them may fail; `AdminGuard` reads the
session and then the account. `Storefront` is one browser with tabs that share
`localStorage`: each has its own user, a request of its mount and one of its page. An
order is one step (`Orders` is how); the payment window leads to one of two URLs. A
confirmation is refused, or captured at the gateway and then lost (the answer or the commit)
so that the order stays PENDING with its money taken, or makes the order PAID. A page that says
failed is therefore right about the order but not about the money, as
`docs/submission/03-retrospective.md:31` admits, and `OutcomeShown` claims no more. An answer
of a login that is lost leaves a session no tab knows. An administrator's request that is
answered 401 ends the session of the tab; any other failure is only shown. A page
that is loaded again leaves its request to the server (`gone`, `Orphaned`): a logout that
takes effect later, an order nobody waits for, a confirmation that the new page repeats.
A tab sends nothing more from its page until that request has ended; a confirmation has
to wait anyway, for the row lock of the order, and one that is refused whatever it found
stands for the orphan that comes second.

Its ghosts: `astray`, tabs whose user may differ from the token because another tab, the
end of the session or a mount that overlapped a change came between; `mixed`, tabs with
such a mount under way; `repeated`, result pages that were loaded again or lost their
answer; `placing`, what a tab showed when its order form was sent; `denied`, whether the
token of a request was an administrator's when it was sent.

### Schema

A schema is a set of items, each a column, an enum value or a key; a migration is the
items its up creates, adds and drops and those its down drops and restores. `Boot` applies
all pending ones or none, `Revert` undoes the last; `Upgrade` is what the pending ones make
of a database, one after the other. Rows are kept where a migration
touches them: pictures, descriptions, `is_active` flags, seeded products.

Requests come between starts and reverts. `addProductOption` is two of them (`FindProduct`,
`AddOption`), because the code looks for the product and saves the option outside a
transaction: a deletion in between leaves an active option of a deleted product. The ghost
`late` holds these options, until a start runs migration 12 again, which hides them.
`HiddenTogether` claims that there are no others.

What the model says of reverts, and the code's authors may want to know: reverting
`SeedMoreProductImages` or `SetProductDescriptions` clears what an admin entered under a
seeded name; reverting `AddProductIsActive` makes deleted products reappear; reverting
the partial index is refused once an SKU was used again; reverting
`ExpandCatalogTo20Products` is refused once one of its options was ordered or its names
are no longer unique. None of these is promised otherwise.

## 3. What is checked

| Run | Instance | Shows |
|---|---|---|
| `stock` | 3 requests, 2 orders, 2 options, two different baskets; restock, cancel, reclaim by checkouts, aborts | `IInv`, `NoOversell`, `StockConserved`, `ReturnedOnce`, `CheckoutsDoNotDeadlock` with cycles of up to three waiters, the refinement `LedgerSpec` |
| `lifecycle` | 3 requests race for 1 order, all admin transitions but EXPIRED, all 4 stages, every fault, a basket naming an unknown option | `PaymentsAgree`, `NoChargeAfterPending`, `DeliveryInOrder`, `ReturnedOnce`, `IInv`, `LedgerSpec` |
| `live` | 2 requests, 2 orders, 2 options, fairness | `RequestsAnswered`, `OverdueLeavesPending` |
| `toss` | 3 attempts, as in the code | `RefusalMeansUndone`, `CallEnds`, `CallSpec`, `TypeOK` |
| `cart` | 2 requests at a time, 2 options, quantity 1, crashes, expiry (1,085,859 states) | `TtlFollows`, `CartSpec`, `LoginLosesNothing`, `TypeOK` |
| `schema` | all 14 migrations, both databases to begin with, 3 requests among starts and reverts (61,799 states) | `TypeOK`, `SchemaIsHistory`, `CodeRuns`, `BootsAgain`, `HiddenTogether`, `OrderedKept`, `BootKeepsRows` |
| `backoffice` | 1 administrator, 1 other, every section, 3 of: request (2), render or move (1), failure (1) (400,349 states) | `SkusHeld`, `OneStream`, `Reconnects`, `TypeOK` |
| `storefront` | 2 tabs, 3 accounts of which 1 exists, 2 addresses, 3 tokens, 2 orders, 4 events (461,595 states) | `OneAccount`, `RightsEnd`, `ShownUser`, `OutcomeShown`, `TypeOK` |

Four runs refute what a document or a comment says:

- `expired_by_admin`: EXPIRED is said to return the stock
  (`orders/entities/order-status.enum.ts:7-8`); the status API accepts PENDING to
  EXPIRED (`admin.service.ts:63-67`) and returns none.
- `refunded_revenue`: revenue is said to be what is settled (`admin.service.ts:44`); a
  refund whose transaction is rolled back after it leaves, with no request at work on the
  order any more, a PAID order without its money that can be shipped. Orders some handler
  holds are not looked at: in the middle of a cancel the two must differ.
- `cart_ttl`: a guest's cart is said to live 14 days (`README.md:46`); a crash between
  HINCRBY and EXPIRE leaves one without expiry.
- `connected_shows`: a restock is said to be announced and then shown
  (`frontend/src/pages/AdminInventoryPage.tsx:38-39`, `README.md:62`); when the page is rendered
  between the click and the write, the event reaches no stream, and the old stock stays on
  the screen of a connected page. With `Sections = {"orders"}` the run finds a shipment
  that does not show (`AdminOrdersPage.tsx:79`).

### Bounds

`Proc`, `OrderId` (each checkout uses one up), `Option`, `Baskets`, `MaxStock` (what an
administrator may type in), `Traffic`, `Faults`, and in the cart `Quantity` and
`MaxUnits` (units of one entry) are the bounds. Two requests and two options are what
a lock-order inversion, a lost update or a stale candidate takes; the third request
is there for cycles of three, and for a restock or a second admin around a race of
two. `MaxStock = 1` makes every second checkout hit the limit. `lifecycle` has one
order because its races are for one row; `stock` has two because there a request could
take or return the units of the wrong one. `live` leaves out aborts, which end a
request early but may also do so to every reclaim, and gateway requests that outlive
their handler. It also leaves out restocks: when stock keeps being refilled, PostgreSQL
could pick the reclaim as the victim of every deadlock it gets into, and an
abandoned order would stay PENDING as long as that bad luck lasts - which the model
shows when "restock" is added to `Traffic` of `MCOrdersLive.cfg`.

`backoffice`: `MaxEvents` counts requests, turns and faults together, `MaxLoads` what is in
flight; `PageSize = 1` makes two products fill two pages, two SKUs and three options are
what a reused SKU takes, and `MCTraffic` sends others' requests to the section that shows
them. What it checks are races of two or three things: a ticket or a
retry with a render, a failure with a render, a deletion with an insertion. `storefront`: `MaxEvents` counts submissions,
reloads, lost answers and ends of sessions and roles; a race takes two of them, and the
setting up (a login, a second tab) the other two. Both stop when the events are used up,
so they do not check for deadlock. `schema`: three requests are a deletion, the reuse of
the SKU and an order; starts and reverts are not bounded.

The theorems remove these bounds for what they cover. In the cart a request that would
pass `MaxUnits` waits for ever, which is why those runs do not check for deadlock;
`toss` does not because a call ends. All runs of `Orders` check for deadlock: when
every creation is used up the admin requests remain.

`SYMMETRY` is used in the runs that check no liveness: `Proc` and `OrderId` are
interchangeable, options are not (their order matters to the locks). In `storefront` tabs,
tokens and orders are.

### Fairness

`SweptSpec` is `FairSpec` and `SweepsGoOn`. `FairSpec` assumes strong fairness of a request's own steps: the event loop keeps
running it, and PostgreSQL queues the waiters of a row, so one that finds it free
again and again gets it; and weak fairness of `DeadlockVictim`, which is
`deadlock_timeout`. Nothing makes a client send a request, the gateway answer well or
a late request arrive. `SweepsGoOn` adds that somebody goes on opening the stock
overview: the repository has no scheduler, by design (`orders.service.ts:110-112`), so
`OverdueLeavesPending` cannot be had without it. `TossRetry` has weak fairness of
the client's steps: timers fire. `Dashboard` has weak fairness of each closure's own steps:
a ticket is answered, a stream is admitted, `onerror` fires, the timer of three seconds
runs out. Nothing is assumed of administrators; the network may fail at any of these
points, `MaxFaults` times, and every render starts again.

## 4. What is proved

Every theorem is about the specification the runs check, for all values of the constants
that satisfy the assumptions: sets of requests, orders, options, tabs and the like may be of
any size (infinite where no assumption says finite), and the bounds of the runs are gone.
Every safety property that a passing run checks, invariants, action properties and
refinements, is a theorem.

| Module | Theorem | States | Under |
|---|---|---|---|
| `OrdersProofs` | `TypeCorrect`, `CoreInvariance` | `[]TypeOK`, `[]CoreInv` | |
| | `StockNeverNegative` | `[]NoOversell` | |
| | `ReturnsHappenOnce` | `[]ReturnedOnce` | (1) |
| | `ImplementsLedger` | `LedgerSpec` | (1) |
| | `StockIsConserved` | `[]StockConserved` | (1) |
| `OrderRowProofs` | `DeliveryStaysInOrder` | `[]DeliveryInOrder` | |
| | `PaymentsStayInStep` | `[]PaymentsAgree` | |
| | `LateChargesOnly` | `NoChargeAfterPending` | |
| `OrderLockProofs` | `Invariance` | `[]IInv` | |
| | `NoCheckoutDeadlock` | `[]CheckoutsDoNotDeadlock` | |
| `TossRetryProofs` | `CallTypeCorrect`, `RefusalsAreFinal` | `[]TypeOK`, `[]RefusalMeansUndone` | |
| | `ImplementsCall` | `CallSpec` | |
| `CartProofs` | `CartTypes` | `[]TypeOK` | |
| | `CartsExpire` | `TtlFollows` | |
| | `LoginsLoseNothing` | `LoginLosesNothing` | |
| | `ImplementsCart` | `CartSpec` | |
| `BackofficeProofs` | `BackofficeTypes` | `[]TypeOK` | |
| | `SkusAreHeld` | `[]SkusHeld` | |
| | `OnlyOneStream` | `[]OneStream` | |
| `StorefrontProofs` | `StorefrontTypes` | `[]TypeOK` | |
| | `AccountsStayUnique` | `[]OneAccount` | |
| | `DemotedAreRefused` | `[]RightsEnd` | |
| | `ResultPagesTellTheOutcome` | `[]OutcomeShown` | |
| | `TabsShowTheirUser` | `[]ShownUser` | |
| `SchemaProofs` | `MigrationInvariance` | `[]MigrationInv` | |
| | `SchemaTypes` | `[]TypeOK` | |
| | `SchemaFollowsHistory` | `[]SchemaIsHistory` | |
| | `MigratedCodeRuns` | `[]CodeRuns` | |
| | `EveryStartSucceeds` | `[]BootsAgain` | |
| | `DeletedStayHidden` | `[]HiddenTogether` | |
| | `OrderedOptionsStay` | `OrderedKept` | |
| | `StartsOverwriteNothing` | `BootKeepsRows` | |

(1) `"EXPIRED" \notin AdminTargets`: `expired_by_admin` shows that it is needed.

What the formulas themselves leave open, because the code does: `TtlFollows` the death of a
request before its EXPIRE; `LoginLosesNothing` and `CartSpec` the carts on which two requests
meet; `SkusHeld` and `HiddenTogether` the `late` options; `ShownUser` the tabs in `astray`;
`OutcomeShown` the pages in `repeated`, and whether a page that says failed was charged.

### Assumptions on the constants

Each module names its own (`ConstantsAssumption`, `CartAssumption`, ...), and TLC evaluates
them in the runs. Beyond types they say: the delivery stage that completes an order comes
last and only there (`delivery-stage.enum.ts`); the options and the accounts the database
begins with have different ids, SKUs and addresses (UNIQUE columns); the set of requests,
members and options of `Cart` is finite, so that a fresh primary key is left, and no request
carries more than `MaxUnits`; `None` is no value of any kind. `Schema` assumes only that
`MaxEdits` is a number: any number of requests between starts and reverts.

### Along which argument

None of the properties is inductive. Each proof module states the strengthening, has one
lemma per action or group of actions, and combines them.

*Orders.* `stock >= 0` says nothing about a transaction that is about to write back a
number it computed earlier. `CoreInv` (in `OrdersInvariant`) adds `SnapshotsFresh` - while a
row is locked, the value its owner read is the row's value - and `OrderChecked` - while an
order row is locked, it still has the status its handler checked; `ScanFits` - a scan that
has ended has locked every wanted row; `JobFits` and `CurFits`, which tie the program
counter to the request and the row. A commit then computes from a fresh value that was
tested, so it stays at or above zero and equals the ledger's step: that is the refinement.
`ReturnedOnce` follows because a return commits only from a status that `OrderChecked` pins
to PENDING or PAID. `IInv` is `CoreInv` with what the rest needs: `StageStillNext`,
`KeyFits`, `PaymentFits` (what the gateway told a handler holds until it commits),
`OrderLockFits`, and `ScanAscends`: a checkout has locked what lies below all it still
needs. In a cycle of checkouts the one that waits for the lowest row would wait for an owner
that has passed it; a least row exists because options are natural numbers.

*Sums.* `StockConserved` adds over the orders that hold units. What a fold over a set
returns is a fact about a recursive definition; `OrdersProofs` gets it without an induction
rule from the well-foundedness of inclusion among finite subsets (`WFMin`): a smallest set
for which a claim fails has an element whose removal makes it hold. Adding or removing one
order then changes the sum by its units, and `LedgerStep` says that no step changes more.

*TossRetry.* `KeyTruthful`: what the gateway remembers under the one key of the call is what
it did. `RepliesTrue`: what the client was told stays true, whichever attempt arrives next.

*Cart.* `JobFits` says what a request has found at each of its commands; `Upserts`, that a
save adds at least one unit and stays in range, although what it read may be out of date by
then. `CartsExpire` is inductive on top of it: whoever writes the hash is the one who still
has to send EXPIRE, and only its own death takes that away. For a request that is not
`contested`, `Apart` says that no other one is at work on its carts and `Alone` that a save
finds the row as the search left it and that a merge is at `member >= entries - rest` with the
guest's cart whole or expired; both survive every step of any other request, which writes
its own carts only. In the refinement the units a merge has saved still count as the guest's,
so every command of a merge but DEL is a stuttering step. A request that meets another is
`disputed` in `ShopperCart` from that moment on, and its steps change none but its carts.

*Catalog and Dashboard.* `CatalogInv` says that the row a request is about is its own, so
that the partial UNIQUE index decides between two that both found the SKU free. `UsedFit`
numbers the closures of the stream effect in the order they were made: all but the last are
torn down, and the last one has or awaits a stream. `PageInv` adds what
the page holds: answers are snapshots of the right kind, and a handler that comes back after
the page was left touches nothing.

*Sessions and Storefront.* `ServerInv` says what each request has found and that a token
that will be made is nobody's yet. `DemotedAreRefused` needs the request's ghost at both of
its reads. `PagesFit` relates page, request and order of a tab: a confirmation under way on a
page that was never loaded again belongs to an unpaid order. `ChargesFit` adds that a PAID
order was captured. `ShownInv` says what a tab shows
while its mount or its page's request is under way, from which `ShownUser` follows once
nothing is.

*Schema.* `MigrationInv` says what holds of a database with so many migrations, applied,
undone or applied again, after so many requests. It has two parts. `Fits` is about the
schema: it is the union of what each migration brings (`Part`), without the value EXPIRED,
which may be left over, and without the old key on SKUs once the partial index has replaced
it. Every item has one migration it comes from (`Home`), and each migration is shown to be
`Placed`: what it brings has its number, and its down method drops all of that and nothing
older. So an up or a down takes `Fits` from one number to the next, and a database made by
hand ends with the same schema. `RowsFit` is about the rows: ids are unique and tell a seeded
product from one a request made, options belong to products, no two active options share an
SKU, everything is active as long as there is no column to say otherwise, and the two flags
agree from migration 12 on, the late options aside. `BootsAgain` needs all of it: only a clash of SKUs makes an up
method fail; requests run from migration 12 on alone, since before it the entities' columns
are not there; and its revert is refused unless all SKUs are distinct, so nothing below it
can clash. Each up and each down of the rows has its lemma. The chain of the fourteen is
closed by a least counterexample, and so is the equation of `Upgrade`: the induction rules
themselves are out of this prover's reach.

### How the models were made provable

Some things about the models changed for the proofs, none about what they allow. The answers of
`Dashboard` are kept per kind of load and a snapshot of the stock is a total function with
`None` for a row that is not there; the properties moved from the MC modules to the components; the fold over pending
migrations became the recursive function `Upgrade`. And one was an
error the proof found: `HGetAll` of `Cart` reset what another merge under way still had to
save; each request now has its own.

### Model-checked only

- What rests on fairness: `RequestsAnswered`, `OverdueLeavesPending`, `CallEnds`,
  `Reconnects`. Liveness and ENABLED are out of this prover's reach.
- The four refutations, which are counterexamples.

## 5. What could follow

The modules are written and their safety properties proved. One question about the cart
remains open: how many units two overlapping requests of one member may lose at most.

## 6. Not modelled

- Rendering, wording, validation of DTOs (inputs start valid), logging, the rate limiter,
  health checks: they keep none of the shop's state.
- `getStats`, `getMembers`, `getBuyers` and the pages that show them: single reads that
  aggregate in SQL, loaded like the lists of `Dashboard`.
- The shop's own product pages and image search: reads, and a ranking of vectors of
  floating point numbers. `CartPage` sends the requests that `Cart` serves.
- Storage and embeddings: one call to an external service before a product is created.
- Widths of columns and of sums: an order that does not fit ends in a rollback, `Abort`.
- The pool of database connections, which delays requests and ends none.
- Several replicas of the server: `DomainEventsService` is in memory, so a dashboard
  would hear of its own replica only; nothing in the repository starts more than one.
