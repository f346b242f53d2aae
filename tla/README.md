# Verification of the D&K e-commerce platform

This directory holds TLA+ specifications of the repository, the TLC configurations
that check them on small instances, and proofs that TLAPS checks for every value
of the constants. `PROJECT.json` maps every definition to the lines it translates,
every property to a run, and every hazard to the properties that watch it.

To check a run: `tlc -workers 2 -config Online.cfg MCShop`, or
`BatchWithCrashes.cfg MCOltpBatch`, or `Storefront.cfg MCStorefront`. To check the
proofs: `tlapm SumsProofs.tla`, then `ShopProofs`, `ReturnProofs`; `BatchProofs`;
`StorefrontProofs`, `OrderPageProofs`, `StaffPageProofs`, `BusyProofs` (the last takes
about twelve minutes, the others one or two).

## The system

The repository is a shop and the data platform fed by it: a FastAPI service over
MySQL (`services/ecommerce-api`, schema in `database/schema.sql`), a Next.js
storefront, a synthetic data generator, and a lakehouse (Spark batch of the OLTP
tables; Debezium CDC and access logs through Kafka and Flink; Airflow).

| Component | State | Operations | What makes it correct |
|---|---|---|---|
| Checkout, coupons (`checkout/`, `coupons/`) | orders, order_items, payments, inventory, ledger, coupons, redemptions | `checkout`, `deduct_inventory`, `resolve_coupon` | no unit sold twice; limits of coupons hold; a replayed key writes nothing |
| Point of sale (`pos/`) | store_inventory, orders | `create_pos_transaction` | the store's stock pays for the sale |
| Orders (`orders/`) | orders.status, shipments, attempts, payments, refunds, boom_count | `confirm_`, `cancel_`, `dispatch_`, `deliver_`, `fail_delivery_`, `complete_order` | status history accepted by the database; stock restored exactly once; COD cash settles |
| COD block (`orders/`, `admin/`) | boom_count, is_cod_blocked | third failed delivery, `reinstate_customer_cod` | three failures always block |
| Returns (`returns/`) | return_requests, return_items, refunds, inventory | create, cancel, review, receive, inspect | no unit returned twice; refunds exact and only for goods; `returned` iff everything passed |
| Inbound (`inbound/`) | inbound receipts, inventory, average cost | `create_inbound_receipt` | each delivery booked once, with its ledger row |
| Administration, logistics | prices, active flags, staff | updates | later changes do not reach past sales |
| Cart (`cart/`) | carts, cart_items | set, remove, checkout | one active cart per customer |
| Unit of work (`db/uow.py`) | transactions, row locks | `run_in_transaction` | a retried transaction takes effect once; deadlocks end |
| Reviews, wishlist, locations, catalogue, auth | their own tables | CRUD and reads | one review per order item |
| Access log (`core/kafka_producer.py`) | a bounded buffer | publish, flush | requests never wait for the broker |
| OLTP batch (`pipelines/src/lakehouse`, the DAG in `airflow/`) | cursors, landing files and manifests, bronze, silver, gold | capture watermarks, extract, validate, load, commit cursors, merge, reconcile, publish | no committed change skipped, no layer goes back, Gold catches up |
| Storefront (`apps/storefront`) | React state of the mounted page, requests in flight, the session, the address | handlers, effects and continuations of about 25 pages for customers, branches and the administration | what is shown belongs to what is selected; what is offered is accepted; a lost answer and a second click do no harm |
| Streaming, gold SQL, generator, infrastructure | outside or stateless | — | — |

The API's components share one database: a sale, a cancellation, a failed
delivery, a return and an inbound receipt all move units of `inventory`; a
checkout and a cancellation both count `coupons.used_count`; a failed delivery
decides whether the next checkout may pay by COD; an inspection writes the order,
the refund and the stock. Nothing else connects them, so their interplay is the
interleaving of transactions. The pipelines only read the database. The storefront
knows the rest through the API alone: a page keeps copies of rows that others go on
changing, restates the API's rules to decide which buttons to show, and learns of a
request's effect only if its answer arrives.

The hard behaviours are: long sequences of legal calls by customers, staff and the
carrier that no test drives (the repository has no tests); sums kept twice (stock
and ledger, counter and rows, refunds and lines); CHECK constraints that roll back
a handler at its last write; return windows and prices that change between sale
and return; retries by idempotency key; row locks taken in different orders; and
in the pipelines, commits that overtake a watermark and crashes between the batch
and its cursors; in the storefront, handlers that go on after an `await` when the
page has changed, answers out of order, and requests repeated because an answer was
lost. `PROJECT.json` lists each at its line.

## The modules

| Module | Models |
|---|---|
| `Sums` | sums as cardinalities, minimum and maximum |
| `ShopTables` | the tables the handlers share, their initial contents, stock movements |
| `Checkout` | online checkout and counter sale |
| `Fulfilment` | confirmation to completion, cancellation, failed deliveries, COD block |
| `Returns` | return requests from creation to inspection |
| `Backoffice` | inbound receipts, prices, activation, the passing of the return window |
| `Shop` | their composition, the specification and its properties |
| `OrderLifecycle` | the abstract life of an order: the transitions the database accepts |
| `OltpBatch` | the daily batch from MySQL to Gold, with retries and crashes, beside a shop that writes |
| `Tab` | a browser tab: the page's state, requests in flight, loss, and requests that outlive their page |
| `Dashboards` | analytics of the roles with the sales trend, the overview, the store's home page |
| `Navigation` | sessions, login and registration, redirects, the tables of what a role may see |
| `CartPages` | the cart, its cross-selling and its variant switcher |
| `AtMostOnce` | the abstract promise of a form whose submission costs something |
| `CheckoutPage` | checkout form, idempotency key, page of the result; implements `AtMostOnce` |
| `CataloguePages` | product list with filters in the address, quick view, product page, wishlist |
| `OrderService` | the API's guards on orders and returns as pages meet them |
| `OrderPages` | a customer's orders, reviews, return form and return page |
| `OrderDesk` | orders in the administration (list, page) and in a store |
| `ReturnDesk` | the page where the staff decides on a return |
| `Receiving` | inbound receipts: the dialog, and the average cost on both sides |
| `Till` | the counter of a store |
| `PagedLists` | lists that are filtered and paged by the page or by the API |
| `SwitchLists` | coupons, customers, couriers, reviews, products: rows switched on and off |
| `Storefront` | the areas of a tab together, the specification, properties of every page |
| `MCShop`, `MCOltpBatch`, `MCStorefront` | the constants of the instances |
| `SumsProofs`, `ShopProofs`, `ReturnProofs` | theorems about sums, and about `Shop` |
| `BatchProofs` | theorems about `OltpBatch` |
| `StorefrontProofs`, `OrderPageProofs`, `StaffPageProofs` | theorems about `Storefront`: pages for shopping; of orders and returns; the till, the dashboards and lists |
| `BusyProofs` | the two theorems about every page of `Storefront` |

### Correspondence with the code

*One action is one committed transaction.* Each handler's first statements lock
the rows it decides on with `SELECT ... FOR UPDATE` in one transaction under READ
COMMITTED, and nothing of it is visible before the commit. A handler that raises
rolls back: it is a guard that is false, not a step. A CHECK of the schema that
refuses a write is a guard of the same kind (`FitsOpening` in `FailLastAttempt`,
`IsOnline` in `CloseReturnedOrder`). A request repeated with a known key, or on an
order already in the target status, answers without a write and is no step either.
That deadlock victims are rolled back and retried is thereby taken for granted; it
is the subject of the planned module `UnitOfWork`.

*One variable is one column or a few.* `stock` joins `inventory.on_hand`
(`Central`) and `store_inventory.on_hand`; `ledger` is the sum of
`inventory_transactions.quantity_delta`; `order` holds the columns fixed by the
sale; `ret` holds a request with its lines, one per variant; `shipment` counts the
failed attempts. `active` gathers the flags that enable a customer, a variant, a
store, a courier or a coupon. A history-like variable, `window`, stands for the
comparison of the clock with `completed_at` or `updated_at`: elapsing is an
action, and a window that a later write starts again is `reopened`. In `Storefront`
the API's window is `old` of its row. The order page counts seven days of its own, on
the browser's clock; nothing ties them to the API's, so `EligibleForReturn` takes the
result as a parameter that may be either at any time.

*Data is abstract where no property looks at it*: names, addresses, codes, notes,
images and times are left out, ids are model values, and a cart or a counter
request is a basket from a given set. Money keeps its arithmetic: integer division
in percentages, the free-shipping threshold, and `round()` in the prorated refund,
where an exact half in floating point may give either neighbour
(`ProratedUnitPrice` is a set).

Branches that cannot be taken are left out with a comment: the store branch of
`cancel_order`, since counter sales are created `completed`. Endpoints without a
committed effect have no action: `update_branch_stock` and `refill_inventory`
flush and return success without a commit.

#### The batch

*One action of `OltpBatch` is one query, one file or table write, or the end of an
Airflow task.* Tasks follow each other as in the DAG; inside a task, `step` says
how far each table is. The four extraction workers interleave and each queries the
live source three times (bounds, rows, the aggregate that the manifest records);
the other tasks loop over the tables. A task may crash at any point, and raises by
itself where the code does (`ManifestRejected`, `BronzeMissing`,
`ReconciliationFails`); it starts over until its tries are used up, and then the
run fails. `max_active_runs` is 1, so a new run starts when the last one ended.
What a crashed attempt wrote stays: Bronze is overwritten by run id, Landing by
path, Silver is merged.

*The shop is a writer of rows.* A write stamps the cursor field (`updated_at` at
every write, `created_at` at the first), and its transaction commits or rolls back
at any later time up to `MaxDelay`. A row is known by its version, the value of
the cursor field and the number of its revision; `Life` gives the status of each
revision, which is all that validation and the financial metrics look at. Rows are
not deleted: the shop deactivates them.

*Some of the data is abstract.* Bronze is kept as the winner of its deduplication,
which is all that Silver reads of it. The files of a table are one atomic read,
although Spark reads four partitions. The watermarks are one read, since one
connection with autocommit off reads them under repeatable read; as no property
relates two tables, it could be one read per table. The gate's tolerance of 0.05 %
is exact equality, and every row has the same amount. The quality gate after Gold
and the audits leave nothing that a later step reads. Gold is the copy of Silver
from which dimensions, facts and marts are computed.

#### The storefront

*One action is one uninterrupted run of JavaScript*: a click and its handler up to
the first `await`, the continuation of a handler when its answer is there, or an
effect with the rendering that triggers it. `view` is the React state of the mounted
page. `calls` has a slot for each request in flight; `arg` of a request is what it
sends and what its closure remembers, so a continuation that reads a stale closure
reads `arg` and one that uses `setState(x => ...)` reads `view`. Requests are handled
by the API in any order, answers are taken in any order, and a request may fail
before the API acted or after it (`RequestLost`, `Acted`). When a page is left its
continuations are gone and its requests are not (`Orphaned`). `finally` is part of
the continuation that ends a handler; a handler that waits for `load()` keeps its
flag until that load has ended.

*The API is one action per request*, with the guards of its handler on the rows that
the page reads; what it does to stock, coupons and money is the subject of `Shop`,
and each area has only the rows it needs in `server`. Other browsers act between any
two steps (`Elsewhere`, `OthersDecide`, `SoldElsewhere`, `PriceChanges`, ...).

*A tab is in one area.* Pages of two areas share no React state, so each area is
looked at from the moment its page is mounted; an action that leaves the area is
left out or, where something is still in flight that matters, leads to a page that is
not looked at (`LeaveCheckout`). Pages that lead to each other with a request still
under way are in one area: an order with its return form and the page of the return,
login with every page that redirects to it.

*Fields are abstract*: form fields that are only checked for being filled in, texts,
pictures, sorting and exports are left out; a filter is one of a few values, an
address is the set of its parameters, and product variants are colours and sizes.

## The properties

- `StockConserved`: per location and variant, units on hand plus units held by
  live orders equal the initial stock plus receipts and passed returns, and the
  ledger agrees.
- `RoomToRestore`: every undelivered order can be put back under
  `opening_on_hand`.
- `CouponsCounted`: the counter equals the redemptions in force; limits hold.
- `NoOverReturn`, `RefundExact`, `RefundOnlyGoods`, `ReturnedExactly`: quantities,
  money and status over all the requests of an order.
- `CodSettled`, `BoomBlocks`: COD cash, and the block after three failures.
- `LifecycleRespected`: `Shop` refines `OrderLifecycle`, the CHECK
  `valid_transition` of `order_status_history` seen as a state machine.
- `EveryVerdictAccepted`, `PaidOrdersCancellable`: in every reachable state the
  transaction that staff or customers are entitled to is enabled.

Of `OltpBatch`:

- `NothingSkipped`: a committed version of a row under `updated_at` that Bronze
  does not hold is still inside the window of the next extraction.
- `CursorNeverRetreats`, `LayersNeverRegress`: what crashes, retries and the
  re-reading of the lookback must not do.
- `SilverCaughtUp`: cursors move before Silver is merged; after a failure between
  the two, the next merge makes up for it.
- `GoldCatchesUp`: once the shop is quiet and crashes stop, Gold comes to equal
  the source.
- `EveryChangeExtracted`: `NothingSkipped` of every table, which the documents
  promise and the `created_at` cursor of payments breaks.

Of `Storefront`, whatever is lost, late or done by others meanwhile:

- `DashboardMatchesSelection`, `DashboardNeverOlder`: the report and the trend on
  the screen are of the selected role, store and period, and a late answer of an
  earlier refresh never replaces a newer one.
- `EveryLinkAdmits`, `LoginLeadsToWork`: the tables of links, of
  `canRoleAccessRoute` and of the layouts agree; a login ends on a page that admits
  the account, also when another account was sent to the login.
- `NothingVanishes`: a line leaves the cart only because it was removed or is in the
  wishlist, though moving and switching are two requests of which one may fail.
- `OneOrderPerForm`, `KeepsPromise`: a checkout form makes at most one order, and the
  checkout with the API behind it implements `AtMostOnce`.
- `AddressKeepsFilters`, `AddWithinStock`: filters survive the address; a product
  page never asks for more than it says is there.
- `ReturnsStayWithinOrder`: the return form can be sent twice with two keys, and
  still no more comes back than was bought.
- `OffersKept`, `DeskOffersKept`: what a page offers on rows that are up to date, the
  API accepts. The known exceptions are part of the statements; one is the seven days
  of a return, which page and API count on different clocks.
- `VerdictsComplete`: a completed return has a verdict for every line, and the page
  shows the ones recorded, whoever inspected first.
- `PreviewKept`: the cost price previewed for a staged line is the one booked, to the
  unit and but for halves, if the stock has not changed.
- `ReceiptIsSale`: the receipt lists what was sold under its number; a cash customer
  is never charged more than was shown.
- `PageHasRows`: a filter that has rows never shows an empty page (in the order list
  after any reload, in the stock list after choosing a filter).
- `QuietMeansIdle`, `NothingSentTwice`: nothing stays busy or disabled once no
  request is under way, and a change under way is not sent again.

Each property of a passing run is paired with a plausible bug of a mapped
definition (`MoveUnrecorded`, `CouponUsableAgain`, `AlreadyReturning`,
`RefundOverwritten`, ...), kept next to the definition it changes, under which TLC
finds the property violated.

## The runs

| Run | Instance | Shows |
|---|---|---|
| `Online` | 2 orders, 2 customers two failures into the COD block, a coupon with a total limit and one with a limit per customer, one inbound unit, windows that elapse, probation 0 or 2 | stock, room, coupons, COD and statuses over every path of fulfilment |
| `Returns` | 2 orders of 2 units at price 2 or 3, with or without a coupon of 50 %, 2 requests of 1 or 2 units | quantities, refunds and statuses of partial returns |
| `CrossChannel` | online orders and sales of one store, 2 variants, 2 requests | conservation and refunds over two channels that share tables |
| `BatchWithCrashes` | `orders` with 2 rows, one of them updated later, beside an empty table, transactions open for the whole lookback, 2 failures, 2 tries | all of the batch's properties, with liveness |
| `Storefront` | the twelve areas, each with two requests in flight and two to four user actions; see below | the properties of `Storefront`, and that no page gets stuck |

The bounds let the interesting cases happen. Stock of 3 (4 in `Returns`) and
baskets of up to 2 make two orders compete for units. Two requests of one order
are the least that may return a unit twice, and exhaust an order of two units in
one or two steps. A subtotal of 6 ships free and a smaller one does not (in
`Returns` for a fee of 2, more than the rounding of two units, so that refunding
it would show); half of 3 needs rounding. Customers start with two failures so
that one failed order blocks and the second order, of the same or of the other
customer, meets the block. `MaxReceived`, `Switchable`, `Probations`, `Prices`,
`Baskets`, `Lots` and `Expiring` bound what may happen and how often; each is a
constant, named as a bound in `ShopTables`. Orders, requests, and (where they are
interchangeable) customers and variants are symmetric; the runs of `MCShop` check
safety only, for which symmetry is sound, and `BatchWithCrashes` uses none. They
set `CHECK_DEADLOCK FALSE`: order and request ids run out, and every order may
reach a final status. The batch never stops, and its run checks deadlock.

In `BatchWithCrashes` two rows, the first updated after the second is written, are
the least for a watermark whose newest cursor value is not of the last key, and
two revisions for an older copy to come after a newer one. Three clock values with
a lookback and a delay of one let a commit fall on either side of a window's edge,
and two failures with two tries let a run fail at any task. Tables meet only when
one fails the run of all, which a crash does as well; hence one busy table, and an
empty one for the cases of a table without rows (`NoMark`, empty manifests).

In `Storefront` two slots are the least for one request to overtake another, and the
continuation of a first handler to meet the state that a second one left; a third
request adds an interleaving of the same kinds. Two checkout forms and two
submissions let a lost answer, a retry and a new form meet; three acts on an order
let a return form be sent, reset and sent again; two staged lines of quantity one at
a cost of 13 beside a unit at 4 give an average of 8.5, the half on which the two
roundings differ; three rows on pages of one row let a reload shrink a list below the
page that is shown. `MaxClicks`, `MaxSubmits`, `MaxVisits`, `MaxActs`, `MaxJobs`,
`MaxDecisions`, `MaxStagings`, `MaxBookings`, `MaxMoves`, `MaxTurns`, `MaxChanges`,
`MaxGen` and `MaxSold` bound what users and others do. The run checks deadlock: a
tab at rest may stay open (`Resting` requires that no request is under way), so that
a request which nothing can answer, or an answer which nothing takes, would be found.

Fairness: `Shop` assumes none and no liveness of it is checked. Each step of an
order waits for a person (buyer, courier, admin), and the code holds no timer that
would make it happen; what the code does promise, that such a step is possible, is
stated with `ENABLED`. `Storefront` assumes none either: what could be asked of it,
that spinners end, needs that requests end, and is stated without fairness by
`QuietMeansIdle` with the absence of deadlock. `OltpBatch!FairSpec` is weakly fair to `PipelineStep`:
Airflow starts a run every day and goes on with the tasks it started. It assumes
nothing of the shop, which may leave a transaction open until the clock's bound
stops it, nor of crashes, which `MaxFailures` bounds.

### Disagreements between code and documents

Seven runs expect a violation; each quotes its source in `PROJECT.json`.

- `CounterReturn`: a counter sale that comes back completely and passes inspection
  cannot be resolved, because the schema allows a `pos` order no status but
  `completed`.
- `CounterReturnBlocksCancel`: a unit sold from a store and returned goes to the
  central warehouse and may take the room under `opening_on_hand` that the
  cancellation of a paid online order needs.
- `PartialInspection`: a request is completed though the payload lists only some
  lines; the others stay `pending`.
- `ReopenedWindow`: the seven days of the return start at the completion, which
  has no deadline, and not at the delivery.
- `PaymentSkipped`: payments are extracted by `created_at` although a COD payment
  succeeds in place; its change is out of every later window. (The gate's sum of
  successful payments then never agrees again either.)
- `CancellationBlocksGold`: Silver's validation does not know the movement type
  `order_cancellation`, so the stock movements of cancelled orders are
  quarantined; above 0.05 % of the table, the gate stops every later run before
  Gold.

- `StaleCartSummary`: removing a line from the cart does not ask for a new quote, so
  that the summary keeps discount, shipping fee and total of the cart before.

Met while modelling, and part of the models rather than of runs of their own:

- The administration's list of orders offers to cancel `confirmed` orders
  (`admin/orders/page.tsx:748`); the API cancels `paid` ones only, and
  `docs/project/BUSINESS_REQUIREMENTS.md:49` says the same (`DeskOffersKept`).
- The order page counts the seven days of a return (`orders/[orderNumber]/page.tsx:186`)
  with `new Date(...)` on the API's timestamps, which are UTC without a suffix: the
  browser takes them as local times, which `parseApiDateTime` (`lib/datetime.ts:26`,
  used at line 302 of the same page) is there to prevent. It starts from
  `delivered_at` where the API takes `updated_at` (`returns/service.py:131`). East of
  UTC the form is withdrawn hours too early; west of UTC, or on a slow clock, a return
  is offered that the API refuses as too late. `OffersKept` therefore says nothing of
  returns after the API's seven days.
- The pages of a completed return show `total_refund_amount_vnd` as refunded
  (`admin/returns/[returnCode]/page.tsx:663`); it is the total of all requested lines,
  while only those that passed are refunded (`returns/service.py:432`).
- On lists with one busy flag for all rows (orders, reviews, customers, couriers) the
  end of one change enables the row of another that is still under way; a failed
  delivery sent twice like this, or repeated after a lost answer, counts as two
  attempts (`NothingSentTwice` leaves these pages out).
- A counter sale and an inbound receipt have no key that outlives a lost answer: the
  till keeps its basket and the dialog makes a new key, so that repeating the
  submission books it again. Units added to the basket during a sale are dropped when
  it succeeds.
- A second inspection with other verdicts is answered as a success with the first
  ones, and a checkout repeated after a lost answer with another method replays the
  first order.
- The stock list of a store does not clamp its page: a refresh that finds fewer rows
  may leave an empty table whose pager is hidden (`store/inventory/page.tsx:109`).
  Lists paged by the API do not match answers with filters, nor does the list of
  products.
- Switching the variant of a cart line sends quantity 0 to remove the old one, which
  `SetItemRequest` refuses: both variants stay in the cart.
- `refill_inventory` and `update_branch_stock` (`admin/router.py:331-443`) answer
  success without a commit. Gold tables are overwritten one after another
  (`gold/pipeline.py:40`, accepted by `pipelines/README.md:33`).

## The proofs

All are checked from nothing but the constants' assumptions and hold for any number
of orders, requests, customers, variants, stores and coupons; of tables, rows,
retries and crashes; and of slots, forms, lines, products and user actions. TLC
evaluates the assumptions in every run of the modules concerned. They are:

- of `ShopTables`: `FiniteTables`, `NullIsNoRow`, `CouponRulesValid`,
  `MoneySettings`, `PayloadsValid`, `InitialTables`;
- of `OltpBatch`: `BatchAssumption` and `LookbackCoversCommits`;
- of the storefront: slots are finitely many numbers, two at least, and `None` is none
  of them (`SlotsFinite`, `TwoSlots`: some pages ask for two things when they are
  mounted; `NoneIsNoSlot`: a null `AbortController` is no request); the areas are
  those of the application (`AreasNamed`); `None` is
  no return request (`NoneIsNoRequest`); there is an order to look at, bought
  quantities are numbers, and it is mounted before anything was returned
  (`SomeOrders`, `BoughtCounted`, `StartsUnreturned`); a cart may hold something
  (`SomeQuantity`: `cart_item_max_quantity` is 20); a product has a variant, and a
  stock of each that is a number (`VariantsStocked`); a list has finitely many rows
  and a page room for at least one (`RowsCounted`, `RowsOnPage`); no row of a list is
  taken for the dialog that creates one (`NoRowIsCreate`: `null`, `"create"` and the
  rows are different values of one piece of state); stocks, costs and lots are numbers
  of the columns and of the payload (`AmountsCounted`).

### The shop

- `SumsProofs`: laws of `Total`. A sum is the cardinality of a set with one pair
  per unit, because what a fold returns needs an induction the provers cannot
  instantiate. `TotalSplit` and `TotalChange` say that changing one row changes
  the sum by the difference of that row; others compare two sums row by row, split
  a sum over pairs and bound a row by its sum. The library's theorems on
  cardinality give all of them.
- `TypeCorrect`: `TypeOK` is inductive. The work is in the unsigned columns: every
  decrease of stock or of a counter is covered by its guard.
- `BoomAlwaysBlocks`: `BoomBlocks` with `TypeOK`; reinstatement leaves at most two
  failures since a probation count is at most two.
- `ShopRespectsLifecycle`: every step moves at most one status, by a pair of
  `ValidTransition`. An inspection's move is valid only because an order with a
  request is `delivered`, `completed` or `returned`; that is not visible in its
  guard, so the inductive invariant `StatusInv` adds `ReturnsFollowDelivery`, which
  holds since no move leaves those statuses.
- `CouponsAlwaysCounted`: `CouponsCounted` with what ties a redemption to its order
  (`CouponInv`). A sale adds one member to the redemptions of its coupon and of its
  customer, which its guard has counted; a cancellation removes one, and an order
  that was not placed has none, so the sale's is new.
- `CodAlwaysSettled`: what a status says of payment and shipment of a COD order, an
  invariant of the states between confirmation and completion.
- `StockAlwaysConserved`: the inductive invariant `StockInv` adds to `StatusInv`
  that undelivered orders are online (`UndeliveredAreOnline`), without which a
  cancellation might put units back where they did not come from. Each action has a
  balance lemma: it moves `d` units of one location and changes the units held,
  received or taken back by the same `d`, one row of each sum at a time.
- `NeverOverReturned`, `AlwaysReturnedExactly`, `RefundAlwaysExact`: one invariant,
  `ReturnInv`, of three sums over the requests of an order: units asked back by
  requests that count, units that passed, and their money. `CreateReturn` bounds the
  first by what was bought; the second is below the first, row by row; an inspection
  adds to the second and the third what it adds to the order. "Everything came back
  and passed" is an equality of two sums, which holds only if it holds in each row.
- `RefundsPayGoodsOnly`: the money of a line is its units times a prorated price,
  which is within half a unit of price times subtotal after discount over subtotal.
  Multiplied out, the money of all lines is at most the discounted subtotal plus
  half a unit for each unit sold; the capping only lowers it.
- `RoomWithoutCounterReturns`, `OnlineShopHasRoom`: what is on hand, is held by
  undelivered orders or has been taken from delivered ones came from the initial
  stock and the receipts (`StockInv`), and `opening_on_hand` covers these
  (`OpeningCovers`). The units in the way are those of counter sales that came back
  to the central warehouse; without such a return there is always room. The
  hypothesis `NoCounterReturns` is needed: the run `CounterReturnBlocksCancel` is the
  counterexample. In a shop without stores it holds by itself.

The inductive invariants of the last six items were checked by TLC on `Online`,
`Returns` and `CrossChannel` before they were proved.

### The batch

`BatchProofs` has `TypeOK` and the four safety properties of `OltpBatch`, from one
inductive invariant `BatchInv` (which TLC found to hold in the instance of
`BatchWithCrashes`).

- `NothingSkipped` is not inductive: moving a cursor to its mark is safe only
  because everything the mark will leave behind has been loaded. `Due` names
  such versions, those Bronze lacks that are older than the mark by more than
  the lookback, and `DueInv` follows one through the run: in the window of the
  extraction (by `NothingSkipped` of the runs before), in the files, in a
  manifest that is not empty, in Bronze, and gone when the cursors are
  committed. Nothing becomes due during a run, since a version committed after
  the capture was stamped at most `MaxDelay` before it; this is where
  `LookbackCoversCommits` (transactions end within the ten minutes of the
  lookback) is needed.
- `StampsInv`, `FilesInv` and `LayersInv` order the versions of a row from Gold
  to the source, so that deduplication by cursor value picks the later revision
  even among equal values; `LayersNeverRegress` follows.
- `MarksInv`: a mark is reached by a row that stays at least as new, so that a
  later watermark is not older; `CursorNeverRetreats` follows.

### The storefront

Each theorem is about `Storefront!Spec`, with all the other areas in it; an invariant
of an area is a statement about the tab that is in it.

- `OneOrder`, `PromiseKept`: the inductive invariant `CheckoutKeyed` ties a form to
  its key in four places: orders, requests (also those whose page was left), the page
  of the form, and the page of the result, which shows an order that exists. Requests
  are followed by `NoNewCheckout`: every step but one leaves no request to check out
  that was not there before. `PromiseKept` maps forms to the number of their orders
  and the page of the result to `reported`; the API's step is `Make`, the arrival of
  its answer is `Report`, a replay by key and everything else stutters or dismisses.
- `EveryLinkAlwaysAdmits`, `LoginAlwaysLeadsToWork`: `AccessAdmits` says that what
  `canRoleAccessRoute` opens to a role its layout shows; every table of links is one
  that was filtered by it, or by the role itself. After a login the page is the home
  of the role or a `returnTo` that was tested.
- `NothingEverVanishes`: in `CartRight` a handler in flight is known by what is left
  of it. One that may remove a line was the customer's own removal, or has found its
  product on the wishlist, which nothing in this area takes products from; a switch of
  variants never removes (its second request is refused, see above).
- `FiltersAlwaysKept`: `FromParams(ToParams(f)) = f` for every record of filters
  (`AddressRead`), and the draft is always one, also after an address with a negative
  price.
- `AddAlwaysWithinStock`: the choice on the page of a product is `WithinStock`
  after every rendering, whatever was chosen before: the size that is selected by
  itself is in the list, and the quantity is at least one and follows the stock.
- `ReturnsAlwaysWithinOrder`: `RowRight` is kept by every operation of the API
  (`AfterRight`), whoever asks; `MyInv` adds that the pages ask only for goods chosen
  in a form, which are numbers.
- `OffersAlwaysKept`: `KnowInv`, what a page may conclude from a row although the row
  may be old by now: once an order has a return it always has one, the page of a
  return loads once, and its question is open only while its row waits for a review.
  The theorem holds for any verdict of the page's clock and claims nothing of a return
  once the API's seven days are over.
- `DeskOffersAlwaysKept`: the courier in the dialog is one of those that were loaded.
- `VerdictsAlwaysComplete`: `ReadOf`, what a page that read a return some time ago
  can rely on: it asks for the same goods, and once completed it is final.
- `DashboardAlwaysMatches`, `DashboardOnlyNewer`: `DashInv` has for each of the two
  requests of the page that the slot it waits for (`current`) holds a request of that
  kind, made after what is shown was read, for a key that its reader may see. That a
  new request takes a slot no request is in needs the least free slot to exist: the
  well-foundedness of the natural numbers.
- `ReceiptAlwaysOfSale`: a request to sell that was answered has a sale of its own
  basket, so does the receipt made from it; prices and basket may change meanwhile.
- `PreviewAlwaysKept`: a staged line keeps the stock it was shown with (`StagedLines`),
  in the dialog, in the request and in what is booked. `Math.round` and Python's
  `round()` are both the quotient or one more, and differ only when twice the rest is
  the divisor (`RoundingsAgree`, from the uniqueness of quotient and rest). That what a
  line was found with is what it was booked on needs that no variant is in two lines:
  the dialog stages none twice (`StagedRight`), so that `validate_unique_variants`
  refuses none of its receipts.
- `PageAlwaysHasRows`: page numbers are integers (`ListAt`), and the step that chooses a
  filter goes to the first page. The list of orders shows the lesser of its page number
  and the number of pages, `(n + PageSize - 1) \div PageSize`, and the rows before the
  last page are fewer than `n` (`LastPageHasRows`).
- `QuietAlwaysIdle`, `NothingEverSentTwice`: one invariant, `AreaBusy`, with a part for
  each of the twelve areas (`DashBusy` to `SwitchesBusy`), which TLC checked on the
  instance of `Storefront.cfg` before it was proved. It relates the flags of a page to
  its requests by *purpose*: what the page waits for through all the requests of one
  handler, so that the reload after a change and the change have the same purpose where
  one `finally` ends both. A flag that is set has a request of its purpose under way;
  where the flag disables the button, a request of the purpose has set the flag and is
  the only one (`OneOfEach`). Neither property is inductive without the other half: the
  first follows a request to its end, the second needs the flag of the request that is
  already there. Requests that outlive their page are of no purpose; a page is mounted
  with flags for exactly what it asks for. The lemmas `SendBegins`, `FinishEnds` and
  their like say how sending, answering, losing and ending a request change the set of
  purposes; each area then has one lemma per group of actions. Some areas know
  their requests more closely: on the checkout page a submission is that of the form on
  the screen (`Submissions`), in a customer's orders a request carries the deed of the
  button it came from (`MyAsking`), at the desk it serves the page and the job of an
  order, in a list of switches the list, the change and the row. The pages that
  `NothingSentTwice` leaves out are in the invariant with the first half only.

### What stays with TLC

Of the properties of the passing runs, two are beyond the provers:
`EveryVerdictAccepted` (`ENABLED`) and `GoldCatchesUp` (liveness). All others are
theorems. The runs that expect a
violation are counterexamples and have nothing to prove.

## What is not modelled, and why

Not yet: locks and retries, the receipt digest, the uniqueness of the active cart and
the access log buffer (see the plan); in the batch, schema evolution, corrupt
records, pseudonymization and the contents of Gold. Of the storefront: the account
pages and address forms (`lib/vietnam-addresses.ts` is a table of 3,400 lines), static
pages, reviews below a product, printing and exports, and `MiniCartDrawer`, which no
page mounts; the lists are simplified by the reason panel inside a review's row, the
filter of the shipments and the status tabs of lists that the API pages. The API behind the pages is modelled twice, in full in `Shop` and by its
guards in `Storefront`; that the two agree is checked by reading, not by TLC.
Never: CDC and streaming, which Debezium and Flink perform; the SQL of silver and
gold, pure functions of tables; the generator, password hashing and tokens,
infrastructure. A prepaid order that fails three times is restocked and not
refunded; the model follows the code and no document says otherwise, so that
`RefundExact` and `CodSettled` do not tell whether that is intended.

## Plan

1. Lemmas on `OrderService` that relate its guards to those of `Shop`.
2. `UnitOfWork`: row locks in the order of each handler, detection of cycles,
   three attempts; against an abstract specification in which a handler takes
   effect at most once. It justifies the atomic actions of `Shop`.
3. The active cart: creation by two requests at once, set and remove racing a
   checkout.
4. `InboundReceipts`: collisions of the digest, replay, crossing of midnight.
5. `AccessLog`: the bounded buffer of events.
6. An abstract `StockCustody` (a unit is on a shelf, with an order, or gone) that
   `Shop` is shown to implement.
