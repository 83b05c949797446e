# Verification of the e-commerce back office

TLA+ models of the program in `src/src/ecommerce_backoffice_api` (a FastAPI
service over PostgreSQL), the TLC runs that check them on small instances, and
theorems about them that TLAPS proves for every instance. `PROJECT.json` maps
every definition to the lines it models.

## 1. Inventory

| Component | State | Operations | What is hard about it | What makes it correct |
|---|---|---|---|---|
| Authorization policies, `domain/authorization.py` | none | 17 predicates on an actor and a store or order | the predicates must agree with each other | who may change a thing may read it; who sees orders anonymised may only move them along |
| Sessions, `persistence/database.py`, `get_session` | rows, row locks | one transaction per request: commit on return, rollback on exception | READ COMMITTED: each statement sees what is committed by then; locks come with the first write | no uncommitted version or lock outlives its request |
| Checkout, credits, coupons, `use_cases/checkout.py` | products, credits, coupons, redemptions, orders; a cache per use-case instance | `PlaceOrder`, `GrantCredits`, `CreateCoupon`, `ApplyCouponToOrder` | entities are copies that go stale; check and write are different statements; unique keys collide; lock cycles; client retries | nobody in debt, no negative stock, charge = lines - discount, single-use coupons, no oversell, one order per idempotency key, every request answered, a code issued once |
| Order lifecycle, `use_cases/orders.py`, `order_status_transitions.py` | status and notes of an order | `UpdateOrderStatus`, `UpdateOrderNotes` | check-then-write of the status, two columns of one row | the table of transitions, independent columns |
| Catalog, `use_cases/products.py` | products | `CreateProduct`, `UpdateProduct`, CSV import, lists, search | `PATCH` writes a copy back; an import may fail half way | columns not named keep their value; an import is all or nothing |
| Stores, themes, receipts | one row each | create; insert-or-update | two first uploads at once; an update of the columns that changed | one row per store or order, the bytes and the type of the last upload |
| Reads of orders, revenue | none | lists, one order, revenue of a store | the filter of a list and the policy of one order must agree | nobody is listed what it may not read |
| Authentication, `authentication.py`, `jwt_token_service.py` | counters per use-case instance; revoked tokens in memory | login, parse, logout | the counter's owner lives for one request; restarts forget; tokens of one second are equal | bursts are limited; a revoked token is refused, any other is accepted until it expires |
| Password reset, `password_reset.py` | reset-token rows, counters | request, confirm | concurrent requests and confirmations | bursts are limited, earlier tokens are cleared, a token is used once, the newest password counts |
| Audit trail, `audit.py` | audit rows | record success, record denial | the row shares the transaction of the request it is about | exactly what was done is recorded |
| Serving, `database.py`, `dependencies.py`, FastAPI | event loop, threads, connections of a process | dispatch, connect, commit | a request keeps its connection while it waits for locks and threads; an async handler blocks the loop | every request is answered |
| Startup, `startup.py`, `database/` | schema, its revision, seed rows | migrate, seed | two processes, crash in between | a schema of some revision, the baseline once, no serving before both |
| Shipping quotes | none | validate a payload | rounding, bounds, infinities, NaN | a quote is in bounds or refused |
| Web tier, `ecommerce_backoffice_web` | a cookie session with a token | login, logout, pages | the browser's answers come out of order; logout ends the cookie, not the token | the cookie is what the last login or logout made it |
| HTTP layer, encryption, containers, CI | - | - | - | not program logic, but for the translation of errors |

Requests reach a router, which builds the use case and its repositories on one
session (`presentation/dependencies.py`), runs `execute` in a thread of the
pool, and translates a `DomainError` into an `HTTPException`. That exception
passes through `get_session`, so every refused request rolls back. All
interaction between requests is through the rows, their locks and their unique
keys; what they share in memory is the set of revoked tokens and the event loop,
threads and connections of their process.

## 2. Plan

Order of work, the most important behaviour first:

1. `Database`, `Authorization`, `Checkout` with its books, the abstract `Shop`
   and the refinement; `OrderLifecycle`; their proofs. Done.
2. `Serving`: loop, threads and connections of a process around one transaction
   per request. `Catalog`, `Accounts`, `Quotes`: every other use case as
   statements of that transaction. `Backoffice`: their composition, with the
   properties of the audit trail, imports, uploads, resets and progress. Done.
3. `Startup`, `Sessions` and their composition `Deployment`. Done.
4. Proofs of the safety of `Deployment` and of the parts of `Backoffice` that do
   not depend on the history of overlapping requests. Done.
5. Proofs of the rest of the safety properties: those of `Backoffice` that
   compare a request with those answered before it began, and the sums of
   `CheckoutBooks`. Done.
6. Proof that `Checkout` with one request in flight implements `Shop`. Done.

## 3. Modules

**`Authorization`** has the predicates of `domain/authorization.py` under their
own names. An actor is a record `[id, role, store]`.

**`Database`** keeps three functions of a row's key: `row`, the committed
version; `latest`, the newest version; `writer`, who holds the row lock. A
SELECT returns `Visible`: the request's own version or the committed one at
that moment, as READ COMMITTED does. The first UPDATE or INSERT of a row (`Put`)
takes its lock and needs it to be `Lockable`; `Publish` and `Discard` are the
commit and rollback of `get_session`. `InCycle` is PostgreSQL's deadlock
detector. A row that need not exist is keyed by its unique columns, so that an
INSERT that collides waits for the other inserter, as a unique index makes it.

**`Checkout`** is the core. `pc[r]` is the next SQL statement of request `r`,
`mem[r]` the locals of its use case, and one action is one statement with the
Python code around it. `PlaceOrder` is `ReadLine` (per line of the cart),
`ReadCoupon`, `CheckRedeemed`, `ReadCredit`, then `SelectForStock` and
`UpdateStock` per line, `InsertOrder`, `SelectForCredit`, `SaveCredit`,
`RecordRedemption`, `Commit`. The other operations share those steps:
`GrantCredits` enters at `ReadForGrant`, `UpdateProduct` at `ReadForPatch`,
`ApplyCouponToOrder` at `ReadForApply`, `CreateCoupon` at `LookUpCode` and
`InsertCoupon`. `Refuse` is any exception the use case raises (and the unique
violation), `DeadlockVictim` PostgreSQL's choice, `Fail` anything else that ends
a request; all three roll back. A restart of the process is `Fail` for every
request in flight, since a request's memory is lost and its transaction aborted.

What `save()` does is modelled as SQLAlchemy does it: it SELECTs the row again,
compares it with the copy (`Differing`) and UPDATEs the differing columns of
whatever version is newest when the lock is granted (`Overwrite`).

**`CheckoutBooks`** states what adds up: sums over the committed orders and
grants, and the claims of the documentation. **`Shop`** is the abstract
specification: each request takes effect at one instant, or never.
**`CheckoutRefinement`** maps `Checkout` to it. **`MCCheckout`** has the small
instances.

**`OrderLifecycle`** models the two PATCH endpoints of an order over `Database`.
A request is a thread that serves one body after another. `Read` is `get_by_id`,
the policy and the transition table; `Select` and `UpdateRow` are
`update_status` or `update_notes`. The history variables `past` and `stale`
record every status an order has had, and whether the status a thread read has
been replaced since. **`MCOrderLifecycle`** has its instance.

**`Serving`** is how a process of the API serves requests. `Arrive`,
`Dispatch` (a thread for `get_current_user`, or for the handler of a request
without a user), `Connect` (the first statement takes a connection, or
`PoolTimeout`), `Start`, the statements of the use case, and then `Commit` or
`Rollback`. `HoldsLoop`, `HoldsThread` and `HoldsConnection` say what a request
occupies at each stage: the connection until the transaction ends, a thread only
while code runs in it, the loop while the use case of an `async def` handler
runs. Every error that a use case raises is an answer (`denied`, `not_found`,
`conflict`, `refused`, `limited`, or `failed` for what no router translates) and
passes through `Rollback`. `Fail` ends a request at any point at which it has a
connection.

**`Catalog`** has the use cases of stores, products, orders as they are read,
themes, receipts, revenue, users and audit events. An operator with the name of
a repository's method is what its SELECT returns, one with the name of a use
case is what `execute` returns or raises, and one with the name of a handler is
the action. A use case that only reads is one action (each of its SELECTs sees
what is committed; the rows it reads twice, of users and stores, never change);
one that writes is an action per statement: `import_products` inserts a row per
`ImportRow`, `SelectTarget`, `InsertTarget` and `UpdateTarget` are `save()` of
themes and receipts. `record_success` and `record_authorization_failure` insert
the audit event in the transaction of the request. **`Accounts`** has the login
and the two steps of a password reset in the same way; `Instance` is the
use-case object whose counters a request meets. **`Quotes`** validates what a
shipping provider answers, with texts as sequences of kinds of characters and
amounts in thousandths, or `Infinity` or `NaN`. **`Backoffice`** composes the four and states their
properties; **`MCBackoffice`** has its instance.

**`Startup`** has the seven revisions as sets of columns, taken from the
`upgrade()` functions, and the ORM's columns, taken from `models.py`. A process
boots, reads the revision, applies the next ones in one transaction, looks for
the admin and seeds in another; its uncommitted tables and rows make others
wait, and what they then find makes them stop, since nothing restarts a process
by itself. **`Sessions`** has the tokens of the API (who, since when, until
when), the revocations in the memory of each process, and a browser whose tabs
have requests to the web tier in flight, each with the cookie as it was when it
was sent. **`Deployment`** composes the two: a crash is `Stop` and `Forget`.
**`MCDeployment`** has its instance.

Proof modules: **`CheckoutProofs`** (types, control, rows and redemptions), which
**`CheckoutBooksProofs`** (sums) extends, and that **`CheckoutRefinementProofs`**
(`Checkout` implements `Shop`); **`OrderLifecycleProofs`**; **`BackofficeProofs`** (the kinds of
steps, types, the audit trail, lists, policies), which **`CatalogProofs`**
(imports, uploads, quotes) and **`AccountsProofs`** (resets) extend;
**`DeploymentProofs`**.

### Abstractions

- The id of an order is the request that inserted it; a request inserts at most
  one. A code is the coupon itself, a name in one store. Names, addresses,
  descriptions and views are left out: no property depends on them.
- The subtotal, which the code sums after the loop over the lines, is summed in
  the loop, from the same copies.
- `store_id` of a product never changes, so the policy check of `PATCH` is made
  with the entry of the request, before its SELECT.
- After `get_by_id` the ORM object is garbage (CPython frees it, the session
  holds it weakly), so `save()` and `update_status()` read the row again.
- The `FOR KEY SHARE` locks that foreign keys take do not conflict with the
  UPDATEs of other columns and are left out.
- The audit row that an admin's `PATCH` of a product adds is left out of
  `Checkout`: it is inserted in the same transaction and read by no action.
- Integers are unbounded; PostgreSQL refuses a value out of range, which is
  `Fail`.
- `MaxInFlight` bounds the requests served at once in `Checkout`; the pools
  themselves are in `Serving`.
- In `Catalog` a row has the columns on which something depends; what is
  serialised from rows that were read is left out. A theme's signature and
  whether its body is multipart are part of the request.
- Rows deleted by one flush (`DeleteTokens`) are one statement: it waits until
  it can lock all of them. Requests delete in the order of the ids, so they
  cannot form a cycle.
- A request that fails at once (a body the schema refuses, a token that
  `parse_access_token` refuses) has no effect and is not sent in `Backoffice`.
- The log lines of `audit.py` are left out, and so is its counter of denials,
  which belongs to an object of one request.
- The seed's groups are committed together, so the model only counts how often
  each was committed; the seeded values are the constants `InitialRow` of the
  other modules.
- A token is its user, second of issue and end: the text is a function of them.
- The web tier's three session keys are set and cleared together and are one
  value.

## 4. Runs

| Run | What it checks | Bounds |
|---|---|---|
| `checkout_races` | `TypeOK`, `NoStrayVersions`, `BalanceNonNegative`, `StockNonNegative`, `RedemptionsHaveOrders`, `ChargeMatchesLines`, `StockAddsUpWhenApart`, `CreditAddsUpWhenApart`, `CreditStaysInRange`, `CouponReuseNeedsOverlap`, `CouponsIssuedOnce`, `RequestsFinish` | 3 requests, 2 in flight, 12 bodies |
| `checkout_serial` | `ImplementsShop`, `NoOversell`, `CouponsSingleUse` | 3 requests, one in flight, 16 bodies |
| `order_lifecycle` | `TypeOK`, `StatusesAreReached`, `LegalUnlessStale`, `ColumnsAreIndependent`, `UpdatesFinish` | 2 threads, any number of requests, 1 order |
| `oversell_repeated_line`, `oversell_race` | `NoOversell` is violated | 2 requests |
| `coupon_race` | `CouponsSingleUse` is violated | 2 requests |
| `idempotent_retry` | `OneOrderPerIdempotencyKey` is violated | 2 requests, one in flight |
| `status_race` | `TransitionsFollowTable` is violated | 2 threads |
| `backoffice` | `TypeOK`, `NoStrayVersions`, `SuccessesAreAudited`, `ImportsAreWhole`, `ListsShowOnlyReadable`, `LastUploadWins`, `TokenReuseNeedsOverlap`, `ResetsClearEarlierTokens`, `PasswordIsLatest`, `QuotesInBounds`, `RequestsAnswered` | 2 processes (2 threads and 2 connections; 1 and 1), 31 workloads of up to 3 requests |
| `denials_recorded` | `DenialsAreRecorded` is violated | 2 requests |
| `bursts_limited` | `BurstsAreLimited` is violated | 3 requests, a limit of 2 |
| `deployment` | `TypeOK`, `SchemaIsRevision`, `SeedIsWhole`, `ServesPrepared`, `LogoutHolds`, `SessionsEndForAReason`, `CookieFollowsLastAnswer`, `BootsSettle` | 2 processes, 3 starts from revision 0, 5 or 7; or 1 restart, 4 logins and logouts; or 3 requests of 2 tabs; 3 seconds |

**Why the bounds are enough.** In `checkout_races` a third request runs after
two that overlapped, so it meets every mixture of rows they can leave. The
bodies of each run are the smallest with the cases that matter: carts that lock
two products in opposite orders, a cart that asks for more than is left after
another, a coupon that does not exist yet, one of another store, a product of
another store, a customer without a credit row, a patch of the price and one of
the stock. The lock cycle of opposite carts and the two inserts of one
credit row or coupon need two requests in flight; three at once are left to the
proofs, which bound nothing, and progress is checked for two. In `order_lifecycle` the
state space is closed: the threads go on for ever, and two suffice for a status
to change behind a read, since a change by several threads in between looks to
the reader like a change by one.

The workloads of `backoffice` group the operations that meet in a row or in a
pool: three uploads of one theme (from nothing and over a theme), receipts,
imports next to a list, a reset request with one or two confirmations or a
login, admins' audited actions. Three requests over pools of two and of one are
enough for a request to hold what another waits for in each of loop, threads,
connections and rows, while a third arrives. In `deployment` two processes
suffice for every wait and collision of migrations, a third start for a process
to come back over what the others left, and a browser with two tabs and three
requests for a page, a login and a logout to be answered in any order.

Deadlock is checked in every run. A `Checkout` or a `Backoffice` in
which every request has been served stutters (`Quiesce`), and so does a
`Deployment` in which no process is starting; everywhere else some step must be
possible.

**What fails, and why it is reported.** The violated properties are sentences of
the program's own documentation.

- `oversell_repeated_line`: a cart may name one product on two lines. Each line
  is checked and decremented on a copy of its own, so the second save writes
  what the first one wrote. No concurrency is needed.
- `oversell_race`: the comment on line 215 of `checkout.py` says that the
  re-check fails closed on a race; it compares the copy read earlier.
- `coupon_race`: the ledger is looked up and written in separate statements and
  has no unique key. `CouponReuseNeedsOverlap` shows that this is the only way.
- `idempotent_retry`: the cache of idempotency results belongs to a use-case
  instance, of which there is one per request.
- `status_race`: the table is consulted for the status read, not for the one
  overwritten. `LegalUnlessStale` shows that this is the only way.
- `denials_recorded`: the event of a denial is flushed and then rolled back,
  because the error that follows passes through `get_session`.
  `SuccessesAreAudited` shows that nothing else is missing.
- `bursts_limited`: the counters of failed logins and of reset requests are in
  use cases that are built per request, so no limit is ever reached. The tests
  of the limits call one use-case object again and again. `Burst` counts only
  attempts on one account that the same process had answered before, so the run
  asks less than the documents promise: a limit per process would satisfy it.

Some properties that hold describe what the code does where a reader may expect
more:

- `CreditAddsUpWhenApart` and `StockAddsUpWhenApart` excuse writers that overlap:
  a grant, or a column of a product, is then lost. `CreditStaysInRange` bounds what
  may go wrong with a balance. Of lost grants and columns no document speaks;
  what overlapping checkouts sell is `oversell_race`. `CouponsIssuedOnce` has no such excuse: the unique
  key settles two requests for one code.
- `LogoutHolds` stops at a restart, and at the process that served the logout:
  the set of revoked tokens is documented as in-process.
- `SessionsEndForAReason` counts the logout of an equal token (of the same user
  and second) as a reason, and lets a token live on after a logout of the web
  tier, which only clears the cookie.
- `TokenReuseNeedsOverlap` and `CouponReuseNeedsOverlap` say when a second use
  is possible, not that there is none, though `password_reset.py` calls its
  tokens single-use and `checkout.py` its coupons (`coupon_race`).

`RequestsAnswered` excepts event loops that wait for each other (`Wedged`): the
upload of a theme runs on the event loop and waits there for the row lock of a
request that needs the same loop to commit, and neither PostgreSQL nor a timeout
ends that. `BootsSettle` allows a process to end up down: of two that start over
an empty database at once, one fails on the tables or the admin of the other.

`checkout_serial` shows the other side: with one request at a time and no
product twice in a cart, the shop does what is promised.

**Fairness.** `RequestsFinish` (again and again nobody is in flight; a request is
begun once, so this means that each is answered) assumes that a request which can
always go on, by a statement of its own or as the victim of a lock cycle, does:
its thread keeps running once the handler was called, PostgreSQL answers, and
its detector runs after `deadlock_timeout`. Nothing is assumed of `Begin`, `Fail` or of which
request a lock is granted to. In `backoffice` it is weak fairness of each
request's steps: threads and event loops run, PostgreSQL answers, and the pool's
timeout ends a wait for a connection; nothing is assumed of `Arrive` or `Fail`.
In `deployment` it is weak fairness of the steps of a process that is starting;
nothing is assumed of starts, crashes, clients or the clock. In `order_lifecycle` threads go on for ever, so a waiter
could be overtaken for ever; `UpdateRow` is strongly fair, because PostgreSQL
queues the waiters of a lock.

## 5. Proofs

All assumptions are the named `ASSUME`s of the modules (`NobodyAssumption`,
`CheckoutAssumption`, `LifecycleAssumption`, `PoolAssumption`,
`RequestsAssumption`, `RowsAssumption`, `ImportsAssumption`, `InfinityAssumption`, `QuotesAssumption`,
`DeploymentsAssumption`, `SessionsAssumption`): `NoRow` and `Nobody` are not
values of anything else, the constants have their types, requests are sent by
users that exist, the ids and reset tokens they make are new, an upload's content
is a function from columns to values, a provider answers a number, `NaN` or nothing, a
pool has a connection and no more connections than threads. Nothing bounds the
number of requests, products, users, coupons, lines of a cart or amounts, and
`Quiesce`, deadlock victims, failures and restarts are among the steps.

| Theorem | Says | Rests on |
|---|---|---|
| `CheckoutProofs!TypeCorrect` | `TypeOK` (with `ControlOK`) | a lemma per action; types alone are not inductive, because `mem[r].line` indexes the cart and the copies only thanks to the control flow, which the auxiliary invariant `ControlOK` describes |
| `CheckoutProofs!LocksAreReturned` | `NoStrayVersions` | `IInv` |
| `CheckoutProofs!NobodyInDebt` | `BalanceNonNegative`, if no initial balance is negative | the balance a request is about to save is not negative, by the check against the charge or because a grant is positive |
| `CheckoutProofs!NoNegativeStock` | `StockNonNegative`, if no initial or patched stock is negative | the stock that a request has decided to write is not negative, because the copy it decrements passed the re-check of line 216 |
| `CheckoutProofs!CouponReuseOverlaps` | `CouponReuseNeedsOverlap` | a request that passed the ledger check saw every redemption of the requests it never met |
| `CheckoutProofs!RedemptionsAreBacked` | `RedemptionsHaveOrders` | `CouponsStay` (coupons are never deleted, and only `CreateCoupon` writes them) and `RedeemersInv` (a request past the coupon lookup found its coupon in the store of its order, which nobody changes once it is committed) |
| `CheckoutBooksProofs!ChargesMatchLines` | `ChargeMatchesLines` | `BillInv`: the subtotal in the locals is the sum over the lines read so far, at the prices of the copies they were read with, and the discount is that of the coupon, which `CouponsFixed` keeps as it was |
| `CheckoutBooksProofs!CreditAddsUpApart` | `CreditAddsUpWhenApart` | `CreditInv`: the copy of a balance is the committed one for a request that overlaps no other writer of it, so what it commits is one more grant or charge |
| `CheckoutBooksProofs!CreditStaysBounded` | `CreditStaysInRange` | `RangeInv`: the balance that a request carries, but for its own grant or charge, is in the range; that grant or charge joins `Granted` or `Charged` at its commit, and the range only gets wider |
| `CheckoutBooksProofs!CouponsIssued` | `CouponsIssuedOnce` | `IssueInv`: a request that has inserted a coupon holds its key until it commits, and the key had no row before; coupons never change afterwards (`CouponsFixed`) |
| `CheckoutBooksProofs!StockAddsUpApart` | `StockAddsUpWhenApart` | `StockInv`: likewise for the copies of a product, line by line |
| `CheckoutBooksProofs!CouponsSingleUseInTurn`, `NoOversellInTurn` | `CouponsSingleUse` if `MaxInFlight = 1`; `NoOversell` if besides the initial stocks are not negative, no cart lists a product twice and no patch sets a stock | `Alone` (requests do not overlap) with the invariants above |
| `CheckoutRefinementProofs!ServedInTurn` | `ImplementsShop`, if `MaxInFlight = 1`, no cart lists a product twice and no initial price is negative | `SerialInv` (all of the invariants above) and `TurnInv` (what the request in flight has read is still so, and what it has written is what its body asks for); see below |
| `OrderLifecycleProofs!TypeCorrect`, `StatusesReached`, `LegalOrStale`, `ColumnsIndependent` | the properties of the run | `LockInv` (an uncommitted version is the committed row with the update of its writer, which is about to commit), `BackedInv` (a status that was accepted is allowed from one the order had), `FreshInv` (and from the present one, unless the read is stale) |
| `OrderLifecycleProofs!TableFollowedInTurn` | `TransitionsFollowTable`, if there is one thread | `LegalOrStale`, and that nothing is stale then |
| `BackofficeProofs!TypeCorrect`, `NoVersionIsStray` | `TypeOK`, `NoStrayVersions` | `Kind`: each of the 44 actions is one of four kinds (waits for a connection, works, commits, rolls back), proved once per action; from there `Cast` (types, and which operation a stage belongs to), `RowsInv` (orders stay, users keep id, role and store, a writer has a connection) and `PoolInv` (a process never has more connections in use than its pool) are proved once per kind |
| `BackofficeProofs!TrailIsExact` | `SuccessesAreAudited` | `EventInv`: the event is the last thing a request writes, and what it then does is what the event says |
| `BackofficeProofs!ListsAgreeWithPolicies` | `ListsShowOnlyReadable` | `ListInv`: what a request that lists orders remembers passed the filter, orders and actors do not change, and the filter implies the policy |
| `CatalogProofs!ImportsStayWhole` | `ImportsAreWhole` | `ImportInv`: the products an import has written are an initial piece of its rows, none is committed before all are; `WholeInv`: a list sees none or all of them |
| `CatalogProofs!LastUploadStands` | `LastUploadWins` | `UploadInv`: while every other uploader of a row was answered before this one arrived (`Uncontested`), the row it has read is the row it overwrites; what it leaves out of its UPDATE is then equal already |
| `CatalogProofs!QuotesStayInBounds` | `QuotesInBounds` | lemmas about `_clean_text` and `_clean_amount`, then `QuoteInv` |
| `AccountsProofs!TokensServeOnce` | `TokenReuseNeedsOverlap` | `TokenInv`: a token comes from its request once and never comes back, and a confirmation that has found it keeps it in sight until it deletes it |
| `AccountsProofs!EarlierTokensAreCleared` | `ResetsClearEarlierTokens` | `TokenInv`: the tokens of the user that were there when a request selects them are locked and deleted by it, or were by another |
| `AccountsProofs!PasswordsAreNeverReverted` | `PasswordIsLatest` | `PasswordInv`: from the UPDATE to the commit a confirmation holds the row of the user, so the committed password is that of the last confirmation to commit |
| `DeploymentProofs!SchemaFollowsRevision`, `SeedOnce`, `ServesOnlyPrepared` | `SchemaIsRevision`, `SeedIsWhole`, `ServesPrepared` | `PreparationInv`: what a process has altered covers what separates the committed schema from the revision it has reached, a process past its migration finds the schema at the head, and one process at most has an admin that is not committed |
| `DeploymentProofs!LogoutStands`, `RefusedForAReason` | `LogoutHolds`, `SessionsEndForAReason` | `RevocationInv`: a process has revoked exactly the tokens of the logouts it served since its last restart |
| `DeploymentProofs!CookieIsLastAnswer`, `TypeCorrect` | `CookieFollowsLastAnswer`, `TypeOK` | `CookieInv`: a request that is not older than the last login or logout carries the cookie they left |
| `BackofficeProofs!ChangingAnOrderImpliesReadingIt`, `WritingAStoreImpliesReadingIt`, `PlacingAnOrderImpliesReadingIt`, `AnonymisedReadersOnlyMoveOrders` | relations between the policies; the last one goes through every policy of `authorization.py` and the one of `revenue.py` | case analysis over the roles |

`NobodyInDebt` and `NoNegativeStock` state their extra hypothesis in the
theorem: the schemas accept a negative `stock_quantity` (`schemas/products.py`),
and no column has a CHECK constraint.

The sums of `CheckoutBooks` are folds over finite sets of requests and lines.
Where an induction over a set would be made, the proofs take a smallest
counterexample: `SmallestSet` follows from the well-foundedness of the proper
subsets of a finite set. From it come the equation of a sum (`SumFunctionOnSet`)
and what a sum becomes when a set grows by one element.

The hypotheses of `CouponsSingleUseInTurn` and `NoOversellInTurn` are needed:
`coupon_race`, `oversell_race` and `oversell_repeated_line` violate the same
properties where one of them is dropped. So does `status_race` with that of
`TableFollowedInTurn`.

**The refinement.** `ServedInTurn` maps the committed rows to the rows of `Shop`,
a request to a served one at its commit, and its order and redemption to
`NoRow` until then. `ShopStep` says that a step is a step of `Shop` or leaves
its variables alone. A statement or a rollback leaves them alone
(`NothingServed`). A commit is `Buy`, `Grant`, `Edit`, `Redeem` or `Issue`
(`BuyAtCommit` and so on): the guards of that step must hold of the rows at the
commit, though the code checked them some statements earlier. They do because
nobody else was in flight: `TurnInv` carries every check from the statement
that made it to the commit (`LineStands` for a line of a cart, `AsPatched` for a
patch, `OrderReadable` for an application), and `LedgerInv`, `CreditInv`,
`StockInv` and `BillInv` say what was written. The price of a cart is a sum over its
lines in the code and a sum over the products in it in `Shop`; `SumRenamed`
relates them, which is where a cart that lists a product twice would differ.
That prices are not negative makes the clamp of the charge at 0 superfluous
(`DiscountLeaves`). The instance of `checkout_serial` satisfies the three
hypotheses. Without `MaxInFlight = 1` the claim is false: `coupon_race` and
`oversell_race` end in states that `Shop` cannot reach.

Checked by TLC only: the liveness properties (`RequestsFinish`,
`UpdatesFinish`, `RequestsAnswered`, `BootsSettle`), which rest on fairness.

## 6. Not modelled

- The HTTP layer beyond routing, the translation of errors and the rollback they
  cause: headers, CORS, the layout of answers.
- Field encryption and password hashing: conversions of one value by third-party
  libraries, without state. A password is compared as a value.
- What is inside a page, a list entry, a log line or a seeded row; the sum of a
  store's revenue.
- Containers, scripts and CI, but for the entrypoint of the API's container,
  which is in `Startup`; the migrations' `downgrade()`, which nothing calls.
