# Verification of the orders API

The service is a GraphQL API over PostgreSQL: users register and log in, browse products, and place,
confirm and cancel orders. The directory holds TLA+ models of it, TLC configurations that check them on
small instances, and TLAPS proofs for instances of every size. Paths below are relative to the
repository; `PROJECT.json` maps every definition to the lines it stands for.

## 1. The system

| Component | State | Operations | What must hold | Modules |
|---|---|---|---|---|
| Order mutations `usecase/order_usecase.go`, `domain/order.go` | a draft per request | `Create`, `Confirm`, `Cancel` | all or nothing; nothing oversold, lost or invented; one transition wins | `OrderService`, `OrderBook` |
| Transactions and repositories `repository/postgres` | pool, row locks, rows | `WithinTx`, `Insert`, `GetByID`, `UpdateStatus`, `DecrementStock`, `IncrementStock` | every path ends the transaction; the answer says what happened | `OrderService` |
| Listings `ListByUser`, `List`, `pagination.go` | – | count, select, items | pages cover the list; whole orders of their owner | `Pages` |
| Users and sessions `auth_usecase.go`, `user_repo.go`, `auth/`, `middleware/auth.go` | rows of `users`; tokens in clients' hands | register, login, refresh, the caller of a request | one account per email; who acts for an account has proved it | `Auth` |
| Rate limiter `ratelimit.go` | a bucket per address | `Allow` | a bound in every window of time; nobody pays for another | `RateLimiter` |
| Executor, resolvers, loaders `generated.go`, `schema.resolvers.go`, `loaders.go` | per request: results, batches, a cache | one resolver per field | own orders only; current rows; answers that tell what happened | `GraphQL` |
| Process `cmd/main.go`, `config.go`, `migrate.go`, `seed.go`, shutdown | the process; schema and seed in the database | start, migrate, seed, serve, shut down, crash, restart | serve only when ready; restarts sell nothing twice; orderly end | `Lifecycle` |
| Middleware and server | – | caller, client address, panics, complexity limit | – | parts of `Auth`, `GraphQL`, `Lifecycle` |

How they interact: a process (`Lifecycle`) serves HTTP requests; middleware finds the caller (`Auth`); the
executor runs the resolvers of an operation and the loaders behind it (`GraphQL`); a resolver calls a
mutation (`OrderService`), a listing (`Pages`) or, behind the limiter (`RateLimiter`), a session operation
(`Auth`). Requests share memory only in the limiter; everything else meets in the database.

The modules compose where the code does: `Auth` EXTENDS `RateLimiter` and implements it; `GraphQL` runs on
an instance of `OrderBook`, the abstract book that `OrderService` is shown to implement, so what a
resolver does in one step there is what a transaction of many statements does here. One step of `GraphQL` the
book does not offer: an order cancelled by another spelling of its id (`CancelWithoutItems`, finding 1).
`Pages` and `Lifecycle` keep of an order only what they need.

What is hard here: every SQL statement interleaves with those of other requests; locks are held over
several statements; a statement, a commit, the connection or the process may fail in between; ids are
compared as text by Go and as UUIDs by PostgreSQL; Go ints are wider than INTEGER columns and wrap;
listings read in several statements outside a transaction; tokens outlive what they stand for; one
failed field empties the answer to mutations that have committed. `PROJECT.json` lists 35 hazards at
their lines with the properties that cover them.

## 2. What is modelled

**`OrderService`** — the order mutations. A request is a goroutine; a step is one SQL statement with the
Go code that runs on its result.

| Variable | Stands for |
|---|---|
| `stock`, `price`, `orders` | the committed rows (an order with its items as a function of the product) |
| `rowLock`, `orderLock` | who holds the row lock of a product, of an order |
| `pool` | the requests that hold a connection |
| `pc`, `req`, `reply` | where a request is, what it asks for, the code it is answered with |
| `todo` | the lines whose statements are still to run; the next one is the `First` |
| `delta` | what an open transaction has added to each stock, not yet committed |
| `draft` | the `domain.Order` being built, or read and changed |

| Action | Code |
|---|---|
| `ReceiveCreate`, `ReceiveTransition` | resolvers; `Create` 44-55: line validation, `mergeLines` |
| `Begin`, `BeginFails` | `pool.Begin` |
| `GetProduct`, `DecrementStock` | `GetByID ... FOR UPDATE`, price into the item; the conditional `UPDATE`, range of INTEGER |
| `InsertOrder` | `NewOrder` and `Insert`, with the primary key of `order_items` |
| `GetOrder` | the order `FOR UPDATE`, its items, `assertOwner`, `Order.Confirm` / `Order.Cancel` |
| `IncrementStock`, `UpdateStatus` | the `UPDATE`s of a transition |
| `CommitAcknowledged`, `CommitUnacknowledged` | `tx.Commit`, heard of or not |
| `Fail`, `Rollback`, `DeadlockVictim` | an error of a statement or of the commit, a cancelled context, a panic; PostgreSQL's victim of a cycle of waiters |
| `Reprice` | an operator changes a price (nothing in the service does) |

Of PostgreSQL the model keeps what the code relies on: READ COMMITTED, row locks held to the end of the
transaction, the deadlock detector, primary keys, the range of INTEGER and the two CHECKs an order could meet,
on the stock of a product (`StockColumn`) and on the quantity of an item (`Storable`). An id a client writes
is a *reference*: an integer in the order of the text, which `ProductOf` maps to a row or to none; several
references may name one row, as a UUID may be written in upper case. For order ids only two spellings matter:
the text the server sends (`"canonical"`) and any other. Totals and time stamps are left out. The INSERTs of
one order are one step: new rows wait for nobody and nobody sees them before the commit.
**`OrderBook`** is what the use case promises: a shelf and a book on which `Place`, `Confirm`, `Cancel` and
`Reprice` act in one step.

**`RateLimiter`** — `buckets` is the map; `credit` and `last` are what golang.org/x/time/rate keeps of a
bucket, in ticks. `Lookup` is the critical section of `Allow`, `Decide` the use of the bucket after the
mutex is released; requests of one address interleave in between.

**`Auth`** — `users` is the table, `wallet` the tokens each client was given. `ReceiveAuth` and `UseBucket`
are the resolver up to `allowAuth`; `Prepare` (validation, hash, tokens) and `StoreUser` are register, in the
order of the code, in which tokens are made before the row; `FindUser` and `Compare` are login; `ParseRefresh`
and `LoadUser` are refresh; `ReceiveCall` is the middleware in front of every other operation. `ClientIP` is
the last value of X-Forwarded-For, whatever the client wrote before it, or the peer's address where there is
no such header. `StoreUnacknowledged` is the INSERT whose answer is lost. The expiry of a token is cut to
whole seconds as JWT does. Histories: `everStored`, `issuedAt`, `acceptedAt`, `compares`. `RemoveUser` is an
operator's DELETE. bcrypt and HMAC are ideal: a client presents only tokens it was given.

**`GraphQL`** — one HTTP request: `doc` is its operation (root fields with arguments, a selection per
type), `root` what each root resolver returned, `thunks` what its loaders know of each key. A value that may
be null is a set: `{}` is null, `{v}` is v. Mutations run
their root fields serially to the last nested read, queries concurrently (`Turn`); a field asks a loader
for its key (`Load`), a query serves all the keys asked for (`FetchUsers`, `FetchProducts`), or fails for all
of them (`FetchFails`). `Data` and `Errors` are the answer: a null climbs to the nearest field that may be
null. `TypeCost` is the complexity function of the generated code. `during` is a history: the product rows
that were current while the request ran. `Elsewhere` is what other clients do. Ids of products and of
orders are what the client wrote (`ProductOf`, `OrderOf` say whose they are): an order read by another
spelling comes without its items (`ItemsRead`), a product of another spelling is not found by a loader.
`Refused` gives the error of a basket as the use case comes upon it: first what is checked before the
transaction (`Rejection`), then line by line in the order of the text (`Fault`), then the rows of the order.

**`Pages`** — a listing as its statements: `Count`, `Select`, `LoadItems`, each able to fail, while orders are
placed with a `created_at` from before the commit and prices change. `Offset` wraps as a Go int does, a
negative one is an error. The database returns rows in any order the ORDER BY allows. `walk` is the
history of a client that asks for page after page and retries failed ones.

**`Lifecycle`** — several processes on one database: `Configure`, `CheckVersion` / `CreateVersionTable` /
`ApplyMigration` (goose without a lock), `SeedRow` (one INSERT ... ON CONFLICT at a time, under the context
that a signal cancels), `Build`, `Listen`, `ListenAndServeFails` (at the listen or, later, at an Accept),
`BeginShutdown`, `ShutdownDone`, `ShutdownTimesOut`, `Exit` (the
deferred Close of the pool waits for connections), `Crash`, `Signal`, outages, and requests that place one
unit. What a process knows is lost when it ends; the database stays.

`MC...` modules hold the instances for TLC. Definitions marked *Variant* are plausible bugs of the code (a
lock not taken, a condition dropped, a count without its WHERE); every property of a passing run is known
to fail on one of them.

## 3. Runs

| Run | Instance | Shows |
|---|---|---|
| `orders` | 3 requests, 2 users, 2 products (stock 2 and 1), baskets with both in either order or one twice. 264,433 states | `StockConserved`, `NoWaitCycle`, `OneTransitionWins`, `OrderAsRequested`, `AnswerIsTrue`, `NothingLeaks`, `ImplementsOrderBook` |
| `spellings` | 2 requests, 2 prices, `Int4Max` 3, `IntMax` 7, a second spelling of a product, an unknown one, quantities beyond INTEGER, sums beyond int, orders by any spelling. 78,408 states | `TypeOK`, `NoOversell`, `HistoryIsKept`, `SoldAtCurrentPrice` |
| `liveness` | 3 requests share 2 connections and both products, under fairness. 121,000 states | `EveryRequestAnswered` |
| `auth` | 3 requests of 2 clients with an address each; an email that clients do not write in its canonical form, a text that is none; a minute of 2 ticks, one attempt per minute, seconds of 2 ticks, access tokens of 2, refresh tokens of 4, instants 0..2 | `TypeOK`, `OneAccountPerEmail`, `NoSessionWithoutAccount`, `CallerHasProved`, `GuessesBounded`, `LoginTellsNothing`, `WindowBound`, `RefusedOnlyWhenSpent` |
| `graphql` | a request with one of ten operations (two creates in a row, a transition and a create, a session mutation and a transition, a cancel by another spelling, baskets of each kind that is refused, an order and a page of them, the owner of a page's orders, queries of the rest, one too complex) as a user, a removed user or nobody, beside one that reads and another client's order. 139,738 states | `TypeOK`, `RowsWereCurrent`, `OnlyOwnOrders`, `ClientKnowsWhatCommitted`, `NestedReadsAreSerial`, `NullsAreExplained`, `ShownOrdersStayTrue`, `EveryOperationAnswered` |
| `reads` | a client, 3 orders at 2 instants, 2 products at 2 prices, six filters; pages absent, 0, 2 and 7, sizes absent, 1 and 5, default 2, at most 3, ints up to 7 | `TypeOK`, `WalkMissesNothing`, `QuietWalkIsExact`, `AnnouncedPageExists`, `OwnWholeOrders` |
| `lifecycle` | 2 processes, one in any of four environments, 2 requests, 2 products of one unit, 2 faults, under fairness | `TypeOK`, `ServesOnlyWhenReady`, `NeverRestocked`, `CleanExitDropsNothing`, `SignalStopsProcess`, `RecoversFromFaults` |
| `cancel_other_spelling`, `order_of_locks`, `wrapped_quantity`, `aliased_product`, `has_next_page` | violations | findings 1 to 5 |

*Bounds.* Orders: two requests race for one row and a third comes after or between, so that create,
confirm and cancel of one order meet; with stocks 2 and 1 three baskets never all fit; two products are
enough for a cycle of locks; `Int4Max` and `IntMax` are small so that few units cross them, only their order
matters. Auth: a registration, a session opened from it and a use of that session need three requests,
as does a race of two registrations with a login. An address gets one attempt in two ticks, so a session
opened at 0 is refreshed at 2: refresh tokens live for 4 ticks and none of them expires in the run, access
tokens do, and rounding to seconds shows at odd instants. Two spellings of one email do not race in the
run either. Both are covered by the theorems (`CallerTheorem`, `OneAccountTheorem`), which hold for all lives
and all spellings. GraphQL: prices stay as they are in the run (they change in `spellings` and `reads`, and
in the theorems); the limit 45 lies between the operations
that cost at most 41 and those that cost 54 and more. Pages: three orders make a walk of two or three
pages with ties in `created_at`; the sizes make totals that are a multiple of the page and totals that are
not; page 7 of 3 overflows. Lifecycle: two faults suffice to interrupt a start-up and the one that
repairs it. What depends on larger instances is proved (section 5).

*Deadlock* is not checked where the system rightly stops: every request of the instance has been
answered, and nothing else is left to do.

*Fairness.* `OrderService`: `WF_vars(Serve(r))`; a goroutine that can go on is run, pgxpool serves its waiters
in turn, PostgreSQL queues the waiters of a row and its detector resolves cycles. Weak fairness suffices
for the waiters because finitely many requests compete. `GraphQL`: goroutines of the executor run, and the
timer of a loader's batch fires. `Pages`: a request in progress is served (its safety properties do not
use it). `Lifecycle`: the main goroutine and the handlers run; docker compose starts again what has ended
(`restart: unless-stopped`), the database too. Clients, operators and failures are never assumed to act;
`RecoversFromFaults` is about faults that cease because their number is bounded. `SignalStopsProcess`
rests on handlers that end: `Close` of the pool has no timeout (`main.go:57`), so a transaction that hangs
for ever would keep the process.

## 4. Findings

1. `order_repo.go:64` looks items up by the id as the client wrote it while the map is keyed by the text
   the server sends. Cancelling an order by its UUID in upper case cancels it and restores no stock,
   against `order_usecase.go:112`. (`NoOversell` still holds; `StockConserved` does not.)
2. `order_usecase.go:194` sorts ids as text; spellings of one UUID sort differently, so the locks are not
   taken in one global order as the comment at 191-193 says. PostgreSQL breaks the cycle; one client is
   answered with `INTERNAL_ERROR`.
3. `order_usecase.go:185` adds quantities with int arithmetic that wraps. Several positive lines may add up
   to a small positive number, and an order other than the one asked for is placed, which the validation
   at 45-50 means to exclude. A sum that wraps to a number that is not positive is refused by `NewOrder`.
4. `product_repo.go:117`: the loader behind a new order looks its product up by the id the client wrote. In
   another spelling the order is placed, and the answer is `data: null` with `PRODUCT_NOT_FOUND`.
5. `order_repo.go:73,77`: the count and the page are two statements. An order placed in between pushes an
   older one to the next page while `hasNextPage` is false (`pagination.go:26`).

Also met, and not contradicted by any document: two spellings of one product in one basket end in
`INTERNAL_ERROR`; so does a quantity beyond INTEGER, where `INSUFFICIENT_STOCK` would be expected; a commit
whose acknowledgement is lost is answered with `INTERNAL_ERROR` although the order exists; an order got by
`order(id)` in another spelling shows no items (the cause of finding 1); a later mutation of one operation
shows a product that an earlier one has shown as it was then (`NestedReadsAreSerial`); `(page-1)*pageSize`
(`order_repo.go:79`, `product_repo.go:42`) wraps for huge pages, which `normalizePagination` lets through: an
error of the statement, or an early page under a late number; a token issued in the last part of a second
expires up to a second early.

One more disagreement is stated by a property that holds, not by a violation: the documents give the limit as
attempts per minute per address (the repository's `README.md:65`, `internal/config/config.go:20`), but the
bucket starts full and refills while it is used, so nearly twice `AUTH_RATE_LIMIT` attempts may fall into one
minute. `WindowBound` says exactly how many.

## 5. What is proved

TLAPS checks the proofs for every value of the constants that satisfies the named assumptions of the
modules: any finite set of requests, any products, baskets, operations, environments and times.

- `OrderServiceProofs` proves `TypeOK`. That a committed stock never leaves `0..Int4Max` needs that a
  transaction changes a stock only while it holds the lock of its row (`LockInv`) and that what it would
  leave is in range (`VisibleInv`): a commit of one transaction cannot invalidate what another has seen.
- `OrderStockProofs` proves `NoOversell`, and `StockConserved` when `Spellings \subseteq {"canonical"}`.
  `StockInv` adds what each transaction has done so far (`Work`: `Building`, `Settling`); then only commits
  move units, and as many to the order as from the shelf (`CommitBalance`). Units are counted as the
  cardinality of a set of (order, number) pairs, so that no induction is needed.
- `OrderAnswerProofs` proves `NothingLeaks`, `AnswerIsTrue`, `OneTransitionWins`, `HistoryIsKept` and
  `SoldAtCurrentPrice` from `AnswerInv`: for each request, what it holds at each `pc` (`Holds`), what of its
  draft is fixed and by which lock (`Signed`, `Priced`, `Filled`), what its reply stands for (`Told`), in which
  order it locks (`Ranked`); for each order, that its entry is one a commit can leave (`Entry`).
  It proves `OrderAsRequested` if no sum of quantities exceeds an int (`SumsFit`), `NoWaitCycle` if every
  product has one spelling (`CanonicalRefs`), and `ImplementsOrderBook` for canonical spellings. Findings 1 to 3
  show that these assumptions are needed. In a cycle of waiters each awaits a row beyond those it holds, so
  the rows awaited would ascend for ever, which a finite set does not allow.
- `RateLimiterProofs` proves `WindowBound` and `RefusedOnlyWhenSpent` for every rate. The argument keeps an
  account: the credit of a bucket plus what it has given equals a full bucket plus what came back since
  the instant at which it was last full.
- `AuthProofs` proves `TypeOK`, that `Auth` implements `RateLimiter` (`AuthImplementsLimiter`), and from it and an
  invariant on where each token comes from: `OneAccountPerEmail`, `NoSessionWithoutAccount`,
  `CallerHasProved`, `LoginTellsNothing`, `GuessesBounded`.
- `GraphQLProofs` proves every safety property of `GraphQL`, for any requests, operations and selections. The
  inductive invariant comes in four layers, each preserved given those before it that it needs.
  - `Inv` gives `RowsWereCurrent`, `OnlyOwnOrders` and `ClientKnowsWhatCommitted`. A root field that has not run has
    placed nothing; one that has run returned what is the caller's, and its code tells of the book what no
    later step can undo (`Tells`): orders keep their owner, final statuses are final.
  - `Typed` gives `TypeOK`: what each field returned fits its type, null only with an error except for `me`, and
    so do the rows of the loaders and of the book.
  - `InOrder` gives `NestedReadsAreSerial`: a root field of a mutation has run only if those before it are complete
    (`TurnsTaken`), a key is in a loader only because some field asks for it (`KeysQueued`), and a key that was
    read was read for the first field that asks for it, when the orders of the fields up to that one and of
    none after it were there (`KeysRead`). A key that an order asks for is asked for as long as the loader
    remembers it, so a field that is complete stays so (`RootKeysGrow`). The layer also says that a request is
    done only when its fields are, from which `NullsAreExplained` follows type by type: a value is null exactly
    where one of its keys has failed (`ItemNull`, `OrderNull`, `PageNull`, `RootNull`).
  - `Truth` gives `ShownOrdersStayTrue`: the book agrees with every order that was returned, in the fields that
    no step changes (owner, items, a final status; `Moved`). For a new order this needs that the basket has one
    line for each product, so that the units counted for it are those of its line (`NewLines`); for an order
    that was read or settled, that its items are there exactly when it was asked for by the server's id
    (`SaysRead`).
  `ExistingProductIsFound` (finding 4) is proved where every product has one spelling (`OneName`).
- `PagesProofs` proves every safety property of `Pages`, for any rows, filters, pages and sizes. Rows are counted
  by their `Rank`, the number of rows before them. While a walk goes on, what it has not shown is ranked at
  or beyond the next page (`Ahead`): an insert can only raise a rank, and a page that is not full leaves
  nothing behind it. If nothing is written, the walk has shown the ranks 0, 1, 2 and so on (`Exact`). `Bounded`
  says that a walk does not get to pages whose offset wraps. `LastPageIsLast` proves the claim that finding 5
  refutes for walks in which nothing is written. The arithmetic of `hasNextPage` (`HasNextIff`), of the offset
  (`PageNumbers`) and of LIMIT and OFFSET (`Slice`, `SelectedPage`) are lemmas.
- `LifecycleProofs` proves all four safety properties of `Lifecycle`: a process past the seed leaves rows that
  nothing removes, rows and commits add up to the seed's stock, and a process that shuts down accepts
  nothing after it has drained.

What the proofs assume of the constants, beyond their types: finitely many requests and order ids, and
finitely many products where their rows or locks are counted; tables with no more rows than an int
counts, so that a total is what COUNT returns; an initial stock within the INTEGER column it is kept in;
baskets of finitely many lines; ids of which the server's own spelling names what it is the id of
(`SpellingAssumption`). A document is one that gqlgen's validation lets through
(`DocumentAssumption`). The runs evaluate these assumptions.

The temporal theorems use the safety part of a specification (`Safety`, or `Spec` where fairness adds
nothing). Every invariant and every action property that a passing run checks is a theorem, four of them
under the named hypothesis that a finding shows to be needed. Only model-checked, because liveness is out
of the prover's reach: `EveryRequestAnswered`, `EveryOperationAnswered`, `SignalStopsProcess` and
`RecoversFromFaults`. `TypeCost` is a recursion over the schema of which the proofs use only that a request is
refused or not.

## 6. Not modelled

- `/healthz` and `/readyz` only read; the playground, limits on bodies and headers, request ids, logging and
  the log of requests change no state that a property is about.
- Of the generated executor: decoding of arguments beyond their type, introspection, `@defer`, and the
  plumbing of field contexts. gqlgen's runtime, dataloadgen, pgx, goose, golang.org/x/time/rate and
  net/http are external: modelled from how the code relies on them.
- Floating point totals, the text of names and emails (an ILIKE pattern is the set of products it
  matches, an email has a canonical form), bcrypt and HMAC (ideal), Docker and CI.
- Idempotency of `createOrder` (the repository's README declares it out of scope) and the limiter across
  restarts: the code promises nothing there.

Next, in this order: the orders of `Lifecycle` as transactions of `OrderService`, so that a shutdown meets
them statement by statement; the bound on the queries of a request (a key is fetched once); the listings
of `Pages` over several clients that walk the same list.
