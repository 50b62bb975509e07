# StockRush: a TLA+ model of the checkout

TLA+ specifications of the parts of StockRush that keep its promises: no
oversell, no confirmed order without stock, no stock lost, answers that stay
true, one confirmation mail. `PROJECT.json` maps every definition to the source lines it stands for and
lists the runs, hazards, findings and theorems. Paths below are relative to
`src/apps/` unless they start with `src/`.

## 1. The system

| Part | State | Operations | Talks to |
|---|---|---|---|
| order-service, checkout saga (`order-service/src/services/order.service.ts`) | `order_workflow` row per user + idempotency key (status, hash, lease), `orders`, `outbox_event` | `create`, `advanceWorkflow`, compensation, `recoverWorkflowById` | product-service by gRPC, its own PostgreSQL |
| order-service, recovery worker (`jobs/recovery.job.ts`) | leases | every 3 s: find stuck workflows, claim, recover | the saga |
| order-service, outbox publisher (`jobs/outbox.job.ts`, `streams/order.stream.ts`) | leases and `publishedAt` of outbox rows | every 2 s: claim, XADD, mark or retry | Redis stream `events:orders` |
| product-service, reservations (`product-service/src/services/stock-reservation.service.ts`, `grpc/product.grpc.server.ts`) | `products.stock`, `stock_reservation`, its items | `reserveStock`, `getReservation`, `releaseStock`, legacy `decrementStock`, `incrementStock` | called by the saga |
| product-service, stock counters (`services/product.services.ts`, `jobs/stock-sync.job.ts`) | `products.stock`, Redis `stock:<id>` | create, HTTP decrement, sync job every 5 min | Redis, PostgreSQL |
| notification-service (`notification-service/src/streams/streams.consumer.ts`) | consumer group, sent markers, locks, dead-letter stream | reclaim, read, deduplicate, lock, mail, acknowledge | Redis, SMTP |
| circuit breaker, gRPC client (`order-service/src/clients/`) | breaker window | deadlines, fast failure | wraps the saga's RPCs |
| idempotency cache (`order-service/src/middleware/idempotency.ts`) | Redis response cache | answer a repeated request, cache a success | in front of `create` |
| api-gateway (`api-gateway/src/`) | order points per user in Redis | verify the token, limit, forward, give up after 10 s | auth-service, order-service by HTTP |
| auth-service (`auth-service/src/services/auth.service.ts`) | `users` | register, login | PostgreSQL |
| flashsale frontend (`flashsale/`) | the stored token | register, sign in, order, repeat an order | api-gateway |
| `src/packages/shared`, `src/infra`, `src/tests/load` | none of the program's | schemas, manifests, k6 scripts | |

The repository holds no unit tests; its load scripts measure throughput.

### What is hard

* **A checkout has several drivers.** The first request, the client's retry and
  any recovery worker may hold the same row. A lease keeps them apart, and the
  lease is time: a driver that outlives it is not told.
* **RPCs and commits are ambiguous.** A `ReserveStock` that timed out may be
  executed later, a `ReleaseStock` may be lost or repeated, and a transaction
  reported as failed may have committed.
* **Two statements are two moments.** The workflow and its order are read apart;
  an outbox row is inserted after a check; compensation looks for the order and
  then claims the row.
* **Two stores hold one fact.** Outbox and stream, mail and sent marker,
  PostgreSQL and the Redis stock counter: a crash between two writes leaves them
  different.
* **Transactions lock row by row** in baskets that overlap.
* **A person repeats what was not answered.** The gateway stops waiting and
  order-service goes on, so the repeated order races the first one, the response
  cache and the recovery worker, under another session perhaps.

### What makes each part correct

* reservations: never below zero, each unit taken and given back once, answers
  describe the durable row, transactions do not deadlock, and all of that amounts
  to an atomic ledger;
* saga: an order keeps its stock, a client is never told two stories, one driver
  at a time, decisions are final, compensation leaves nothing behind, one event
  per order, every stored checkout is decided in the end if leases outlast the
  steps of live drivers;
* delivery: nothing published is lost, nothing is acknowledged before it was
  handled, a duplicate mail has one of the reasons the code admits, mail goes
  out for confirmed orders only, every confirmed order is mailed in the end;
* stock counters: requests that buy oversell only what something else made
  Redis overstate; keys that expire or drift return to PostgreSQL's value;
* the order path: a token opens an account of its holder's, cached responses
  are what the database would answer, what a person is told about an order is
  and stays true, and whoever repeats an order is answered in the end.

## 2. Modules

```
StockLedger             atomic ledger: Reserve, Release
  ^   ^
  |   StockTransactions      the SQL; implements StockLedger
  |
CheckoutSaga            statements and RPCs; implements CheckoutContract
  |
  v  (refines)
CheckoutContract        what a checkout promises
  ^  (uses)
  |
Storefront  ----------> Accounts
browser, gateway,       registration, sign-in, tokens
response cache

EventDelivery           outbox publisher, stream, consumer group;
                        implements NotificationContract
StockCache              Redis counters, PostgreSQL, sync job
```

Each module with theorems about it has them in `<module>Proofs`;
CheckoutSagaProofs is continued by CheckoutLeaseProofs, and FiniteSums has the facts
about naturals and sums over finite sets that several of them share.
`MC...` modules hold the constants of the runs.

**StockLedger** is what product-service promises its callers: `Reserve(c, b)`
and `Release(c, b)` change all items of a basket or none, once per reservation id.
`GetReservation(c, b)` is the lookup, which refuses another request's row.
The reservation id is the workflow id, and the request hash is the basket itself
(SHA-256 taken as injective). A product that does not exist behaves as one with
stock 0, since the conditional update then matches no row.

**StockTransactions** is the SQL under it, one action per statement at READ
COMMITTED, Prisma's default: `FindForReserve`, `CreateReservation` (P2002 on the
unique key, then `RereadWinner`), `DecrementRow` in the sorted order of
`normalizeItems`, `ClaimRelease` (compare-and-set RESERVED to RELEASED),
`IncrementRow`, `Commit`, and `Abort` at any point. Row locks follow from
the program counters; an UPDATE waits only for a row whose committed state
matches its WHERE. A transaction that has made its CAS but not committed is
invisible: the variables are the committed rows.

**CheckoutSaga** extends the ledger. Handlers are POST /orders requests, workers
recovery processes, and `pc`, `cur`, `want`, `seen` are an actor's position, its
workflow, the basket in its request and the status it last read. Each action is
one statement, one RPC or one transaction, named for the function it is part of.
The transaction that stores order, event and COMPLETED (`OrderCommitted`) is one
action although it is several statements: of two drivers the second waits for the
first at the order's primary key, or at the workflow's row, and then finds the
order, so that its check for an event (`order.service.ts:309`) cannot run beside
another one's insert. `Fault` gathers what may go wrong:

* `ReserveStockFails`: the deadline or the breaker; the call was not sent,
  was executed and its answer lost, or will be executed later (`lateReserve`).
  The late calls are sets, since repeating one of them changes nothing;
* `ReleaseStockFails`, likewise with `lateRelease`; if the update that notes the
  failure fails too, a failed persist goes on to its read-back (`ReadBack`);
* `PersistFails`: the order transaction reports an error and did not commit, or
  is in doubt (`inDoubt`) until `ResolveCommit` or `ResolveAbort`. An in-doubt
  transaction keeps the row lock of its workflow, so that statements that update
  the row wait for it and statements that read it do not;
* `QueryFails`, `Crash`: any actor stops at any step, its lease left behind.
  A crash of a process is crashes of its actors in any order.

Some reads are merged where nothing can tell: the two reads of
`ReadOutcome`, and the candidate list of the recovery worker with its claim,
whose WHERE repeats every condition of the list. `seen` and the answers
(`acked`, `refused`) are recorded in the step that settles them. attempts, nextAttemptAt and
lastError only delay, and any delay is allowed. `orderId` is
fixed when the row is created, so one name stands for workflow, order and
reservation. `stalls` counts, per checkout, the leases that expired under a live
owner, and `InTime` are the checkouts this never happened to: the properties that
depend on the lease are about these, whatever happens to the others.

**CheckoutContract** is the specification a caller could be given: Ask, Take,
Confirm, Refuse, GiveBack, without databases, leases or messages. `outcome` in
CheckoutSaga is the refinement mapping.

**Accounts** has the browser's stored token, the registration form, and
auth-service's register and login. The check for an existing user and the insert
are two statements with the password hashing between them; the unique constraint
decides. A password is the person who knows it.

**Storefront** composes Accounts and the checkout contract into the way of an
order: the browser wants one order at a time and repeats it, the gateway takes a
point of the user's window and sends it on under the identity of the token,
order-service looks in the response cache, then creates or finds the workflow,
and answers once it is decided. `request` holds what order-service is working on,
whoever still waits for it; `writes` holds the SETs of the cache nobody awaits,
which arrive in any order or never. The checkout under it is CheckoutContract
rather than CheckoutSaga: the theorem SagaImplementsContract and the run
saga_progress (EventuallyDecided) are what the composition relies on. `Normal` is
the normalisation of a body, by which the cache, the workflow row and the
reservation, each with a copy of its own, decide what the same order is. The
browser here keeps the idempotency key of an order it repeats, as the gateway's
answers ask; see Findings for what `useOrders.ts` does.

**EventDelivery** follows an outbox row to the mail. A message is its position in
the stream. Each UPDATE, Redis command and SMTP dialogue is an action; a command
may fail with its effect or without (`CommandFails`), and where an error is
caught decides what follows: inside `processMessage`'s try the finally block
runs, elsewhere the loop drops the rest of its batch. `lapses` counts, per event,
the moments that may duplicate a mail: the mail left and no marker was
set, or the lock expired under its owner. The marker's 30 days are not exceeded.
Malformed messages come from other writers of the stream. The batch of a
consumer is a set worked through in ascending order, which is the order of the
stream. **NotificationContract** is what the customer sees of it: Confirm, Notify,
and a lapse (`Excuse`) before any second mail.

**StockCache** has the HTTP purchase (find, DECRBY, INCRBY or update), product
creation and seeding, the PostgreSQL-only writes of reservations and of the
legacy RPCs, lost keys and overlapping sync rounds. A DECRBY or INCRBY on a
missing key starts from 0, as Redis does. The quantities of reservations and RPCs
are validated (`Quantity`); that of a purchase is not (`product.routes.ts:39`), so
`PurchaseQuantity` may hold any integers, and a negative one adds to the counter
before PostgreSQL has it. What Redis or Prisma do not take for a number is a case
of `PurchaseFails`. A key may be lost at any time and any number of times: it
expires 24 hours after its last SET, and neither DECRBY, INCRBY nor a sync round
that finds it healthy renews it. `Resend` is a counter command executed twice,
because the connection broke before its answer. What a sync round no longer uses is
forgotten as the loop goes on. `overstated` is the most by which Redis, after any
write that is not a step of a request that buys (`Buys`), granted more than
PostgreSQL had left. It records stale seeds, reseeds and lost keys as well, so
OversellIsAccounted is about the DECRBY gate; that those do no lasting harm to
the counter is DriftHeals, and what they do to the stock is the finding below.

`PROJECT.json`'s `map` has the lines of each definition. Operators whose comment
says *Mutant* are plausible wrong versions of the definition that follows them;
no specification uses them, and each property of a passing run is violated by
at least one.

## 3. Runs

| Run | Question | Instance | Result |
|---|---|---|---|
| stock_transactions | are concurrent transactions an atomic ledger? | 3 transactions, 2 reservations, 2 products, 2 overlapping baskets | passes |
| saga_contention | one driver, one decision, true answers, no new leak? | 2 checkouts for the last unit, 2 handlers, 1 worker, no overrun, symmetry | passes |
| saga_stall | what is left when leases expire under live drivers? | 1 handler, 1 worker, 2 overruns of each checkout | passes |
| saga_progress | is every stored checkout decided? does the saga implement the contract? | 1 handler, 1 worker, no overrun, LiveSpec | passes |
| saga_leak | does FAILED mean the stock is free? | 2 handlers, 2 checkouts | violated |
| saga_overrun | do orders keep their stock after one overrun? | 2 handlers, 1 overrun | violated |
| delivery | events lost otherwise than by trimming, early acknowledgements, duplicates; is the contract implemented? | 2 publishers, 2 consumers, 1 event, 1 malformed message, 2 messages, a stream of 1 entry, 1 lapse | passes |
| delivery_progress | is every confirmed order mailed? | 1 publisher, 1 consumer, LiveSpec | passes |
| delivery_trim | what does MAXLEN do? | 2 events, a stream of 1 entry | violated |
| stock_cache | what does the Redis gate guarantee? does drift heal? | stock of 1, 2 purchases of -1 or 2, 2 overlapping rounds, any number of lost keys, 1 write by a reservation or RPC or resent command, LiveSpec | passes |
| stock_oversell | does the stock stay at or above zero? | 2 purchases, 1 reservation, quantities above zero | violated |
| storefront | are people told the truth, for good, and in the end? | 2 people, 1 address, 2 registrations, 1 key, 4 bodies, 1 request at a time, 1 order per window, LiveSpec | passes |

**Bounds.** Two actors of a kind are the smallest number that race, and the
third transaction lets a cycle of waits close through a bystander. One product
with stock for one of two baskets is where contention shows; two products are
needed only for the order of locks. `MaxStalls` = 2 lets each of two drivers
outlive its lease. Two messages let an event be published twice, or share
a batch with a malformed message; a stream limited to one of them lets the second
trim the first, read or not. `MaxLapses` bounds the lapses alone, not
failures: these are unbounded everywhere. In delivery_progress it is 0, which keeps the run short: a
lapse is a mail that left, or the lock of a consumer still on its way to
mailing. Two overlapping rounds let a stale snapshot
overwrite a fresh one. In stock_cache a stock of 1 with purchases of 2 makes
each purchase depend on a unit that is returned or bought with a negative quantity.
`MaxDisturbances` bounds the writes of reservations and RPCs and the resent
commands; lost keys and failures are unbounded. In saga_contention the two handlers are two orders, or
an order and its repetition; the worker is the third driver of either. The
contract, whose check is the slowest, is checked on the instance of saga_progress;
run by hand it also holds on that of saga_contention (1.5 million states), and by
proof for all. The properties of saga_contention hold, again by hand, when one of
two checkouts may be overrun and the other may not (10.6 million states, 1 handler).
In storefront one request at a time still meets its own late cache writes, the
checkout of an earlier request and a new session. Its four bodies are two forms
of one order, another order, and one over the limit. Its safety properties also
hold, run by hand, with 2 addresses (2.6 million states) and with 2 requests
at once (400 000), and for any numbers by the proofs; all its properties,
RetriesAreAnswered included, hold by hand with 1 person and 2 requests at once
(15 249 states), where a repeated request runs beside the first. Repetition (crashes, retries, redeliveries, failed
commands) is not bounded: the state graphs have cycles there.

`CHECK_DEADLOCK FALSE` appears only in the delivery and stock runs, which stop
when every bounded event has happened. The saga, the transactions and the
storefront never stop.

**Fairness.** saga_progress: the worker polls for ever (`startRecoveryWorker`
re-arms its timer in every case), each of its statements may fail any number of
times but not every time (strong fairness of the successful step), a statement or
RPC of a live actor ends (gRPC deadlines, Prisma timeouts), leases expire
(`leaseUntil`), PostgreSQL resolves a commit. No fairness is assumed of clients:
a checkout is decided without its client's return. delivery_progress: publisher
and consumer poll for ever, with the same assumption for each command, and the
lease and lock of a dead owner expire. stock_cache: an accepted
request ends, rounds are started for ever and end, and in one of the overlapping
slots commands do not fail every time. Its purchases and other writes are finite,
which is what "cease" means in `DriftHeals`; keys go on expiring. So DriftHeals
does not say that a key stays: it says that Redis agrees with PostgreSQL again
and again, and that from some time on a key that is there shows no other stock. storefront: a person who waits signs in
again and repeats the request, limiter windows end (`duration`,
`blockDuration`), a request under way ends or goes on, each of its steps may
fail any number of times but not every time, and every checkout is decided, which
is EventuallyDecided of the saga.

## 4. Findings

* **saga_leak** (`order.service.ts:420`). A first ReserveStock times out and is
  still under way; the retry is refused for lack of stock, the lookup finds no
  reservation, the workflow becomes FAILED. When stock returns, the late call
  is executed and keeps it: FAILED is never compensated. `src/README.md:104` says
  all successful decrements are reversed.
* **saga_overrun** (`order.service.ts:456`). The updates to RESERVED and COMPLETED
  do not look at the status. A driver that outlives its lease confirms an order
  whose reservation the next driver released, against the comment at
  `order.service.ts:505`: the lease prevents two drivers, and the operation
  remains idempotent if a lease expires.
* **delivery_trim** (`order.stream.ts:20`). MAXLEN drops entries nobody has read,
  after their rows were marked published; `outbox.job.ts:15` says at-least-once.
* **stock_oversell** (`product.services.ts:93`). The PostgreSQL update of an HTTP
  purchase has no condition, and Redis does not know of reservations; the comment
  at `product.services.ts:82` says stock can't go negative. The run's requests all
  buy; with the quantity unvalidated (`product.routes.ts:39`), a request for -1 on a stock of 1
  lets another take 2 before PostgreSQL has them, or although it never gets them.

Two disagreements were read and need no run: the browser's `useCreateOrder`
(`flashsale/hooks/useOrders.ts:27`) sends no `X-Idempotency-Key`, without which
the gateway (`api-gateway/src/routes/order.routes.ts`) answers 400; and
`useOrders` asks for a route the gateway does not have.

## 5. Proofs

TLAPS proves the following for any sets of checkouts, baskets, products, handlers,
workers, transactions, events, publishers, consumers, people, addresses, keys and
requests, under the modules' named assumptions and those of the last column.

| Module | Theorem | States | Assumes |
|---|---|---|---|
| StockLedgerProofs | LedgerType | the ledger's types, hence stock >= 0 | |
| | LedgerConserved | StockConserved of the ledger alone | finitely many checkouts |
| StockTransactionsProofs | Types | TypeOK | |
| | NeverOversold | NoOversell | |
| | TransactionsConserve | StockConserved | finitely many checkouts |
| | AnswersStay | AnswersHold | |
| | NeverDeadlocked | NoDeadlock | ranks of products are bounded |
| | LedgerImplemented | ImplementsLedger | |
| CheckoutSagaProofs | TypeCorrect | TypeOK of the saga | |
| | OneEvent | OneEventPerOrder | |
| | CompletedOrders | CompletedHasOrder | |
| | CompensationIsComplete | CompensatedHoldsNothing | |
| | SagaCallsLedger | the saga follows LedgerSpec | |
| | SagaConservesStock | StockConserved of the saga | finitely many checkouts |
| CheckoutLeaseProofs | OrdersHoldStock | ConfirmedHoldsStock | |
| | TruthfulAnswers | AnswersAreTruthful | |
| | OneDriver | SingleDriver | |
| | FinalDecision | DecisionIsFinal | |
| | FailedIsClean | FailedTakesNoMore | |
| | SagaImplementsContract | ImplementsContract of the saga | MaxStalls[c] = 0 for all c |
| EventDeliveryProofs | Types | TypeOK | |
| | DuplicatesAccounted | DuplicatesHaveReason | |
| | AckedHandled | AckedIsHandled | |
| | LossIsTrimming | OnlyTrimmingLoses | |
| | PublishedKept | PublishedIsNotLost | StreamLimit >= MaxMessages |
| | DeliveryImplementsContract | ImplementsContract of delivery | |
| StorefrontProofs | StorefrontTyped | TypeOK | |
| | TokensAreGood | TokensOpenTheirAccount | |
| | CacheIsTruthful | CacheAgreesWithOrder | |
| | AnswersAreFinal | AnswersStayTrue | |
| | StorefrontFollowsContract | the order path follows CheckoutContract | |
| StockCacheProofs | CacheTyped | TypeOK | finitely many purchases |
| | OversellAccountedFor | OversellIsAccounted | finitely many purchases |

"Finitely many" is what a sum over them needs to mean anything; the code, which has
handled finitely many at any time, justifies it. The other two conditions are
conditions on the deployment and are discussed below.

**Sums.** Conservation, the quantity of a product in a body and the units granted
by Redis are sums over finite sets, which the models write with the folds of the
community modules. FiniteSums derives what the proofs need of them (`SumAdd`,
`SumChange`, ...) from the definition of the fold: a recursive table on the
subsets of a finite set exists and is unique, since the set of sizes at which it
might fail to has no smallest element (`Smallest`).

**The ledger.** A step of the ledger changes the hold of one checkout by as much as
the shelf (`MovesOneHold`), so their sum stays. The saga changes stock and
reservations only by Reserve and Release (SagaCallsLedger), so it inherits this, with
every crash, repetition, late call and overrun; the transactions inherit it through
their refinement.

**The saga.** TypeOK alone is not inductive: an action applies `status` to
`cur[a]`, which may be NoCheckout. `Linked` says which program counters imply a
checkout, a basket and a stored row; with it (`TypeInv`) every action preserves
types (`TypeInvStep`).

The three theorems that survive overruns of their own checkout need two more parts
(`StallInv`). `Events` counts events against orders. `Reserved` says that an actor
past its reservation step has a reservation to its name and that COMPENSATED means it
was released: a RELEASED reservation is never reserved again, so a late
ReserveStock does no harm there. Note where FAILED is missing: it is the finding
saga_leak.

The lease theorems rest on `LeaseInv`, the conjunction of StallInv with
`Leased` (who drives, holds the lease), `Tracked` (what a
driver's program counter says about the status nobody else can change) and
`Settled` (what the status says about order, reservation, answers and late
calls). These parts are about the checkouts in time only, and every step of a
checkout leaves those parts of the others alone: a LeaseOverrun takes its checkout out
of InTime and breaks nothing of the others, so that no assumption on MaxStalls is
needed. That the restriction to InTime is needed is what saga_overrun shows
(OrdersKeepStock has none). FailedTakesNoMore closes saga_leak from the other
side: only a reserver or a late call reserves (`WhoReserves`), no actor is a reserver of
a FAILED checkout, so the late call of the finding is the only leak.

The refinement adds only `Unasked`, that a checkout nobody stored has no basket: under
LeaseInv every action is one step of the contract or none. It assumes that no checkout
is overrun, because the contract speaks of all of them, and an overrun one does
break it.

**The transactions.** The invariant says what row locks buy. `Exclusive`: at most
one transaction works on a reservation and at most one has updated a row.
`Relies`: what a transaction read about the reservation stays true until it
commits, and the rows it took units from still hold at least that many in the
committed state. From these a commit is one `Reserve` or `Release` of the ledger, all items
or none, and every other statement is invisible. `Ascending`: rows are updated in
the order of `normalizeItems`, so of all transactions that wait for a row, the one
that waits for the highest is waited for by a transaction that can go on. "Highest" needs
bounded ranks, the one assumption there.

**Delivery.** `DuplicatesHaveReason` is proved by an account kept for each event:
mails sent, plus consumers that may still mail it although the lock is no longer
theirs, plus the mail that is still due, is never more than lapses + 1. A marker
settles what is due; losing a lock before the marker is set makes a debtor and a lapse at
once; a mail pays a debt. `Locks` (a lock's holder works on its event) and
`Claims` (what a consumer's step says of its message) make the account
move as said. `Published` (a published row, or one about to be marked, has its
message in the stream, and what was trimmed is older than the last StreamLimit
messages) gives OnlyTrimmingLoses: an acknowledgement loses nothing
(AckedIsHandled), so what is lost was trimmed. PublishedKept is the case of a
stream that is never trimmed; the run delivery_trim loses an event otherwise.
`Confirmed` (only events of confirmed orders are in the stream) completes the contract.

**The order path.** A checkout that is stored keeps its order, a decided one its
outcome, an address its account (`Settled`, `Registered`). Every answer and cached
response is about such a checkout, so it stays true; a request's identity was its
sender's when it was sent (`SendersAreKnown`) and still is. The order path reaches the
checkouts only by the contract's steps, and asks for baskets the contract knows
(StorefrontFollowsContract), so what the contract promises holds under requests,
retries, caches and accounts. For the shelf in TypeOK, what `Normal` makes of a body
has to be quantities: sums of the body's lines (`NormalIsSum`).

**The stock counters.** The invariant is a balance (`Accounted`): what Redis still
grants of a product, plus what requests that buy were granted and have not taken from
PostgreSQL, exceeds PostgreSQL's stock by no more than `overstated`. For such a
request, a DECRBY moves units from the counter to the outstanding ones, an INCRBY
moves rejected ones back, the update removes accepted ones on both sides
(`PurchaseBalance`). A request for nothing or less has no part in the balance: its counter
commands note what they cause, its update only adds to PostgreSQL (`OtherBalance`).
Every other write is noted in `overstated`, or only adds to PostgreSQL
(`RaiseBalance`). `Linked` (a purchase or a reseeding round is about a product that
exists) makes the rows numbers.

TLC checked the invariants before they were proved. The step lemmas have one
case per action.

**Only model-checked.** Liveness (EventuallyDecided, EventuallyMailed, DriftHeals,
RetriesAreAnswered), which depends on fairness and ENABLED, and the four findings,
whose counterexamples are TLC's. Every invariant and action property of a passing run
has a theorem.

## 6. Not modelled

* The breaker is the library opossum; what it does to the saga, a call that
  fails without being sent, is a case of ReserveStockFails. Its window and
  half-open state only decide how often that happens.
* The gateway's register, login and product limiters only refuse, as the order
  limiter does, and guard nothing modelled here; its product routes and
  `GET /me` read.
* The product response cache is read and never written (`setOne` and `setList`
  have no caller); `syncStockToRedis` has no caller.
* A payload the event schema rejects is retried for ever. EventDelivery has the
  single failure; an outbox row that can never be published makes
  delivery_progress take longer than is practical.
* Errors thrown by asynchronous routes are assumed to reach the error handlers,
  which is what `express-async-errors` does.
* Prices, mail templates, argon2 and PASETO, metrics, logging, health checks,
  configuration, deployment, the pages of the frontend and the load scripts.
* A release or lookup with an empty request hash, which skips the comparison (the
  saga never sends one); stream messages without an eventId, which are
  deduplicated by their message id; overflow of PostgreSQL's 32-bit stock.
* That a purchase between another's rejected DECRBY and its INCRBY is rejected
  although stock is left: the code accepts it, and no document promises otherwise.
* Flash-sale expiry: decrementStock turns the purchase away before any effect.

About half of the repository's implementation lines are written by hand; the
others are Prisma clients generated from the schemas. Of the hand-written half a
good part is pages and components, configuration, logging, seeds and load scripts. What is left unmapped
of the services is declarations, conversions, read-only routes and the parts named above.

## 7. Plan

Done: everything in section 2. What could follow:

1. the contract as a refinement also for the checkouts in time while others are
   overrun: now its theorem assumes that none is;
2. two addresses and two requests at once in one storefront run with liveness,
   if its time allows;
3. an outbox row that cannot be published beside others, and that these are
   mailed all the same.
