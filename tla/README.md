# TLA+ models of the Dotnet-Dokumantasyonu programs

The repository is a .NET course: documents, one microservice application
(ECommerceApp, "Faz5"), three editions of a bookshop ("Faz2", "Faz3") and many short
examples ("Faz1", "Faz4"). This directory holds TLA+ models of its programs, the TLC
configurations that check them on small instances, and TLAPS proofs of the most
important facts for every instance.

At the centre is ECommerceApp, the only program of the repository that is distributed
and the one whose correctness rests on protocols between processes.

## 1. Inventory

Paths below are relative to `src/`; `E/` stands for
`Faz5-Mikroservisler/ECommerceApp/src/`.

### ECommerceApp (Faz5)

| Component | State | Operations | Hard parts | Correct when |
|---|---|---|---|---|
| Order intake, `E/OrderService/Controllers`, `HttpClients`, `Data` | Orders table, outbox table, memory cache (all in the process) | `CreateOrder`: product lookup, stock check, idempotency key, save with the event, answer | several requests between two awaits, lookup failing in four ways, stale cache, an order stored whose answer is lost, restart | a stored order is announced, heard of or not; a repeated click does not order twice; a refusal is true and costs nothing |
| Product lookup, `E/OrderService/Program.cs` 16-85 | circuit state, permits, attempts | circuit breaker, concurrency limiter, retry, timeout | timeouts against each other, half-open probes, permits held during backoff | the circuit protects, and closes again |
| Order saga, `E/OrderService/Saga` | one instance per order, in memory | five event handlers | messages in any order, repeated, connection lost between two publishes, restart | one outcome per order; the compensation fits what happened |
| PaymentService, ShipmentService | none | one consumer each, two outcomes | repeated deliveries | a request is acted on once |
| NotificationService | none | four consumers | repeated deliveries | what it tells is true |
| Broker, `E/Shared/Contracts` and MassTransit | queues, error queues | deliver, acknowledge, redeliver | no order, at least once | nothing sent is lost |
| AnalyticsService | static dictionary and set | one consumer | unsynchronised collections | a sale is counted once |
| ProductService, ApiGateway | constant catalogue, routes | read | none | - |

How they interact: a customer's POST reaches `OrderController.CreateOrder`, which asks
ProductService over HTTP (through the resilience pipeline and the cache), and saves the order together with an `OrderCreatedEvent`.
The outbox delivery sends the event to the saga and to NotificationService. The saga
asks PaymentService, then ShipmentService, by message, reads their answers, and
announces the outcome to NotificationService. When the shipment fails it announces a
refund and a cancellation, the compensation.

### The bookshops and the examples

| Component | State | Hard parts |
|---|---|---|
| Faz3 CQRS edition, `Faz3-Mimari/04-CQRS` | SQLite tables, memory cache of tracked entities, one `AppDbContext` per request | stock decremented on an object that another request's context tracks, unsynchronised `-=`, failed saves, ISBN check and insert in two calls |
| Faz3 onion edition, `Faz3-Mimari/03-OnionArchitecture` | SQLite tables, one `AppDbContext` per request | stock read, checked and saved without a concurrency token, books deleted while orders of them are on their way |
| Faz2 MVC edition, catalogue, `Faz2-ASPNET-MVC/KitabeviMVC/Services`, `Controllers`, `Endpoints` | table of the in-memory provider, memory cache by list, category and book (a book that does not exist is cached too), change tracker of each request | cache entries stored after they were invalidated, categories that change, updates that start from what the context loaded before, title check and write in two calls, a semaphore that requests do not share |
| Faz2 background services | bounded channel of 100 | back-pressure, shutdown with messages left |
| Faz4 idempotency filter, `Faz4-Performans/Ornekler/gun100_Idempotency` | distributed cache of answers | lookup, payment and store are three awaits; repetitions while the first request is under way; entries that expire or were never stored |
| Faz4, other examples | Redis lock, channels | class libraries without a caller |
| Faz3 pattern demos | order state machines | legal sequences of calls |
| Faz1 demos, web layers, wwwroot, documents | none worth checking | - |

`PROJECT.json` lists every component with its sources, and under `hazards` each place
where the code can go wrong in a way a test would hardly reach.

## 2. Modules

```
Bus                      the broker: queues by order and kind of message
 |- OrderSaga            the MassTransit state machine
 |- PaymentService, ShipmentService, NotificationService
 |- OrderOutbox          order table and outbox, the seam between HTTP and broker
      |- OrderIntake     CreateOrder run by many requests  (EXTENDS OrderOutbox)
OrderFlow                all services around one Bus       (EXTENDS all but OrderIntake)
OrderShop                OrderIntake in front of OrderFlow (EXTENDS both)
 |- MCShop               the symmetry of its run
OrderLifecycle           what a customer is promised: the abstract specification
BusProofs, OrderFlowProofs, OrderShopProofs (which also holds the proofs about OrderIntake)

ResiliencePipeline       circuit breaker, limiter, retry and timeouts of the product lookup
ProductLookup            what a lookup promises its caller: the abstract specification
ResilienceProofs

Bookshop                 orders and new books of the CQRS edition
 |- MCBookshop           the symmetry sets of its runs
BookshopProofs

Catalog                  the catalogue of the MVC edition behind its cache
 |- MCCatalog            the forms, the folding of categories and the symmetry of its runs
CatalogProofs

OnionStock               orders and deletions of the onion edition
OnionStockProofs

IdempotencyFilter        the filter of Faz4 in front of its payment endpoint
IdempotencyProofs
```

**Bus.** `queue[o][k]` counts the messages of kind `k` about order `o`. A bag and not a
sequence: the endpoints are several and prefetch more than one message, so a consumer
can rely on no order. `Consume` is a delivery whose consumer ran to its end; it ends in
an acknowledgement or, when that is lost, in a repeated delivery with everything the
consumer published already out. `DeadLetter` is a consumer that threw: no retry is
configured on the endpoints where a consumer can throw. `OrderCreatedEvent` has two
subscribers, so it is two kinds, `OrderCreated` and `CreatedNotice`.

**OrderSaga.** The five `When` clauses are five records: state, event, published
messages in order, next state. `Handle` runs one. `CutOff` is one that lost the broker
between two publishes: a prefix is out, the instance is not stored, the event comes
back. `DropUncorrelated` and `RejectUnexpected` are what MassTransit does with an event
without an instance and with an event the state has no `When` for. `Finalize` together
with `SetCompletedWhenFinalized` removes the instance, so the states `Completed` and
`Cancelled` are never stored.

**PaymentService, ShipmentService, NotificationService.** One action per consumer and
outcome. `captures` and `parcels` count transaction ids and tracking numbers issued;
they are what the services did to the world, not state they keep. The success rates of
80 % and 90 % are a free choice.

**OrderOutbox.** `PlaceOrder` is the one `SaveChangesAsync` of `CreateOrder`;
`RelayOutbox` the delivery service, which may send a row twice. `placed` are the orders that were
ever stored; what their clients were told is OrderIntake's. The module also counts the
`restarts` of OrderService, which OrderIntake and OrderFlow share.

**OrderFlow.** All of this composed, with `RestartOrderService`, which loses saga
instances and outbox rows, also in the middle of a message. The part of `CreateOrder`
before the save, and the answer after it, are left to OrderIntake: `Intake` uses the same actions
of OrderOutbox, at any time and for any order. An order is accepted, here and below, once
`SaveChangesAsync` has stored it; from then on the services work on it.

**OrderIntake.** A request is named by the order it may create. Its handler is cut at
the awaits: lookup (`Reach`, `FallBack`, `GiveUp`), stock check in the same step,
`CheckKey`, `Save`, `Respond`. `Save` stores the order with its event and tells nobody
("stored"); `Respond` gives the 201 ("created"), or the connection is gone by then ("lost"), and a
restart in between makes it "lost" as well. Meanwhile the outbox may send the event and other requests
may find the key. So a charged order whose client never heard of it, and a 409 that is the only answer
anybody got, are states of the model; its client clicks again as another request, which is caught
by the key within the minute and is another order in the next. `Reach` and `FallBack` fill and read the cache as
`ProductHttpClient` does, `GiveUp` is the `HttpClient.Timeout` that nobody catches. The
history variable `ahead` remembers which orders were stored, answered or not, when a request
arrived; no action reads it.

**OrderShop.** The whole application: `Desk` is a step of a request, of the clock, of the
lookup's cache or of the outbox delivery; `Services` one of the saga or of a consumer;
`RestartShop` the end of OrderService, which takes requests, Orders table, cache, outbox and saga
instances together, also in the middle of a message. No action is new: those of
OrderIntake and OrderFlow are conjoined with what the other half leaves alone. Its
specification implements OrderFlow (`ImplementsFlow`), which is why OrderFlow may be
checked and proved without the requests, and through it OrderLifecycle.

**OrderLifecycle.** No services and no messages: an order is accepted, charged at most
once, shipped at most once and only when charged, and told at most one outcome in which
money and goods agree. It allows that an order stays open, because a restart of
OrderService leaves orders open.

**ResiliencePipeline.** `Program.cs` stacks four Polly strategies under an `HttpClient`
with a total timeout. One lookup of caller `c` goes through `stage[c]`: "asked" (before
the circuit), "admitted" (before the limiter), "attempt" and "pause" (inside, with a
permit), "decide" (on its way out, before the circuit has counted it). `Admit`, `Probe`
and `TurnAway` are the breaker before the call, `CountFailure` and `CountSuccess` the
breaker after it; `Acquire` and `Reject` the limiter without a queue; `RetryOrFinish` and
`Resume` the retries, which keep their permit; `Slow` the timeout of an attempt, `Cancel`
that of `HttpClient`. `Shown` is what `ProductHttpClient` makes of the result: a fallback
for the four exceptions it catches, a cancelled call for the one it does not. Time is the
seconds a lookup has used, `spent[c]`; `TimeoutAssumption` keeps the two relations of the
source that matter: the attempts together are longer than `HttpClient.Timeout` (4 times 4
against 15), and a break is longer than a lookup (30 against 15). `Turn` lets ProductService
be up, down (errors, refused connections) or hung.

**ProductLookup.** A lookup that is let in is served and told something; one that is not
gets a fallback; never more than `Limit` are inside. These are the ends OrderIntake gives
its lookups, so it stands between the two modules.

**Bookshop.** The requests of the CQRS edition run over one `IMemoryCache` and one
`AppDbContext` each. `CachingKitapRepository` caches the `Kitap` object itself, so the
model names an instance by the request whose context loaded it: `entity[r]` is its
`StokAdedi`, `cache[b]` says whose instance is cached, `uses[r]` whose instance request
`r` works on. A cache hit decrements the instance of another request; only the context
that loaded an instance tracks it, so the hit stores its order line and leaves the
column `stock` alone. `Kitap.StokAzalt` is `Check`, `Load` and `Write`, because two
threads may be inside it with one object. `Detect` and `Save` are `SaveChangesAsync`:
change detection reads the instance, the transaction writes an absolute value. `Fails`
is a database error or a cancelled request, `Expire` the end of a cache entry, `Restart`
the end of the process. `CheckIsbn` and `Insert` are the two calls of
`KitapEkleHandler`. Three history variables, read by no guard: `knew` (what was
stored when a request arrived), `taken` (copies taken off instances, stored or not) and
`disturbed` (books whose instance was evicted or wanted by two at a time).

**Catalog.** A request of the MVC edition reads a list, a category or a book, creates a
book, edits one by the form of `KitapController`, puts one by the API, or deletes one,
and is cut at its awaits. Queries, keys and answers have one shape: `Key(q)` is the key
that `CachedKitapServisi` builds for query `q` (categories are folded by `Lower`),
`View(q)` is what the database answers, a function from ids to books. `Get`, `Query`
and `Store` are the cache-aside read; the second look under the semaphore is the same
step, because `CachedKitapServisi` is scoped and so the semaphore is the request's own.
`tracked[r]` is the snapshot in the change tracker of request `r`: `FindAsync` answers
from it, and `Merged` writes the columns in which the form differs from it. `Save`,
`Remove` and `Insert` are the `SaveChangesAsync`, `PurgeBook`, `PurgeAll` and
`PurgeCategory` the three `Remove` calls after it, one at a time. The anti-forgery and
role checks are free choices of the answer; `Forms` are bodies that pass the model
validation. An answer ends the request and its context. Four history variables, read
by no guard: `late` (readers whose result a write has overtaken), `crossed` (requests whose tracked book
somebody else wrote), `suspect` (keys that a late reader filled or that the three
`Remove` calls miss), `contended` (titles that two requests were about to write).

**OnionStock.** Every request of the onion edition has its own context, so the entity is
one number, `seen[r]`: `StokAdedi` as the request read and lowered it. `Take` is
`BulByIdAsync` with `StokAzalt`, `KalemEkle` and `Onayla`, which touch only the request's
entities; `Save` is the one `SaveChangesAsync`, which writes order and number together.
`SaveMissesRow` is a save whose book was deleted in between. `DatabaseFails` and `Restart`
end requests anywhere; the table is a file and stays. `before` and `crossed` are
history: which orders were stored when a request read its book, and of which books one was
saved over another.

**IdempotencyFilter.** `Arrive` and `RefuseKeyless` are the check of the header, `Replay`
and `Miss` the lookup, `Pay` the endpoint, `Store` the store and the answer. `FailPaid` is a
store that failed after the payment, `StoreUnanswered` an answer lost after the store.
A repetition is another request with the same key; when it comes is left open.
`overlaps` and `lapses` count, per key, what makes a repetition pay again.

## 3. Runs

| Run | Instance | Shows |
|---|---|---|
| `order_faults` | 1 order, 2 repeated deliveries, 1 restart | what holds under all faults: a stored saga has its request or answer in the broker, no parcel without a charge, no news that is not true, charges and parcels bounded by one and the repeated deliveries; as long as nothing was delivered twice the compensation fits and no message is rejected; no message goes round for ever; every order is decided unless OrderService restarts |
| `shop` | 2 requests, 1 customer, 1 product (sold out, or unknown when nobody can tell), 2 minutes, 1 restart, answers lost | requests, outbox, saga and consumers together: a refused request has no consequences, a click after the first order was stored is not charged, a 409 is true even when it is the only answer given, the shop implements OrderFlow and OrderLifecycle |
| `intake` | 2 requests, 1 customer, 3 products (in stock, sold out, unlisted), 3 minutes, 2 restarts, 1 repeated outbox delivery, answers lost | a click after the first was stored is caught, every stored order is announced, its client answered or not, unless OrderService restarts |
| `bookshop` | 3 requests, 2 books with 2 copies, 2 ISBNs, 1 restart | every decrement that is lost is lost in one direction, a refusal has a reason, nothing is oversold while orders of a book follow each other on one instance, a stored book is found, an ISBN is stored twice only by overlapping requests |
| `catalog` | 3 requests, 2 books, 2 titles, 2 categories, 2 forms | which entries may be older than the table, titles are unique but for two writers at a time, an uncrossed update is complete, a deleted book stays deleted, what handlers carry over an await is true |
| `resilience` | 2 lookups, 1 permit, 1 retry, timeouts 2 and 3, break 4, window of 3 results | permits are kept, the probe of a half-open circuit is alone, hangs never open the circuit, the pipeline implements ProductLookup, every lookup ends, the circuit recovers |
| `onion` | 3 orders, 1 deletion, 2 ids of which one has no book, 2 copies, quantities 0 to 2 | the stock never gets negative and is exact unless an order was saved over another; a refusal is right |
| `idempotency` | 4 requests, 2 keys or none | each payment beyond the first of a key has a cause; without one all clients of a key have one receipt |
| `order_redelivered_charge` | violation | one repeated request charges twice |
| `bookshop_oversold` | violation | more copies are sold than the shop has |
| `resilience_hang` | violation | a lookup that the hung service left without an answer counts as a success of the circuit |
| `idempotency_twice` | violation | a repetition that comes while the first request is under way pays again |

The violations are places where a comment or document of the repository says one thing
and the code does another; `PROJECT.json` quotes them under `findings`, with others that
need no run.

**Bounds.** Orders do not touch each other in OrderFlow except through the two counters
`redeliveries` and `restarts`, so one order meets every interleaving of its own
messages; `shop` has two orders, and a restart that hits them in different states. It
repeats no delivery, because OrderLifecycle promises nothing then; its three safety invariants are
proved for any number of them.
Two repeated deliveries are enough for two sagas of one order to overlap (the outbox
sends twice), and for one of them to be disturbed again; one restart is enough for a saga to start on the
leftovers of another. In OrderIntake two requests are what a race needs; three were
checked once, with the same result. In OrderShop the two requests are a click and its
repetition, in one minute or across two. Its one product is refused when ProductService or the
cache tells, and ordered when neither can; the services behind do not look at the product, and
products in stock, unlisted ones and purchases of different products are in `intake`. Two
products in `shop` were checked once (one of them unlisted, then one in stock within one minute),
with the same result in several times the time. The requests are interchangeable and
only safety is checked, so the symmetry is sound. In Bookshop one request owns the cached instance, a
second hits it, and a third reloads the column or is refused; a book has room for one order of
two copies or two orders of one, and `MaxQuantity + 1` is a quantity the validator rejects.
`Books` bounds the rows, so `Insert` waits when all are used. Requests, books and
ISBNs are interchangeable and the run checks invariants only, which makes the symmetry
sound. In Catalog the three requests are the reader whose entry is stored, the writer
that removes it, and the late reader that stores it again; two forms differ in every
column, so an edit changes title, category and stock at once. `Books` bounds the ids, so
`Insert` waits when all are used. The same properties were checked once with three forms
and two requests, and once with both categories folded to one key. Its action properties
name no single request, book or title, so the symmetry is sound for them too.

In `resilience` the numbers keep the order of the source's: two attempts of 2 s do not fit
into 3 s, one does, a break of 4 s is longer. One permit and two lookups make the second
one be rejected while the first retries; `MinimumThroughput` 2 opens the circuit by two
failures, with a success in the window or without; `MaxSample` stops new lookups until
results leave the window, because the window counts without end otherwise. No symmetry: the run has
liveness properties. In `onion` three orders of one book are two that overlap and one that
is refused afterwards, and quantity 0 is one that `StokAzalt` rejects. In `idempotency`
three requests of one key are a first one, an overlap and a replay, with a fourth for the
other key or none. The proofs remove all of these bounds.

`CHECK_DEADLOCK FALSE` is set in every run: when all orders are decided, in OrderIntake
and OrderShop when all requests are answered and the clock has reached its bound, in Bookshop,
Catalog, OnionStock and IdempotencyFilter when all requests are answered, the system
rests. The pipeline never rests, since ProductService may always turn, and the check would
say nothing there.

**Fairness.** `FairSpec` gives weak fairness to the outbox delivery and to each
service's consumers, per order: MassTransit's receive endpoints keep reading as long as
the processes run, and the delivery service polls once per `QueryDelay`. Weak fairness is
enough because a waiting message stays available until it is consumed. Nothing is fair
about customers, restarts, or losing connections. The promise `EveryOrderDecided`
excuses orders after a restart of OrderService, which really loses them.

In ResiliencePipeline the work of each started lookup is weakly fair (answers and
timers come, continuations run), and so are the end of a break and the passing of
results out of the window. A hung ProductService is no exception: then a timer is what
comes. Nothing is fair about callers and ProductService, so `CircuitRecovers` assumes
that callers go on asking and that the service is up for good.

## 4. Proofs

Everything below is checked by TLAPS for every set of orders and requests and every
bound.

* `BusProofs`: what `Exchange` does to one queue and that it keeps the type.
* `OrderFlowProofs`: the inductive invariant `FaultInv`. Type correctness alone is not
  inductive enough for anything else: that a parcel implies a charge must be carried
  by the messages in between. `Conserved` adds up what may still become a charge (outbox
  row, `OrderCreated`, `PaymentRequested`) and the charges made, and bounds the sum by
  the acceptance and the repeated deliveries. A second sum does the same for parcels over the whole
  chain (up to `PaymentCompleted` and `ShipmentRequested`), a third from the charge on. `Grounded` says that nothing that
  comes after the payment (after the parcel) exists without it. `Served` is the property
  `NeverWaitsInVain` itself. From these follow `TypeCorrect`, `NoVainWait`,
  `ParcelsArePaid`, `NewsIsAlwaysTrue`, `DamageStaysBounded` (at most `1 + redeliveries` charges and
  as many parcels: the first and the second sum).
  Without repeated deliveries, `ExactlyOnce` comes on top of `FaultInv` (together
  `FlowInv`): an order is one token that moves from message to message (`OneToken`); where
  it is determines charge, parcel and the saga's state unless a restart removed it
  (`TokenFits`); what was announced determines the rest (`OutcomeFits`). From these follow
  `CompensationIsRight` (which includes that no order is told both outcomes) and
  `NothingIsRejected`. `Refinement`: with
  `MaxRedeliveries = 0` every step of OrderFlow is a step of OrderLifecycle or leaves the
  customer's view unchanged. `NothingComesFromNothing` needs no such hypothesis: each
  message, instance, charge and e-mail has a predecessor (`WorkHasReason`), and the first of them is the
  outbox row, so an order that was never stored has none of them.
  The liveness of an order, `EveryOrderDecided`, rests on two facts that are safety, and both are
  proved under all faults. *Work ends* (`WorkEnds`): `Load` weighs each message by the longest
  chain of consumers it can set off, from 7 for an `OrderCreated` to 1 for a notice, and
  `Budget` adds the acceptance, the outbox row and 9 for each delivery that may still be
  repeated, since the largest repetition is that of an outbox row, two messages of 7 and 1 with the row
  still there. Each step of saga, outbox or consumer uses up the budget of one order and adds
  to none, in whatever state an event finds the saga: handled, dropped, rejected, cut off between
  two publishes. So an order costs at most `10 + 9 * MaxRedeliveries` steps, restarts apart.
  *Work is not lost* (`NothingIsForgotten`): `AllOnTheirWay` says that an accepted order is in
  the outbox, waiting as `OrderCreated`, in a saga instance, or announced; with `NeverWaitsInVain` for the
  instances, somebody then always has a message to consume until the customer knows. Only that a
  waiting message is in fact consumed is left to fairness, and so to TLC.
* `OrderShopProofs`, first part: the invariant `IntakeInv` of the requests. `Progress` ties the
  state of a handler to its own request, with `Stored`: an order is stored from "stored" on, and one
  whose client heard nothing may be stored or not. `Overtaken` says that the check of the key has seen the
  orders stored before the request came, heard of or not. The two calls of the race are why it speaks
  of `ahead` only, and not of all orders. From it follow `IntakeTypeCorrect`,
  `LateClicksAreCaught`, `ConflictsHaveOwners` and `OnlyBlindOrders` (a sold-out or unlisted
  product is ordered only when nobody could tell).
* `OrderShopProofs`, second part: the composition. A step of `Desk` is one of OrderIntake and
  at the same time one of OrderFlow or none (`DeskStep`); a step of `Services` leaves what the
  requests know alone (`ServicesKeepIntake`); a restart is both sides' restart
  (`RestartKeepsIntake`). So `ShopImplementsFlow`, and everything proved of
  OrderFlow holds of the shop (`ShopKeepsFlow`), as does everything proved of the requests
  (`ShopKeepsIntake`). `ShopInv` joins the two invariants by `OrdersAreStored`, the one fact
  neither has alone: until a restart the Orders table is the set of accepted orders. Then a
  charge leads back to an accepted order (`NothingFromNothing`), an accepted order to its
  request (`Progress`) and two of them to the check of the key (`Overtaken`):
  `RefusedRequestsCostNothing` and `LateClicksNeverPay`. In the other direction an answer leads to an
  order and on to the work on it (`NothingIsForgotten`): a 201 to its own (`ShopFollowsUp`), a 409
  to that of another request (`ConflictsAreTrue`), whose client need not have heard of it; that
  work is neither lost nor endless. `ShopImplementsLifecycle` is the
  two refinements one after the other.
* `BookshopProofs`: the invariant `BookshopInv`. That no copy vanishes from the column
  needs the same bound on everything that may still be written to it: every loaded
  instance (`Instances`) and every value between its read and its write (`Progress`); and
  that a hit works on an instance of its own book (`Sharing`, `CacheHolds`). `Alone` is the
  exact version for books that were not `disturbed`: the cached instance equals the
  initial stock minus what was taken, and what was sold is part of it. From these follow
  `BookshopTypeCorrect`, `NoCopyEverVanishes`, `RefusalsHaveReasons`,
  `NotFoundIsAlwaysTrue`, `NoLateDuplicates`, `UndisturbedIsNotOversold`.
* `CatalogProofs`: the invariant `CatalogInv`. A write shows in the answers of four keys
  at most (`WriteShows`): the book, the list of all, and the categories before and after. Three of
  them are keys the writer has still to remove (`ToPurge`), the history names the
  fourth, and whoever has queried one of them and not stored it yet is late
  (`HeldIsFresh`); so every entry keeps its excuse. `TrackedIsFresh` is the same argument
  for the change trackers. Unique titles need `TitleIsFree` (what the check saw is still
  so) and `WritersApart` (two writers of a title are in the history). From these follow
  `CatalogTypes`, `EntriesStayFresh`, `TitlesStayUnique`, `HandlersAlwaysKnow`,
  `UncrossedUpdatesAreComplete` and `DeletedBooksStayGone`.
* `ResilienceProofs`: the invariant `PipeInv`. That permits and holders add up is inductive by
  itself; that the probe is alone is not. It needs `BreakOk`: nobody is past an open
  circuit whose break is over, because a break outlasts the lookups from before it. That
  hangs are never failures needs the time (`TimeAddsUp`): a lookup none of whose attempts
  was refused has used `AttemptTimeout` for each, and the last one would end after
  `LookupTimeout`. `HangsKeepCircuitClosed` is about whole behaviours: as long as ProductService is
  never down no lookup is refused and no failure is counted (`Quiet`), so nothing opens the
  circuit. `LookupsAreBounded` is the safety half of `LookupsEnd`: `StepsLeft` counts the way through
  circuit and limiter and back, the attempts that are left and the pauses between them; every step of
  a lookup lowers it and no other step raises it, so a lookup is over after at most
  `2 * MaxRetryAttempts + 4` steps of its own. `PipelineImplementsLookup` maps every step to one of ProductLookup or to
  a stutter, with the permits as its count of who is inside.
* `OnionStockProofs`: the invariant `StockInv`. Lost decrements go one way, so column and sold
  copies together never fall below the initial stock (`NoCopyVanishes`), not even when a
  number that an order still carries is saved (`CarriesEnough`); as long as no order of the
  book was stored since, that number is the column less the order's
  quantity (`CarriesColumn`).
* `IdempotencyProofs`: the invariant `FilterInv`. Payments are hard to count when they are
  made; the requests that have missed are counted instead. A key is guarded while it
  has an entry or a payment under way; at most one miss happens outside of `overlaps` and
  `lapses` while it is (`MissesHaveCauses`). Entries and answers tell of payments that were
  made for their key (`ReceiptsOk`), so where there is only one, all tell of the same.

Assumptions: the natural-number bounds (`BusAssumption`, `RestartAssumption`,
`BookshopAssumption`, which also keeps `None` apart from requests and ISBNs),
`CatalogAssumption` (`Lower` is a function on categories, forms are rows, `None` is no row) and
`SoldOut \subseteq Listed \subseteq Products` (`IntakeAssumption`), a finite set of lookups
and the two relations between the timeouts (`PipelineAssumption`, `TimeoutAssumption`),
orders apart from deletions (`OnionAssumption`), and a finite set of requests with `None` apart
(`FilterAssumption`). TLC evaluates them in the runs.

`Refinement` and `ShopImplementsLifecycle` assume `MaxRedeliveries = 0`: with a repeated
delivery the services do not implement OrderLifecycle, as `order_redelivered_charge` shows.

Proved without a run of their own: `IntakeTypeOK`, `OnlyBlindOrdersSlipIn`, `ConflictHasOwner`,
`NothingFromNothing`, `NothingForgotten`, `NoCustomerForgotten`, `HangsAreNotCounted`,
`NoEndlessLookup` and the type invariant of ResiliencePipeline. TLC has checked each of them on the instances
above; the runs check the properties that use them.

Only model-checked: the liveness properties `EveryOrderDecided`, `AcceptedIsAnnounced`,
`LookupsEnd` and `CircuitRecovers` (fairness is out of the prover's reach; for the first and the
third their safety halves are proved). The three
bookshops and the filter have no liveness property: their handlers wait for nobody.

## 5. What the models take from outside the repository

* MassTransit discards an event that correlates with no saga instance, throws
  `UnhandledEventException` for an event the state has no `When` for (so the message
  goes to the `_error` queue), and handles one message of a saga instance at a time.
* A failing `Publish` means the connection to the broker is gone, so the event comes back.
  A publish that fails alone, with the message then moved to `_error`, is not modelled.
* At a restart at most one message is in the middle of its handler.
* EF's in-memory provider does not enforce unique indexes.
* The bus outbox is modelled as its configuration asks for, with a delivery at least
  once. Whether that version of MassTransit delivers over EF's in-memory provider is
  outside the repository.
* When a cache entry expires, in minutes of the clock, is left open: `Expire` may happen
  at any time.
* EF Core finds changes by comparing the tracked instances with their snapshots when
  `SaveChangesAsync` starts, writes changed columns as absolute values in one
  transaction, and adds no `WHERE` on the old value unless a column is a concurrency
  token, which none is in `AppDbContext`. A second context does not
  track the instance of the first.
* The in-memory provider under `KitabeviDbContext` enforces no unique index, never fills
  a `RowVersion`, writes the changed columns only, answers an update or delete of a missing row with
  `DbUpdateConcurrencyException`, gives no id twice, and supports neither
  `ExecuteUpdate` nor `ExecuteDelete`, so that the batch operations of `EfKitapServisi` change
  nothing and are left out.

* Polly: the circuit breaker counts every outcome its predicate does not handle as a
  success, cancellations and the limiter's rejection among them, and closes on it when
  half-open; it lets through only the call that made it half-open; opening keeps the
  sampling window and closing clears it. The HTTP predicates handle
  `HttpRequestException`, `TimeoutRejectedException` and statuses from 500. A lease of the
  limiter is disposed however the call ends. A 5xx that is left after the retries becomes
  an `HttpRequestException` in `EnsureSuccessStatusCode`.
* Timers are punctual to within the difference of a break and a lookup, 15 s: a lookup that
  started before a break has ended when the break ends.
* SQLite runs one transaction after the other. `AppDbContext` of the onion edition has no
  concurrency token; an UPDATE or DELETE that meets no row throws
  `DbUpdateConcurrencyException` and rolls everything back. The book and the order line
  share one `Fiyat` object, an owned type of both; EF is taken to store it for each.
* `IDistributedCache` keeps an entry until it expires, and a read or write of one key is
  atomic.

Seen while reading, without a run: the client and the gateway use `api/products/...`
while `ProductController` answers to `api/Product`, so that every lookup of the
application as it stands ends in 404 (the models take the route as intended);
`Order.Status` never leaves "Pending"; the comment at `PaymentRequestedConsumer.cs:33`
names the wrong saga state; the four 503 branches of `CreateOrder` cannot be
reached, because `ProductHttpClient` catches the same exceptions. In the CQRS edition
`Siparis.Onayla` runs before the save, so the confirmation names order 0;
`TumunuGetirAsync` and its list cache have no caller; and `AndSpecification` compiles
its parts into delegates, which EF cannot translate. In the MVC edition the MediatR
handlers under `Features` have no caller; `KategoriKey` folds the case of a category that the query
compares exactly; the API ignores the result of `GuncelleAsync` and `SilAsync`; and a
book that was looked for before it existed stays hidden until that entry expires.

## 6. Not modelled, and why

* AnalyticsService: its consumer listens to a Kafka topic that nothing in the repository
  produces to.
* Background services and HTTP handlers of the MVC edition: nothing writes to the
  confirmation channel, and `AuthHandler` needs a service that is registered nowhere.
* Redis lock, channels, thread-safety and concurrency-token examples of Faz4: classes without
  a caller. A model of the lock would be a model of an invented client.
  `InboxOrnek.IdempotentIsle` contains no insert, only comments about one.
* Console demos of Faz1 and Faz3: scripts that run once, alone and to the end.
* Web layers, wwwroot, gateway, documents: no state of their own.
* In modelled components: the batch operations of `EfKitapServisi`, which the in-memory
  provider does not support; listings that only read; e-mails, which are log lines;
  the tokens, roles and forms around the handlers.

A composition of ResiliencePipeline with OrderIntake is not written out: they meet in
ProductLookup, whose ends are OrderIntake's lookup actions, and OrderIntake lets each end
come at any time, which is more than the pipeline does.
