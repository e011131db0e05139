# Formal model of the delivery-order aggregator

The service receives order webhooks from delivery platforms, deduplicates and
queues them, translates and stores them in Postgres, and shows them on the
kitchen displays of the store; merchants then move orders through their
statuses. This directory holds TLA+ modules translated from that code, TLC
configurations that check them on small instances, and TLAPS proofs.
`PROJECT.json` maps each definition to the lines it stands for.

    tlc -workers 2 -config MCOrderWorker.cfg MCOrderWorker
    tlapm OrderWorkerProofs.tla

## The system

| Component | State | Operations | Who calls it |
|---|---|---|---|
| Webhook front door: `IdempotencyInterceptor`, `IngestionController.ingest` | Redis keys `idem:<platform>:<orderId>` with a TTL; per request: duplicate?, marker owned? | SET NX PX, answer 200 / 202 / error, roll the marker back | platforms, which retry whatever is not answered 2xx in time |
| `IngestionProducer` | none | read the waiting count, shed load, `Queue.add` with `jobId` = dedupe key with ':' replaced | front door |
| Ingestion queue (BullMQ) | jobs: waiting, active + lock, delayed, completed, failed; attempts, stalls | add, take, complete, fail, backoff, stalled check, expiry | producer, worker, DLQ |
| `IngestionProcessor` with `OrderPersistenceService` | `orders` (unique `idempotency_key`), `order_items`, `order_events` | translate, insert, log `order.created`, broadcast | BullMQ, `WORKER_CONCURRENCY` runs per instance |
| `DlqController` | none | list, get, retry, discard | operators |
| `OrdersController`, `OrdersQueryService` | `orders.status`, `order_events` | read API, `updateStatus` | merchants |
| Outbound dispatch | map of adapters by platform name | `pushStatusUpdate` | `updateStatus`, not awaited |
| `KitchenGateway`, `RedisIoAdapter`, bootstrap | rooms `store:<id>` and their sockets, per instance; Redis pub/sub between instances | connect, subscribe, unsubscribe, broadcast | displays, worker, order API |
| `OrderRetentionService` | `orders.archived_at` | archive, purge | nightly cron in every instance |
| Translation, `PlatformMappingService` | reads `platform_mappings`, `products` | translate per platform, resolve store and product | worker |
| Catalog, stores | `products`, `categories`, `stores`, `platform_mappings` | CRUD, link, availability | dashboard |
| `WebhookAuthGuard`, `GrabTokenService`, `PlatformRegistry` | none (signed tokens) | issue, verify, resolve the platform, dedupe key | platforms, before the front door |
| `ParserService` | none | read the menu, ask the language model, draft with totals | dashboard, which posts the draft as an order |
| Health, metrics, filters, seed | none that others depend on | | |

The front door and the worker share only the queue; the worker and the order API
share the tables and the kitchen rooms; the worker's translation reads the tables
that the catalog and the stores API write; several instances of the whole service
may run against one Redis and one Postgres.

What is hard: every `await` lets another request, run or instance in; the marker,
the job and the row are three stores without a common transaction; replies and
processes get lost between any two of them; BullMQ does not stop a run whose lock
it has given to another; the audit event and the broadcast follow the write they
report; operators act on states they read a moment ago; a catalog handler saves a row it read
before another one changed it; a translation makes one query per line, and the menu
changes in between; what a display is sent and what it lists come by different ways, and an instance serves
displays before Redis has confirmed that it hears the others. `PROJECT.json` lists these as
hazards, at their lines.

What makes each component correct:

- front door: an order that is answered 200 or 202 is in the system's hands, and
  a marker without a job, a row or a delivery behind it does not turn the
  platform's retry away;
- queue and worker: every job ends; an order is stored and shown at most once,
  shown only when stored, and not lost;
- order API: the audit trail explains the row, and the displays follow it;
- retention: what the documentation says is archived, is;
- catalog and mappings: what a platform was not told is flagged, whoever saves what
  when, and the references hold;
- translation: a stored order is the order that was sent, refers to what its ids were
  linked to, and adds up;
- admission: what is taken in as a platform's order was verified as that platform's,
  tokens last as announced, and no two orders are taken for one or one for two;
- displays: a display gets what it asked for, and nothing falls between the list and
  the broadcasts, wherever they come from.

## Modules

| Module | Models | Extends |
|---|---|---|
| `JobQueue` | BullMQ as this code configures it, and the DLQ operations | |
| `WebhookFrontDoor` | interceptor, `ingest`, producer | `JobQueue` |
| `OrderWorker` | processor and persistence | `JobQueue` |
| `OrderIntake` | abstract: an order is new, stored, logged, announced | |
| `IngestionPipeline` | front door and worker together; refinement of `OrderIntake` | both |
| `OrderLifecycle` | status requests, end of the creating run, outbound push, retention | |
| `CatalogMappings` | catalog and stores APIs on their four tables | |
| `ChatParser` | the chat parser's menu, model answer and draft | `CatalogMappings` |
| `OrderTranslation` | translators, resolver and the stored row, beside the changing catalog and the parser | `ChatParser` |
| `WebhookAdmission` | guard, tokens, registry, dedupe key, job id | |
| `KitchenRooms` | instances, rooms, broadcasts through Redis, the paged list | |
| `OrderWorkerProofs` | theorems on the queue and the worker | `OrderWorker` |
| `FrontDoorProofs` | theorems on markers and answers | `WebhookFrontDoor`, `OrderWorkerProofs` |
| `IngestionPipelineProofs` | theorems on the composition: refinement, no order vanishes | `IngestionPipeline`, `FrontDoorProofs` |
| `LifecycleProofs` | theorems on the row, its audit trail and the displays | `OrderLifecycle` |
| `CatalogProofs`, `MenuProofs`, `AdmissionProofs`, `RoomsProofs` | theorems | `CatalogMappings`, `OrderTranslation`, `WebhookAdmission`, `KitchenRooms` |
| `MC...` | constants for TLC | |

`OrderTranslation` is what `Translate` and `InsertOrder` of `OrderWorker` stand for, seen
from the data; `WebhookAdmission` is what a delivery has passed before `WebhookFrontDoor`
begins; `KitchenRooms` is where `BroadcastOrder` goes.

**JobQueue.** `job[j]` is the job with that id: its state, the order in its data,
attempts made, stalls, and the slot that holds its lock. `AddJob` does nothing when
the id exists, in any state. `StallJob` is the stalled-job check, which also finds
jobs of slots that are alive but lost their lock; the slot goes on. `FailJob` backs
off until the attempts are used up. `ExpireJob` stands for `removeOnComplete` and
`removeOnFail`. A DLQ operator first checks the state (`DlqCheck`) and then acts.
`disposed` records the orders whose failed job was discarded or has expired.

**WebhookFrontDoor.** `delivery[d]` is a request with its program counter. Each Redis
call is a step with its outcomes: answered, failed before or after it was executed,
or executed and sent again because the reply was lost (`ClaimReplyLost`). The
rollback is a step after the answer, since the code does not await it. `accepted`,
`deduped`, `enqueued` and `mishap` are history variables.

**OrderWorker.** `run[r]` is a worker slot; each await of `process` and `persist` is an
action, and each may throw (`InsertError`, `LogCreatedError`: with the write
committed or not) or be cut off (`CrashRun`). `rows[o]`, `events[o]` and `shown[o]`
count what the order left behind. `SettleJob` is refused to a slot without the lock.
The items of an order are part of its insert, which is one transaction.

**IngestionPipeline.** The conjunction of the two, the front door being the only
producer. `OrderPhases` maps the traces of an order to the phase `OrderIntake` talks
about, and to "corrupt" when they match no phase.

**OrderLifecycle.** One order. `req[q]` is a PATCH request: find, TypeORM's second
read, write of the columns that differ, event, broadcast and push. `creator` is the
rest of the worker's run. `overlapped` and `cut` are history: two handlers at once,
a handler that did not reach its end. The retention job is two statements with the
literals of the code. `audit` is in the order of insertion; `created_at` of an event
is its transaction's start, so a reader may see two events of racing requests
swapped.

**CatalogMappings.** `db` has the rows of all four tables by id. A handler finds its row
and changes the copy (`FindRow`, `FindProduct`, `FindLink`), TypeORM reads the row again
(`Reload`) and writes the columns that differ (`WriteRow`, `SavedRow`); a product's
availability then flags its links in a statement of its own (`FlagLinks`). A handler may
be cut at each await (`RequestCut`). A write that the database refuses (`CanWrite`) ends its
request: a foreign key, the unique key, or the primary key when two stale saves put one deleted
row back. Creations and deletions are one statement. `told` is
history: what a link offered when it was marked as synced, which the code has no record
of; `orderly` says that requests did not overlap and used the endpoints that flag. `fresh` are
the ids that no row had yet: they are uuids generated by the insert, so `CreateMapping`
cannot name one, although it may name an id whose row is gone.

**ChatParser.** The language model may answer anything of its schema's shape, with ids it
invented and quantities that are no numbers.

**OrderTranslation.** `order` is the present attempt of one job. Each lookup is a step,
between which `CatalogNext` may act. Money is in the unit of the payload (tenths of a cent
for Foodpanda, where a half cent may be rounded either way, as binary fractions do);
quantities are in tenths. `linked` is history: every link there ever was.

**WebhookAdmission.** A parameter of the route has letters, a case and blanks. Order ids,
dedupe keys and job ids are sequences of characters, because their separators are what
may be confused. A token is its claims and its key. A delivery here is one step: its
interleavings are the business of `WebhookFrontDoor`.

**KitchenRooms.** An instance boots, waits for two Redis clients, creates the Socket.io server
(`createIOServer`, from where on its worker may run) and listens, or is stuck after a first
error. The adapter asks Redis for its subscription when the server is created and nothing
waits for it, so `Subscribed` and `Listen` come in either order; a broadcast goes to the
instances in `subscribed` at that moment. `heard` is history: a display began to list on an
instance that was subscribed. `channel[i][j]` holds what instance `i` published and `j` has not
received. A display connects, joins and leaves rooms, and walks through `GET /orders` in
two queries per page. `asked` and `whole` are history too. `join` with the Redis adapter is a
local operation, so it is done when the handler has answered.

Steps left out: reads that change nothing, logging, metrics. A crash of an instance is the
crash of its requests and runs one after the other, with nothing in between, except in
`KitchenRooms`, where it is one step. Redis and Postgres keep what they acknowledged.

## Runs

| Run | Instance | Checks |
|---|---|---|
| `worker` | 1 order, 3 slots, 1 operator, 3 attempts, 1 stall | `OrderWorkerTypeOK`, `NoDoubleDisplay`, `ShownIsRecorded`, `CompletedIsStored`, `StoredIsAnnouncedUnlessInterrupted`, `DisplayInv`, and `JobSettles` under fairness |
| `front_door` | 1 order, 3 deliveries, 1 resend, any consumer | `FrontTypeOK`, `MarkerIsBacked`, `AcceptedWasEnqueued` |
| `pipeline` | 1 order, 2 deliveries, 2 slots, 2 attempts, no stall forgiven, fail-open | `TypeOK`, `EnqueuedIsNotLost`, `AcceptedIsNotLost`, `ImplementsIntake` |
| `lifecycle` | 1 order, 2 requests at once, 3 in all, 3 statuses | `LifecycleTypeOK`, `SequentialAgreement`, `AuditIsComplete`, `ScreenWasLogged` |
| `catalog` | 2 stores, a product linked in both, a category, one more row of each table to come, 2 interchangeable handlers, 3 requests | `CatalogTypeOK`, `SyncedIsCurrent`, `FlagClearedByStoresOnly` |
| `menu` | 6 payloads of two platforms, 3 answers of the model, 2 products, 1 catalog request at any moment, 2 attempts | `MenuTypeOK`, `StoredMatchesPayload`, `StoredAddsUp`, `EachItemWasLinked` |
| `admission` | 3 configurations, 5 spellings, 2 order ids, a token, 2 accepted orders, 2 seconds | `AdmissionTypeOK`, `TokensLastAsAnnounced`, `CheckedAsParsed`, `AcceptedHasItsJob`, `OneAcceptancePerOrder` |
| `displays` | 2 interchangeable instances, 1 display, 3 orders of 2 stores, pages of 1, 2 faults | `RoomsTypeOK`, `OnlyAskedStores`, `NoGap` |
| `lost_announcement` | as `worker` | `CompletedIsShown`, violated |
| `retry_deduped_away` | as `front_door` | `RetryNotDedupedAway`, violated |
| `unreached_instance` | as `displays` | `AnyInstanceIsReached`, violated |
| `never_archived` | 1 request, retention fair | `OldOrdersAreArchived`, violated |

Bounds. One order suffices, because orders meet nowhere but in the depth of the queue,
in the number of free slots and, when two dedupe keys sanitize to one id, in a job:
the first two only delay or refuse, and the last is excluded by an injective
`JobIdOf` (see below). Three deliveries give an owner, a duplicate and a latecomer;
three slots give a creator and two runs that took over from it. With 3 attempts there
are a first, a middle and a last one (the code has 5). `MaxStalled = 1` is BullMQ's
default; `pipeline` and `front_door` use 0 to stay small, so that a stalled job goes
straight to the dead letters, and two runs of one order meet there through expiry and
a new delivery. Counters are bounded by the code itself, except the resends (`MaxResends`,
`maxRetriesPerRequest` is 3 in the code) and the status requests (`MaxPatches`).

In `catalog`, three requests are a change, one that races it and one that reads what they
left; two stores are what a change for one platform may miss. In `menu`, each payload is
one kind of trouble (two lines, a text that is no number, half a cent, a quantity below
one, an id without a link, an amount that no INT holds, no lines), and one catalog request
is enough to change the answer of the next lookup. In `admission`, the two ids differ in
their separator, the only way in which keys could collide; a token of two seconds has a
second inside its life and the one at its end. In `displays`, one display suffices, since
displays do not affect each other; with two orders of its store, received in one order and
stored in any, and pages of one, rows move from page to page while it reads. The theorems
below say the same for all sizes.

Fairness. `OrderWorkerFairSpec` assumes that a run which started goes on (Node runs
its continuations, and every call the run waits for returns or fails), that a waiting
job is handed to an idle slot in the end (the wait list is first in, first out; strong
fairness, since slots may be busy in between), that a backoff ends, and that the
periodic stalled-job check finds an abandoned job. It assumes nothing of producers,
operators and crashes. `LifecycleFairSpec` assumes that the cron expression fires every
night and that time passes.

### What the violated properties show

- `lost_announcement`: the row and the `order.created` event are two transactions, and
  `persist` reports `created: false` whenever the row exists. When the insert
  committed and anything after it failed, the retry completes the job and the kitchen
  never sees the order.
- `retry_deduped_away`: no crash and no lost command is needed. The rollback is not
  awaited, so the platform's retry can meet the marker of the delivery that just
  failed, and is answered 200.
- `never_archived`: the SQL compares with lower-case statuses, the rows hold upper case.
- `unreached_instance`: no fault is needed. An instance listens, a display subscribes and lists
  there, another instance stores and broadcasts an order of its store, and only then does Redis
  execute the first instance's subscription: the order is in no list that the display reads
  and is not sent to it. The comment of `RedisIoAdapter` (`redis-io.adapter.ts:8-9`) says that
  room broadcasts "reach clients connected to any app instance". `NoGap` in `displays` is the
  promise that does hold, for a display that began to list when its instance was subscribed.

### What else the models made visible

Comments and tests that the code contradicts, beside those the violated properties quote.
No property of a passing run rests on either side of them, except where it says so:

- `order-item.entity.ts:19` says of an item's product id "snapshot — kept even if the product is
  later removed". The migration declares the column `ON DELETE SET NULL`
  (`1779870000000-CreateOrders.ts:36`), so the database empties it when the product is deleted;
  only the name stays. `ItemsAfter` is the migration's; `MenuTypeOK` says no more than that the
  id is the product's or NULL.
- `webhook-auth.guard.ts:21-22` says that without the relevant variable "the guard warns and
  passes through (fail-open)", `env.validation.ts:36` that "If unset, GrabFood webhook auth is
  skipped", and `test/ingestion.e2e-spec.ts:36-39` expects 202 for a GrabFood webhook without an
  Authorization header. `verifyGrabFood` (lines 50-55) answers 401 to a missing header before it
  looks at any secret; without `GRABFOOD_TOKEN_SECRET` any bearer passes, and no bearer does not
  (`VerifyGrabFood`). No token can be issued then either (`IssueToken`). `CheckedAsParsed` and
  `TokensLastAsAnnounced` speak only of platforms whose secret is set.
- `ROADMAP.md:84-86` says that the outbound adapters "are wired and called on every status
  change". They are registered under `grabfood` and `foodpanda` and looked up by the order's
  `platform`, which the translators write in upper case (`AdapterCalled`), so none is ever called.
- `ingestion.controller.ts:104` says of a 202 "accepted and enqueued": the second of two orders
  whose ids differ in ':' and '_' only gets a 202 and no job (see (*) under Proofs).

These follow from the definitions named, and no document says otherwise.

- `Queue.add` ignores an existing id, also that of a job in the DLQ: a redelivery after the
  marker expired is answered 202 and nothing happens (`AddJob`). Discard removes a job in
  whatever state it is in by then, unless a run has it locked (`DlqDiscard`).
- A mapping is found by platform, type and external id; the store is not part of the query
  (`Resolvable`), so one external id in two stores resolves to either.
- A change for one platform reaches the link of one store only (`FindLink`).
- `updateProduct` with `isAvailable`, and `updateMapping` with `platformMetadata` only,
  change what a link offers and leave it marked as synced (`Unflagged`).
- A product's mappings outlive it (`DeleteProduct`), and every order that names it fails.
- A save inserts a mapping again that was deleted since it was read (`SavedRow`).
- The DTO's defaults make each PATCH of a category set its visibility (`CategoryUpdates`).
- A stale save of `updateMapping` restores `isSynced`: a PATCH of `platformMetadata` only, that
  read the mapping before a link or an availability change flagged it, and whose `save` reads it
  again after, writes the flag back (`SavedRow`). `FlagClearedByStoresOnly` says that no other
  save does this; it does not say that this one does not.
- A global availability change that fails between its two statements leaves the links
  unflagged (`RequestCut`, `FlagLinks`).
- Foodpanda: a numeric quantity between 0 and 1 is stored as 0 (`toQuantity` checks and then
  truncates), and half cents are rounded; a text below one becomes 1.
- An instance whose Redis client fails once before it is ready never listens, and does not
  exit (`ClientError`).

## Proofs

For every value of the constants that satisfies the named assumptions:

| Theorem | Says |
|---|---|
| `WorkerTypeCorrect`, `FrontTypeCorrect`, `PipelineTypeCorrect`, `LifecycleTypeCorrect`, `CatalogTypeCorrect`, `MenuTypeCorrect`, `AdmissionTypeCorrect`, `RoomsTypeCorrect` | the type invariants; the catalog's has the foreign keys and the unique key, the menu's that a stored item never turns into another product's |
| `OneCreatorAtATime` | at most one run is between insert and broadcast, and the traces are those of its position |
| `NeverShownTwice`, `PipelineNeverShowsTwice` | `shown[o] <= 1` for every order |
| `ShownIsAlwaysRecorded` | a broadcast order has one row and one event |
| `StoredIsAlwaysAnnounced` | a stored order was announced, is about to be, or its run was interrupted |
| `AcceptedIsEnqueued` (*) | 202 is answered only for an order that got a job |
| `MarkerIsAlwaysBacked` (*) | a marker stands for a job, a delivery that answers for it, or a crash or a lost command |
| `PipelineImplementsIntake` | the pipeline refines `OrderIntake`, step by step |
| `CompletedIsAlwaysStored` | a completed job has its order's row, whichever run completed it |
| `EnqueuedIsNeverLost` | an order that got a job is stored, open, or given up on record |
| `AcceptedIsNeverLost` (*) | an order answered 202 is stored, open, or given up on record |
| `ScreenIsAlwaysLogged` | a status that displays were told is in the audit trail |
| `AuditIsAlwaysComplete` | racing requests leave one event each, and the trail explains the row, unless a handler was cut |
| `SequentialHandlersAgree` | row, trail and displays agree when requests did not overlap and none was cut |
| `FlagIsClearedByStoresOnly` | the flag that a link needs a push is taken away only by a save of `updateMapping` that carries `isSynced` over a row it read back as flagged (which a stale PATCH of something else may do), and by no save of the catalog API |
| `SyncedIsAlwaysCurrent` | requests one by one leave no link marked as synced that offers something else than was told |
| `OrdersAreStoredAsSent` | a stored order has its payload's lines, and their amounts where Foodpanda's are whole and positive |
| `StoredItemsWereLinked` | and refers to what was linked to the ids in them |
| `StoredOrdersAddUp` (**) | the subtotal of a stored Foodpanda or chat order is the sum of its items |
| `TokensAreHonoured` | GrabFood's tokens pass exactly as long as announced |
| `GuardAndRegistryAgree` | what is taken in for a platform whose secret is set was verified as that platform's |
| `AcceptedOrdersHaveJobs` | only ids that differ in ':' and '_' can share a job |
| `OrdersAreAcceptedOnce` | the dedupe key neither confuses nor splits orders |
| `DisplaysGetWhatTheyAskedFor` | a display is sent stored orders of stores it asked for |
| `SubscribeThenListMissesNothing` | who subscribes and then lists, on an instance that Redis has subscribed by then, misses nothing, unless something was lost |

(*) Under `OwnJobIds`: no two orders in play have one job id. Two ids of one platform that
differ in ':' and '_' only do share one, and then the second order is answered 202 and has
no job; `AcceptedOrdersHaveJobs` proves that nothing else does.
(**) Under `PayloadsAddUp`: a chat order that reaches the worker from elsewhere than the
parser adds up when it is sent. The worker stores the subtotal it is given, so nothing else
could be proved; the orders of the parser need no hypothesis.

The argument. `NoDoubleDisplay` is not inductive: nothing in it says that the run about
to broadcast is alone. `WorkerInv` adds `DisplayInv`: for each order at most one run
is between insert and broadcast (`OneCreator`), the counts of rows, events and
broadcasts match that run's position (`TracesMatch`), and a job in the queue carries
an order (`JobsCarryOrders`). The unique constraint is what makes it inductive: only
the insert that finds no row starts a creator. Locks, attempts and stalls play no
part, so the guarantee does not rest on BullMQ's locks. Queue operations keep
`QueueInv`, for whichever component calls them; the two compositions cite those lemmas. The refinement has one lemma per visible step (`RowIsStore`,
`EventIsLog`, `BroadcastIsAnnounce`); all other steps leave the phases alone. TLC checks
`DisplayInv` as an invariant of the run `worker`.

`StoredIsAlwaysAnnounced` follows the creator: the insert makes the run a creator, each of
its steps goes on or is an interruption that the history records, and no step of another
run touches the order's row. `NothingNewToAnnounce` sums up the steps that do neither.

`CompletedIsAlwaysStored` does need the locks. `CompletedIsStored` is strengthened to
`StoreInv`: a run that is about to complete its job has its order's row
(`DoneIsStored`), and a run that holds the lock of its job works on the order that job
carries (`LockedRunsMatch`): a slot that lost its lock may have a different order than
the job by then, and must not complete it. What the producer, the backoffs, the
stalled-job check, expiry and the DLQ endpoints may do to a job is summed up once, in
`Handled`; both invariants are shown to survive `Handled` and then each worker step.
`EnqueuedIsNotLost` follows: an open job stays open, is dropped together with an entry
in `disposed`, or is completed, which by `CompletedIsStored` means the row is there.

`FrontDoorProofs`. The invariant speaks of job ids, since that is what the queue compares:
`Served` says that some order with this job id was enqueued. `FrontInv` says that the jobs
there are were enqueued (`JobsWereEnqueued`), that who answers 202 was served
(`AcceptedIsServed`), that a delivery which claimed the marker and is not through owns it
(`ClaimsAreOwned`), and that a marker has an owner, a served order or a mishap behind it
(`MarkerIsServed`). It holds for colliding ids too; `OwnJobIds` enters only where "some
order with this id" becomes "this order". Any consumer keeps it that adds no job, which
`IngestionPipelineProofs` shows of the worker, and `AcceptedIsNeverLost` combines it with
`EnqueuedIsNeverLost`.

`LifecycleProofs`. Four invariants, each over the ones before. `RowInv`: once inserted the
row stays, since `RetentionIsIdle` (no stored status is among the literals of the SQL; the
assumption `StatusesAssumption` says so), so that no event is ever purged and requests hold
copies of a row that exists. `ScreenInv`: who is about to broadcast has logged. `CompleteInv`
counts: the events are the requests and the creation, less those whose event is still to
come (`TrailIsCounted`), and each status that the row had or a request holds is in the trail
or is about to be put there (`TrailExplains`). `SequenceInv` says how far the one handler
under way is; overlaps and cuts are remembered, so a step that begins one needs no more.

`CatalogProofs`. The action property speaks of one step, but needs to know what a handler
holds in memory: `SaveInv` says that a save of a mapping that is under way has `isSynced`
false unless it comes from `updateMapping`, that `updateMapping` has it as its PATCH says, if it
does, and that ids are given once, so that an insert meets no row. A save writes only columns
that differ from the row read back; so it raises `isSynced` only if the entity has it and the
row read back had not, which leaves `updateMapping`, and of its PATCHes those that set it or
those that read the mapping before it was flagged and saved it after (`CarriesSynced`). `TypeInv` adds what tables the rows in a handler's hands
belong to; that the foreign keys hold is the database's check on each write and the
cascade of each deletion. `SyncInv` says that while requests run one by one there is one
handler, whose entity is the row as it is but for its change, and that a link marked as
synced offers what was told or is about to be settled by that handler. This proof found a
fault of the model: a mapping could be created for a product whose id was not given yet,
and be out of date when the product came; ids are generated, so that is excluded now (see
`fresh` above), and the run has ids to come in every table, which it had not.

`MenuProofs`. `MenuInv` says of each stage of an attempt what the stages before it
established: the items so far keep the amounts of their lines (`ItemsKeepAmounts`), the
lookups were of links there have been (`LookupsWereLinked`), and the row is the attempt's,
but for products that were deleted (`RowIsOfAttempt`). `linked` only grows, so nothing the
catalog does between two lookups takes it back; an attempt that fails starts over.
`MenuTypeCorrect` has the row's items be the attempt's, or emptied by the foreign key's
ON DELETE SET NULL. `StoredOrdersAddUp` has
`SumsInv`, from the draft to the row: the subtotal and the items that a stage hands on
belong together. Sums are folds, which are a choice of a function by its recursive equation;
two sums with equal terms are the choice by one equation (`ItemsSumIsTotal`,
`LineTotalsSumIsTotal`), so that equality of sums needs no induction. What a sum is, as
opposed to which sums are equal, would.

`AdmissionProofs`. `AdmissionTypeOK` (claims are what was announced) and `AnswerInv` (the last
answer was the guard's, the registry's or the marker's) give the first two theorems.
`TakenInv` ties markers, jobs and accepted orders together. The work is in two lemmas about
sequences: the dedupe key is injective, since no platform's name is a prefix of another's
and none contains ':'; and keys with one sanitized form are equally long and differ in
nothing but ':' and '_'. `WebhookFrontDoor` takes the job id as the function `JobIdOf`; the
lemma says how far that function is injective.

`RoomsProofs`. `AskedInv` adds to `OnlyAskedStores` that rooms were asked for. `NoGap` is
far from inductive; `GapInv` says that for a display without a loss every announced order
of its store is sent, listed, on its way to the display's instance (`Travelling`), or still
ahead in the list (`Ahead`). Orders that come in push an order further on, never back
(`PositionGrows`), the page boundaries leave nothing between them, and the count ends the
walk only when no row is left. That the display's instance is subscribed when it
begins to list (`heard`), and stays so while it is connected (`Unbroken` is `whole` and `heard`), is what puts every
later broadcast of another instance on its way; without it the theorem is false, as
`unreached_instance` shows. Assumed: receivedAt is distinct, orders are
not archived meanwhile, displays list without a status filter, and each channel delivers
what it does not lose.

Assumptions of all theorems are the named `ASSUME`s of the modules, which TLC evaluates.

Only model-checked: `JobSettles` and the refutations that need fairness, since liveness is
out of this prover's reach. Every safety property of a passing run has a theorem.

## Not modelled

- The limit of the queue's depth is a threshold: the count is read and the job added in
  two calls, so concurrent deliveries overshoot it. The steps are modelled, no property
  states the limit.
- Status updates on their way to displays of other instances: `OrderLifecycle` has them on
  one screen, `KitchenRooms` only new orders.
- Lists with ties in `receivedAt`, or with a status filter: rows may be skipped there, and
  the code promises nothing.
- Names, notes, modifiers, texts of prompts and errors; the status maps of the outbound
  adapters, which feed a log line.
- Loss of data that Redis had acknowledged; the seed, OpenAPI, health and metrics, the
  exception filter: no operation depends on them.

## Plan

1. Done: ingestion (`JobQueue`, `OrderWorker`, `WebhookFrontDoor`, `IngestionPipeline`,
   `OrderIntake`), `OrderLifecycle`, and their theorems.
2. Done: `CatalogMappings`, `ChatParser`, `OrderTranslation`, `WebhookAdmission`,
   `KitchenRooms`, and their theorems.
3. Done: theorems for every safety property of the runs.
4. Open: status updates in `KitchenRooms`, the depth limit of the queue, lists with a
   status filter, and theorems for what they add.
