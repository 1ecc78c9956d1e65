# Benzene in TLA+

Benzene (`src/src/Benzene.*`) is a TypeScript library for message-driven
services: a middleware pipeline handles one message, and *workers* feed it from
queues, streams and timers, settling each message by the pipeline's outcome.
This directory models the parts of it that are concurrent or must survive
failures, checks them with TLC, and proves every safety property it checks
with TLAPS.

Node runs one continuation at a time, so throughout **an action is the code
between two awaits**; everything that may run at an await may run between any
two actions: other calls, callbacks, handlers' continuations, abort signals,
timers, the process ending.

## 1. The system

| Component | State | Operations | What is hard | What makes it correct |
|---|---|---|---|---|
| **BoundedConcurrentDispatcher, BoundedChannel** (`Benzene.SelfHost`) | per lane a one-slot channel, its read and write waiters, a consumer loop and a count | `enqueueAsync`, `drainAsync`, `drainLanesAsync`; `write`, `readAll`, `complete`, abort | wake-ups racing fresh calls, aborts and completion; the count raised before an await and lowered elsewhere | no lost wake-up or item, one handler per lane, order per key, exact counts, drains that end and mean what they say |
| **RabbitMqWorker** (`Benzene.RabbitMq`) | connection, channel, consumer tag, dispatcher; the broker's queue | `startAsync`, `stopAsync`, `onReceivedAsync`, ack and nack | stop overtaking start, a failed start cleaning up beside the host's stop, redelivery, drain timeout, crash | nothing acknowledged unhandled, poison messages bounded, nothing left open |
| **Idempotency** (`Benzene.Idempotency`) | claims and completions by key, with expiry | claim, complete, release around a handler | overlapping deliveries of a key, expiry under a running handler, restart | one handler per key, one success per key, no orphaned claim |
| **Saga** (`Benzene.Saga`) | per step: state, result, exception; per run: stage, attempt | concurrent steps of a stage, reverse compensation, retry, state store | failure beside running siblings, failing compensations, retry, failing store, overlapping runs | all or nothing, honest reports, no double effect, LIFO |
| **Cosmos DB change feed** (`Benzene.Azure.CosmosDb`) | the iterator, the local and the durable token | poll, deliver, persist, rewind, stop | token in memory ahead of the durable one, cancelled and poison batches, crash in a write | nothing passed that was not handled or skipped, bounded repetition, progress |
| **BenzeneHost, CompositeBenzeneWorker** (`Benzene.SelfHost`) | the workers, the stop signal | start all, stop all | a start that fails or has not settled when the signal comes | every worker stopped |
| **Service Bus worker** (`Benzene.Azure.ServiceBus`) | session slots, the receivers they hold, an abort signal | accept, serve, settle, let go, stop | the idle timer under a running handler, stop beside a slot that is accepting, a rejected settlement followed by another | nothing completed unhandled, a session served by one slot and in order, a stop that leaves no lock |
| **Kafka and Event Hubs workers** (`Benzene.Kafka.Core`, `Benzene.Azure.EventHub`) | uncheckpointed counts, a stop under way; the client's positions | handle a batch or a record, store the position, initiate stop | a failed event passed by a later store, rebalances that rewind, stores that fail | nothing passed that was not handled or skipped by configuration, bounded repetition, progress |
| **SQS consumer, BoundedFanOut** (`Benzene.Aws.Sqs`, `Benzene.Core.Middleware`) | the poll loop, a semaphore per batch | receive, fan out, delete, back off | a permit not given back, deletions that fail in part, a throw that leaves siblings running | only what was handled is deleted, no permit lost, batches that end |
| **Rate limiters, retry** (`Benzene.RateLimiting`, `Benzene.Resilience`) | windows, tokens, permits, attempts | acquire, roll or replenish, dispose, delay | boundaries of windows, idle times, leases over retries | never more than the limit over any span of time |
| **RabbitMqConnectionProvider** (`Benzene.RabbitMq`) | a cached connection, a mutex | get, close event, dispose | stale close event, dispose outside the mutex | one live connection, closed at the end |
| **Mesh collector, announcer, trace exporter** (`Benzene.Mesh.Collector`, `Benzene.CloudService`, `Benzene.Mesh.Wire`) | documents and declared edges, a ring of traces with a span index, issues; a bounded buffer and a timer per instance | register, add events, export, drain, dispose | three ways to start a drain, a ring that wraps, lost calls, a collector that restarts | events sent once and in order, an index equal to the window, a graph equal to the documents |
| Mesh aggregator, caching, health checks, pipeline, message handlers | little or none across messages | - | mostly transformation of data | - |
| Function hosts, clients, serialisation, schemas, validation, code generation, auth, diagnostics | none of their own | one event in, one result out | - | - |

Interactions: `BenzeneHost.runWorkerAsync` starts a (composite) worker and stops
it on a signal, without waiting for the start to settle. A worker receives from
its broker's client by callback or by polling, runs the pipeline (which may hold
the idempotency middleware and, in a handler, a saga) and settles by the outcome.
`RabbitMqWorker` hands its deliveries to a `BoundedConcurrentDispatcher`,
`SqsConsumer` its batches to `BoundedFanOut`, with the rate limiter and the
retries inside the pipeline of each message. Service Bus, Event Hubs, Kafka and
SQS read an outcome by one shared rule (`Settlement.ts`). A service's announcer
and exporter call the mesh collector. The saga's state store, the checkpoint
stores, brokers, feeds and clients are external: they are modelled from how the
code uses them.

`PROJECT.json` lists every component with its sources and status, and the
hazards of the code at their lines with the properties that would catch them.

## 2. Modules

| Module | Models | Notes |
|---|---|---|
| `BoundedDispatcher` | dispatcher and channel | 14 actions; `writers[l]` is the queue of suspended `write` calls, the first `woken[l]` of which have been woken but have not run |
| `LaneContract` | what the dispatcher promises its callers | abstract; no channels, wake-ups or counts |
| `RabbitMqWorker` | the worker, its host's calls and the broker | its dispatcher is an instance of `LaneContract`; `config` is chosen in the initial state |
| `Settlement` | `isSettledAsFailure` and the unmatched topic | the outcomes of a pipeline, shared by the next three |
| `ServiceBusWorker` | the receiver of a queue, or a pump of session slots, and the broker | a delivery is a message with its delivery count, so a late settlement finds its own lock or none |
| `StreamWorkers` | the Event Hubs and the Kafka worker, and their client | one module: they differ in batches, in who stores the position and when |
| `RateLimiters` | the three limiters over a clock | state and operations only; `SqsConsumer` extends it |
| `SqsConsumer` | the loop, `BoundedFanOut`, the rate limiting and retry middlewares, and the queue | a task is a message in a batch |
| `Idempotency` | middleware and in-memory store | an expired entry is a missing one, as `tryClaimAsync` treats it; its `Idempotency...` names let `Effects_proofs` extend it beside `Saga` |
| `Saga` | saga, stage, step, retry policy, state store | an effect is named by its step and the run and attempt that made it |
| `CosmosChangeFeed` | processor and both workers | a document is its place in the feed; `config` is chosen in the initial state |
| `Mesh` | announcers, exporters and the collector's store | an event is its span; events are numbered in the order they began |
| `MC...` | instances for TLC | |
| `..._proofs` | theorems for TLAPS | for `BoundedDispatcher` (its invariants, and that it implements `LaneContract`), `RabbitMqWorker`, `ServiceBusWorker`, `StreamWorkers`, `SqsConsumer`, `CosmosChangeFeed`, `Mesh`; `Effects_proofs` for `Saga` and `Idempotency`, both of which it extends |

Composition: `RabbitMqWorker` over `LaneContract`, and `BoundedDispatcher`
implements `LaneContract` (`ImplementsContract`, a refinement mapping from the
dispatcher's state to the status of each item). So the worker is checked against
the promise, the dispatcher against the code, and the two together stand for the
composed system at the cost of each alone. `SqsConsumer` contains its limiter,
its retries and its semaphore outright, since what one keeps (a lease, a
permit) the others must give back.

Operators prefixed `Mut` are mutated forms of a definition, each the way a
plausible bug would change the code; no specification uses them. Every property
of every passing run is violated by at least one (`PROJECT.json`, `mutants`).

### Where state and actions come from

*BoundedDispatcher.* `Enqueue` is `enqueueAsync` up to the first suspension of
`write`; `WriterResume` and `ReaderResume` run a woken continuation, which tests
its condition again; `HandleStart`, `HandlerReturns`, `HandlerThrows` are
`consumeLaneAsync`; `LaneExit` is the end of `consumeLoopAsync`; `AbortWaiting`
an abort a waiter hears and `AbortUnheard` one it does not. `drainLanesAsync`
polls: its last poll is `DrainLanesEnd`.

*RabbitMqWorker.* `startPc` and `stopPc` say which await each call is at. There
are two callers of `stopAsync`: the host, and `startAsync`'s own catch; each
continues with the fields as it finds them after an await. `Push`,
`ConsumerCancelled`, `ConsumerRegistered` and `ReturnUnacked` are the broker.
`OnReceived` calls the dispatcher without awaiting it, so a refused call is an
unhandled rejection: `RejectionEndsProcess` may follow, as it does by Node's
default, or not, as under a host that handles such rejections. `HostReturns` is
the end of `runWorkerAsync`. The history variables `succeeded`, `failed`,
`killed`, `disturbed` and `overtook` record what happened to messages, handlers
and the start; no action reads them but to record.

*ServiceBusWorker.* `pc[s]` is what a session slot awaits: `acceptNextSession`,
the delay after a rejected one, the end of its session, the close of its
receiver. A queue without sessions is one slot that receives from the start.
`call[d]` is what a delivery awaits: its handler, the settlement chosen by
`settleAsync`, or the second one (`rescue...`) that `handleMessageAsync` makes
when the first rejects. `SessionEnds` is `finish` of `runSession`, called by the
idle timer, which is not stopped while a handler runs, or by `processError`.
A `close()` may reject (`CloseFails`): the slot goes on, since `closeQuietly` only
logs it, and the lock of what its receiver had is `Orphaned` until it expires
(`OrphanExpires`); without sessions `stopAsync` ends there.
Whether `close()` waits for handlers is the client's affair, so it is part of
`config`.

*StreamWorkers.* `Deliver` is the client's call of `onProcessEventsAsync` or
`onEachMessage`, `HandlerEnds` the rest of one turn of its loop up to the next
await: acknowledge, skip, or `initiateStop`. `seen` is `uncheckpointedCounts`,
which survives a rebalance. `AutoCommits` is kafkajs, which commits what its
callbacks returned from.

*SqsConsumer.* `pc` is what `startAsync` awaits. `Released` hands a permit to the
first waiter, as `AsyncSemaphore.release` does. `BatchThrows` is the rejection of
`Promise.all` at the first throw: the other tasks go on and may overlap the next
batch. `Start` runs the pipeline to its handler, taking a lease; `HandlerEnds`
gives it back, unless the retry middleware, which is inside it, calls the handler
again.

*RateLimiters.* No limiter has a timer, so `Replenished` computes from the clock
what `attemptAcquire` finds. `granted` is history: the permits granted up to
each time.

*Idempotency.* `ClaimWon` and `HandleDuplicate` are the two continuations of
`tryClaimAsync`; `HandlerSucceeds` and `HandlerFails` complete or release the
key, whoever holds it by then. `Expire` may strike at any time; `Restart`
forgets the store and the attempts in flight.

*Saga.* `Begin` is a call of `runAsync`; runs of one saga share its step
objects, so a run finds the `state`, `result` and `exception` the last one left,
and may begin beside it only under `Overlap`. `pending[r]` are the forward
actions or compensations the current `Promise.all` awaits. A step may fail by returning a failed result or by
throwing. With `StoreFails`, any call of the store may reject.

*CosmosChangeFeed.* `phase` is what the loop awaits: the token, `readNext`, the
delay, the handler, or a token write, whose `writer` says who continues.
`Persist` moves `checkpointed` before the write is answered, as the hook does.
A write reported as failed may have been made. The handler keeps the condition
`CosmosChangeFeedStreamCheckpointer` states: it checkpoints a batch once
everything in it is safe (`vouched`). `origin` is where an iterator starting
from `Now()` last fixed its place: what lies before it was not asked for.

*Mesh.* `RegisterEnds` is one `sendAsync` of the announce loop: the call may be
lost before or after the collector applied it. `Export`, `TimerFires` and
`Dispose` are the three ways into `Drain`, which sends batch after batch, one
`FlushEnds` each, and returns at once if another drain is under way. `Register`
and `AddEvent` are the collector's handlers, which await nothing; `AddEvent`
looks up the parent, moves the ring and its index, and then records drift, in
the code's order.

## 3. Runs

All bounds are constants or guards and are named in the modules' headers.
`CHECK_DEADLOCK FALSE` is set everywhere because each system stops for good once
its calls, messages or runs are used up; that nothing stops too early is what
the liveness properties and `NoLostWakeup` say.

| Run | Bounds | Shows |
|---|---|---|
| `dispatcher_concurrent` | 2 lanes, 4 items, one drain, one quiesce of {1} or {0,1} (935 thousand states) | unsynchronised callers, aborts, swallowed faults: no lost wake-up, soundness of quiescing, and the refinement of `LaneContract` |
| `dispatcher_keyed` | 2 lanes, 4 items, 3 keys of which two share a lane, faults end lanes | order per key; blocked callers and drains settle |
| `rabbit_worker` | 2 messages, 4 deliveries a process, prefetch 2, one restart; stop at any time; the defaults, at-most-once, auto-ack and no requeue (681 thousand states) | settlement, poison messages, repetition, clean stops, across crashes and restarts; `stopAsync` settles; every message is settled while the worker runs |
| `rabbit_stop` | 3 messages, 3 deliveries, prefetch 3, the defaults | **violated**: `StopSparesHandlers` (section 4) |
| `service_bus` | 2 messages of one or of two sessions, 2 slots or 1, delivery limit 2, one lost lock, rejected call or rejected close; 7 configurations (156 thousand states) | settlement, one slot and one order per session, stops that leave no lock, progress |
| `streams` | 3 events in one partition and 1 in another, batches of up to 2, intervals 1 to 3, one restart, one rejected store, one rebalance; 10 configurations (454 thousand states) | what a stored position may pass, repetition, progress past failures |
| `sqs` | 2 messages of cost 1 and 2, 2 batches, one fault; limit 2, period 2 over 4 instants, 1 token a period; 5 configurations, with a lease held over a retry (520 thousand states) | deletion, permits, rates over every span, batches that end |
| `idempotency` | 5 attempts: 3 of one key, 1 of another, 1 without; Skip and Throw | exclusion, single success, no orphaned claims, honest duplicates |
| `saga` | two runs, one after the other, of 3 stages (the middle one of two steps), a step without compensation, 2 attempts, any store call may reject (684 thousand states) | all-or-nothing, reports, retries, order, termination |
| `cosmos_feed` | 3 documents, pages of up to 2, one restart, all 12 configurations (236 thousand states) | what tokens and iterator may pass, repetition, stop and progress |
| `mesh` | 2 services, one in 2 releases, 4 events, a buffer and a ring of 2, one issue kept, one lost call or restart (249 thousand states) | events sent once and in order, window and index, declared graph, everything announced and sent in the end |
| `cosmos_from_now` | 2 documents, the default configuration | **violated**: `DeliveredNotPassed` (section 4) |

Why the bounds are enough. *Dispatcher:* a lane of capacity one needs a running
item, a queued one and two suspended writers for every race of wake-up, abort
and completion; four items give that on one lane, two lanes give routing and a
quiesce of some lanes only. *RabbitMQ:* with prefetch 2 and one lane, two
messages are one running and one in the lane, each of the four deliveries but
the first two a redelivery: a message is handled, requeued and handled again while
the other waits. One restart shows what comes back flagged. With two, a delivery
is refused when a start fails after its consumer was registered; that the stop of a
started worker refuses one under a running handler needs three: one running, one
accepted by the lane, one waiting for it, which is what `rabbit_stop` has.
*Service Bus:* two messages of one session give order and a session handed from
slot to slot, two sessions for one slot give a session that must be let go for
the other; with a limit of two a message is delivered, redelivered and dead.
*Streams:* three events in batches of two give a batch of each size and a
store in the middle of one, an interval of two gives a count that survives a
rebalance, an interval of three one that a later event does not store at once,
and the second partition is at work while the first one stops.
*SQS:* with a parallelism of one, the second message waits for the permit of
the first; the second batch is where a redelivery and an overlap show: under
WholeBatch a throw leaves the second message running beside the next batch, which
then finds the limiter's permits held, over a retry too. Four
instants are two windows of two, so a span shorter than a window may cross a
boundary, and a bucket may be left idle for a whole period.
*Idempotency:* three attempts of a key are a holder, a duplicate and the one that
claims after an expiry. *Saga:* three stages give a middle one with something to
compensate on one side and nothing created on the other; the second attempt and
the second run find the step objects as the first left them. *Cosmos:* three
documents with pages of two give pages of different sizes, and a checkpoint on
either side of a failing page. *Mesh:* four events wrap a ring of two; three of
them from one instance are a batch of two, or a batch of one in flight with two
waiting behind it; and there is a parent that is in the window, one that has left
it, and none. An event that finds the buffer full takes a fourth of one
instance, which is beyond the time of a run: that branch of `Export` is reached
only by the proof of `SentOnceInOrder`, which is for any sizes.

### Fairness

Weak fairness is put on continuations the event loop has queued and on calls
that the outside answers: a handler returns or throws, a broker, a store, a
client or a feed answers, a timer set by the code fires. Nothing is assumed of
callers, abort signals, stops, crashes, or of timers in `BoundedDispatcher` (its
drain must settle without the timeout). The rabbit queue is assumed to deliver
what it holds; so are the stream client and the SQS queue, which need not
deliver any given message first. Strong fairness is used where a step is enabled
again and again but not continuously: in `CosmosChangeFeed`, reads do not fail
for ever (the loop repeats them after a delay), and a handler's code ends however
often its own checkpoint call is rejected in between; in `ServiceBusWorker`, a
slot that keeps asking for a session gets one although other slots compete for
it, and a waiting message is delivered although the idle timer could come first
each time. An idle timer is only assumed to fire when no handler of the slot
runs. Faults are bounded, so nothing is assumed of them.

## 4. Findings and observations

Two disagreements with a comment have a run.

- `CosmosChangeFeedProcessorFactory.ts:171`: before any token was persisted, a
  failed batch is rewound to `Now()` under the default `startFrom`; the batch that
  was to be redelivered is lost (`cosmos_from_now`).
- `RabbitMqWorker.ts:85`: the promise of `onReceivedAsync` is dropped. A delivery
  waiting for a lane when a stop completes the lanes rejects it, unhandled, and by
  Node's default that ends the process with the handlers in it, although lines 97-98
  say of `stopAsync` that it drains them (`rabbit_stop`). `HandledOnce` assumes
  nothing about it: it counts that exit among the events that cut a handler short,
  and says that there is no other but a crash or a drain timeout, that no delivery is
  refused before a stop drains, and that not even so a success is repeated.

What follows was met while modelling. None is a run; the properties are stated
so that they say what does hold.

*RabbitMQ.*
- `RabbitMqWorker.ts:100`: a `stopAsync` before `startAsync` has settled, which
  `BenzeneHost.ts:157-166` allows, finds nothing to close; the start then opens a
  connection and a consumer that nothing closes. `StoppedClosed` names that as its one
  exception: it is checked and proved with such stops allowed, and says that they leave channel and connection both closed or both
  open, that they never leave the dispatcher, and that after every other stop nothing
  is left, also when the host stops a start that fails, before, beside or after the
  stop of its catch.
- `RabbitMqWorker.ts:202`: the broker's `redelivered` flag is also set on what a
  clean shutdown returns unhandled, so such a message is dropped at its first
  failure.
- `BoundedConcurrentDispatcher.ts:156`: with `catchExceptions` false a lane ended
  by a fault still accepts an item, which is counted for ever; no worker in the
  repository sets it.

*Saga.*
- `Saga.ts:82`: a state store that rejects between stages makes `runAsync` throw
  with all effects in place, neither compensated nor reported.
- `SagaStep.ts:24`: step state lives on the shared step object, so overlapping
  runs of one saga read each other's outcome: a rollback compensates with the
  result of the other run, and leaves its own effect behind. With `Overlap` TRUE
  `AllOrNothing` is violated; the run and the theorems are about runs that follow
  one another.

*Streams.*
- `BenzeneKafkaWorker.ts:145`: without `catchHandlerExceptions` and
  `commitOnlyOnSuccess` the callback of a failed record returns normally, so
  kafkajs may commit past it while the worker disconnects, although the comment
  at lines 141-142 says the record is not committed.
- `BenzeneEventHubWorker.ts:130`: the callback does not ask whether a stop was
  initiated. If the client makes another call of it before the close, a later
  batch checkpoints past the failed event.

  `DurableCovered` therefore asks for stored positions and, on Event Hubs, for a
  client that stops at once (`Exacting`).
- `BenzeneEventHubWorker.ts:145`: the count of a partition outlives a rebalance,
  which sends the position back to the last checkpoint, and a skipped failure
  does not count. So after a rebalance the events acknowledged since the last
  checkpoint may be `checkpointInterval` or more, from an interval of three on;
  the same with a client that calls back after a stop. The proof of
  `ReplayBounded` failed there; the property says which settings are safe from it.

*SQS.*
- `SqsConsumerApplication.ts:69`: a throw under WholeBatch rejects the batch while
  its siblings, and those still waiting for a permit, go on beside the next
  batch; only within a batch is the parallelism bounded.
- `SqsConsumer.ts:88`: an abort cancels the deletion of what was just handled, so
  it is delivered again after a clean stop.
- `SqsConsumer.ts:67`: every successful receive resets `consecutiveFailures`, so a
  deletion that always fails never backs off.

*Mesh.*
- `IMeshTraceExporter.ts:100`: `disposeAsync` returns at once while a drain is in
  flight, before the tail is sent, although the comment at lines 31-32 says
  that it flushes it. The tail is still sent if the process lives on
  (`CatchesUp`).
- `MeshCollectorStore.ts:204`: evicting an old span deletes the index entry by
  span id, also when a later event of the same id is in the window, so the index
  is "in lockstep" (lines 121-122) only while span ids are unique, as in the model.
- `MeshAnnouncer.ts:78`: the contract is registered once; a collector that
  restarts never gets it again until the service restarts. `CatchesUp` says that
  it was registered, not that the collector still has it.

Some properties hold under a condition. `PerKeyFifo` needs callers
that make the calls of one key in turn (`SequentialPerKey`): a fresh `write` may
overtake a writer that has been woken but has not run. `DuplicateOfSuccess` is
about `Throw`; under `Skip` a duplicate of a handler that later fails is
acknowledged, as `InProgressBehavior` documents. `ServedOnceInOrder` needs a
broker that loses no lock and a `close()` that waits for handlers: a receiver
that does not wait frees the session of a handler still running when the idle
timer fires under it (`BenzeneServiceBusWorker.ts:262`).

## 5. Proofs

Every safety property a passing run checks is a theorem, for all values of the
constants that satisfy the modules' named assumptions. Those only type the
constants. A few theorems assume more; each assumption is a choice of the run that
checks the property, is stated in the theorem, and is needed (section 4):
`SequentialPerKey` for `PerKeyFifo` and `~Overlap` for the properties of `Saga`.

The pattern is the same throughout: types first; then an inductive invariant of
named parts, one lemma per action or per operation that actions share; then the
property from it. Where data is built up, by a sum over tasks or a fold over a
batch, there is no induction theorem to cite that the provers could use, and the
argument is by a least counterexample (`Least`, from the well-foundedness of `<`).

**`BoundedDispatcher_proofs`**: any number of lanes and items, keyed or not,
faults swallowed or fatal. `NoLostWakeup`, `LaneSerial` and `CleanDrain` are not
inductive: that a woken writer may take the slot depends on what the queue of
writers contains, and that a consumer sleeps on an empty slot depends on what
the slot and the items in flight say of it. `LaneInv` adds just that, as named
parts: items are routed (`Routed`), suspended writers are blocked calls of their
lane (`SuspendedBlocked`), a slot holds a queued item of its lane (`SlotQueued`),
an item in flight keeps its consumer busy (`InFlightBusy`), consumers end on
completed empty channels (`EndedEmpty`) and a drain reports the truth
(`DrainedGone`). Types are proved first (`TypeInit`, `TypeStep`), then the shape
(`ShapeInit`, `ShapeStep`), each with a lemma about the operations several
actions share (`WriteTypes`, `ReadTypes`, `WriteShape`, `ReadShape`).
`OutstandingExact` is proved on top of it by counting lemmas (`CountAdd`,
`CountRemove`, `CountSame`) over finite cardinalities, and `QuiesceSound`, an
action property, from that.

`PerKeyFifo` is inductive only with the route of each call (`LanesByKey`) and with
`KeyInOrder`: a call of a key that has been made finds every earlier one past its
`write`, and one whose handler has started finds them ended. That a lane's slot
and its consumer keep that order comes from the shape above.

`DispatcherImplementsContract` says that every
behaviour of `BoundedDispatcher` is one of `LaneContract` under the mapping of
stages to statuses (`StatusOf`) and of drains to phases (`PhaseOf`). Each action
is shown to be one action of the contract or to change nothing it speaks of; the
invariant `LaneInv` supplies what the mapping hides, such as that a free slot
leaves room in the lane and that a blocked call always has an occupied one, and
`CompletedByDrain` that channels are completed exactly by a drain. So what
`RabbitMqWorker` assumes of its dispatcher holds for any `maxConcurrency`.

**`RabbitMqWorker_proofs`**: any messages, deliveries, prefetch, lanes,
configurations and restarts, stops that overtake starts and exits on unhandled
rejections included. `SettledAfterHandling` is inductive with the types of three variables, since only
`Push` under `noAck` and the settlement in `HandlerEnds` take a message out of
the queue. How often a message is handled needs more. `Orderly` says that,
until a crash or a drain timeout, the channel leaves "open" only when no accepted
delivery is unfinished; it is proved over all places the start, its own cleanup
and the host's stop may be at together (`OrderStep`). `Ledger` then derives what
the handlers of a message have come to from its place, its redelivered flag and
its one unfinished delivery (`LedgerStep`), and gives `PoisonBounded` and the first
part of `HandledOnce`. Its second part is `KilledStep`: when the host returns, no
accepted delivery is unfinished. Its third is `RefusedInv`: a dispatcher refuses
only when it is not open, and is not open only once a stop is past its cancellation. `StoppedClosed` needs what the
worker holds at every await of `startAsync` and of the two stops that may be under
way beside it (`FieldInv`, `StartInv`), and what each of them has left when it is over
(`EndInv`); the stops are `outrun` when they meet at a `close()`. Where a `close()`
was rejected nothing is claimed (`NoneFailed`).

**`ServiceBusWorker_proofs`**: any messages, sessions, slots, delivery limit and
configurations. `SettledAfterHandling` needs `Vouched`: a completion under way has
a handler behind it, and none is a rescue. `StoppedClosed` needs who holds each
lock: a locked session, a locked message and, where `close()` waits for it, a
running handler belong to a slot that has yet to close its receiver, or to a
receiver whose `close()` was rejected (`Attributed`), a message to the receiver
of its session's lock (`Matched`), and a stop ends when no slot is left that has
one (`AllExited`).
`ServedOnceInOrder` needs, while no lock is lost and receivers wait for their
handlers, that handlers and locks are the same deliveries (`Held`), that a
success is completed or about to be (`Once`), that no lock is orphaned (`Tended`), and that a session's only delivery
is made by the slot that has its lock, with nothing older left (`InTurn`).

**`StreamWorkers_proofs`**: any partitions, events, batches, options, restarts,
rejected stores and rebalances. `DurableCovered` speaks of what is stored, but
what is stored is the position the callback has reached: `PartitionCovered` says
of that position and of a store in flight that they are covered, except, after
the worker was told to stop, where the callback may have returned with its batch
unfinished (`Held`). `ReplayBounded` compares a set of events with a count, which
the code keeps without knowing the set. Without a rebalance each event counts once
(`CountedOnce`); with rebalances, and where no event is passed over that does not
count, the count says how far the position is from the stored one, and what was
acknowledged before a rebalance lies within an interval of it (`CountedAlong`).

**`SqsConsumer_proofs`**: any messages, batches, costs, options and limiters. The
first half of `DeletedHandled` needs what the end of a task says of its handlings
(`DeleteInv`); the second, that a message with a success is in a task of the
present batch, about to be deleted, or gone (`OnceInv`), for which the permits
and limiters play no part. `FanOutBounded` is inductive with little more than
itself (`FanInv`), once the cardinalities are known: of a set, those with fewer
than n before them are n, if any is left (`FirstOnes`), and a permit given back
goes to exactly one waiter (`ReleasedFan`). `RateBounded` needs, for a window,
what each span of time granted before the window began and since (`WindowInv`);
for a bucket, that the grants of a span that ends now leave room for the tokens
the bucket would have if it were replenished now (`BucketInv`); for the
concurrency limiter, that it lacks what the tasks being handled hold
(`LeaseInv`), a sum over a set of tasks, of which `HeldSum` shows that any task
can be taken out of it.

**`Effects_proofs`**, `Saga`: any stages, steps, compensations, attempts and
number of runs. The types hold for overlapping runs too. For runs that follow one
another, `SeqInv` says, by the phase of the one under way, where its effects are:
going forward, the steps of earlier stages are `Kept` and of later ones without
effect (`Forward`); in a rollback, earlier ones are `Kept` and the others `Undone`,
or orphaned by a compensation that failed, in which case the rollback is not
`clean` (`Backward`); a report is the truth (`Honest`). It must say so of the step
objects whatever an earlier attempt or run left on them, which is why each part
names the attempt (`Tag`). `Idempotency`: any attempts, keys and key strategy.
`IdempotencyInv` adds to the safety properties that a running handler has its
claim, that a completed key succeeded and that a success is remembered, each as
long as no record it depends on has lapsed.

**`CosmosChangeFeed_proofs`**: any feed, page size, set of configurations and
number of restarts. `FeedInv` adds to `DurableCovered`, `PassedCovered` and
`HandledOnce` that the same is true of the token in memory, that a page in hand
begins where the covered part ends and has been delivered, that a handler that
has checkpointed has moved `checkpointed` to the end of its page (so that a
success without a further write is recorded), and that nothing handled lies
where the present iterator, or one made anew from a token, would read again.

**`Mesh_proofs`**: any services, instances, events, sizes of buffer, batch, ring
and issue table, and any number of faults. `SentOnceInOrder` is inductive with the
types and with which events were not exported yet (`SendInv`); the work is in
`FlattenSeq` over the batches in flight and in what a drain moves from buffer to
batch (`DrainKeeps`). For the collector, `Window` says where in the ring each of
the latest events lies (`Place`) and that none is there twice, so that evicting
one takes its span and no other out of the index; `Listed` says what an issue
must have been recorded for. Both are shown of one event and then of a batch, the
fold over which is shown to exist and to keep them prefix by prefix.
`GraphDeclared` needs that a service's edges are those of its last document
(`Documents`), which a redeploy replaces as a whole.

Model-checked only: liveness and anything with fairness or ENABLED, which the
prover does not treat: `BlockedWriteSettles`, `DrainSettles`, `StopSettles`,
`MessagesSettle`, `RunsEnd`, `FeedProgresses`, `StopsAndServes`, `StopsAndAttempts`,
`BatchesEnd`, `CatchesUp`. `TypeOK` is proved of every component, that of
`Idempotency` as part of `IdempotencyInv`. No module declares a recursive operator.

## 6. Not modelled

- *Timers* are choices: a timeout may always come, a delay always ends. Only the
  rate limiters have a clock.
- *Formatting, logging, dependency injection, tracing* are left out. A log call
  that throws is not considered.
- *The mesh aggregator, caching, health checks, the pipeline* transform data or
  compose functions in sequence; *function hosts* and *clients* leave retries and
  concurrency to their platform; serialisation, schemas, validation, code
  generation, the mesh UI, authentication and diagnostics are conversions or pure
  checks. They are most of the repository's lines, and have no interleaving,
  failure or order of their own to check.
- *RabbitMqConnectionProvider*: the cached connection of a health probe, which no
  message passes through.
- *BenzeneHost, CompositeBenzeneWorker*: only when the host calls `stopAsync` and
  exits, inside `RabbitMqWorker`; a stop at any moment in the other workers.
- *Mesh*: heartbeats, counters, issues sent over the wire, and the views.
- *Retry*: `shouldRetryContext`, the length of delays, and the cockatiel adapter.
- *A second instance* on one Cosmos lease token, which the factory documents as
  out of its scope, and a token write applied after the process that sent it was
  replaced. Two consumers on one SQS queue or Service Bus subscription are
  independent but for the broker.

## 7. Plan

The order followed the risk: first the dispatcher (the only scheduler in the
library), then the worker built on it, the components that promise an effect
once or not at all, the stream, session and batch workers with the middlewares
that hold something across a handler, and the mesh, whose state outlives its
messages. Next would come:

1. `Host`: a composite start and stop over an abstract worker, which
   `RabbitMqWorker` and `ServiceBusWorker` then instantiate.
2. `CheckpointContract`: what a stream worker promises (nothing passed that was
   neither handled nor skipped), implemented by `CosmosChangeFeed` and
   `StreamWorkers`, whose invariants already state it.
3. `Mesh`: heartbeats and the issues they carry.
4. Proofs: that `CosmosChangeFeed` and `StreamWorkers` implement that contract, and
   that a host leaves no worker running, for any workers that keep theirs.
