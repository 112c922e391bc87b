# Content moderator: verification project

TLA+ models, TLC runs and TLAPS proofs for the Go service in `src/`: user
content is stored, queued, judged by an AI model, its status written back and
the user notified over a WebSocket.

Contents: [1 Inventory](#1-inventory) · [2 Modules](#2-modules) ·
[3 Runs](#3-runs) · [4 Findings](#4-findings) · [5 Fairness](#5-fairness) ·
[6 Proofs](#6-proofs) · [7 Not modelled](#7-not-modelled) · [8 Plan](#8-plan)

How to run, in this directory (`MCWorkerPool` and `WorkerPool.cfg` stand for
any module and cfg of section 3):

    tlasany WorkerPool.tla
    tlc -workers 2 -config WorkerPool.cfg MCWorkerPool
    tlapm WorkerPoolProofs.tla

## 1. Inventory

### The path of a content

    client --HTTP/gRPC--> ContentService.CreateContent
                             | INSERT, status pending          (Postgres)
                             | publish moderation.job          (NATS JetStream)
                             v
    consumer --> callback --> jobCh --> worker: ModerateContent
                                          | SetNX idempotency key, AI call,
                                          | cache result, DEL key (Redis)
                                          v
                                        HandleModerationResult
                                          | UPDATE status      (Postgres)
                                          | publish notification.send (NATS)
                                          v
    NotificationBridge --> Redis pub/sub --> Hub --> send channel --> writePump --> device

A gRPC stream (`ModerationServer.ModerateContent`) calls the first half of the
moderation as well, beside the workers and with no deadline. Beside this path:

    job delivered MaxDeliver times --advisory--> StartDLQMonitor --copy--> MODERATION_DLQ
    CircuitBreakerAIClient --> TritonClient (three attempts) --> Triton
    StreamModerationResults --> ListUserContents page by page, cached result of each
    WithCacheLock --> cache, Redis lock, fetchFn

### Components

| Component (source under `src/internal`) | State | Operations | What is hard | What makes it correct |
|---|---|---|---|---|
| ModerationService (`service/moderation_service.go`) | rows, idempotency key, cached result, stream of notifications; all remote | ModerateContent, HandleModerationResult | concurrent calls for one content, deadline in the middle, lost replies, expiry of the key, crash | the key excludes; verdicts come from the AI, written and announced once; a verdict is final; the user is told what the row holds; keys are freed |
| ContentService (`service/content_service.go`) | rows, job messages | CreateContent, DeleteContent, two queries | save and publish are two steps; deletion under a running moderation | a deleted content stays deleted |
| Worker pool (`worker/pool.go`) | `jobCh`, workers, limiter, context | Start, callback, worker loop, processJob | hand-over against ack, full channel, shutdown by three goroutines in any order | nothing acked is dropped while it runs; attempts within the deliveries; shutdown ends |
| NATS broker (`adapter/outbound/nats/broker.go`) | streams, consumers, pending acks | publish, subscribe with ack/nak, DLQ monitor | redelivery after 100 ms, MaxDeliver, MaxAckPending | at-least-once up to MaxDeliver, then dead-lettered |
| WebSocket hub (`adapter/inbound/websocket`) | registered clients, broadcast and send channels, two goroutines for each connection | register, unregister, broadcast, sendToClient, pumps | slow and dead clients, double unregister, blocking channels in a ring | no double close, no gap, goroutines end, nobody holds up the hub |
| NotificationBridge, Redis pub/sub (`service/notification_bridge.go`, `adapter/outbound/redis/pubsub.go`) | durable consumer in NATS; none in Redis | forward, ack or nak | redelivery, restarts, a consumer that shutdown deletes, loss when no hub listens | acked only after Redis took it; stored notifications are forwarded; stream order but for redeliveries |
| Dead-letter monitor (`StartDLQMonitor`) | an unnamed consumer of advisories | fetch, copy, ack or nak | three remote calls that fail one by one, a publish with a cancelled context, expired jobs, no stream for the advisories | an advisory is acked only after its copy; every exhausted job is copied while a process serves (it is not, see section 4) |
| Redis cache store (`adapter/outbound/redis/cache_store.go`) | keys with a TTL | SetIfNotExists, Invalidate, set and get of results | a key deleted by another than its holder | see ModerationService |
| Redis lock, WithCacheLock (`adapter/outbound/redis/lock.go`) | owner-checked lock with a TTL | TryLock, Unlock, WithCacheLock | TTL against the fetch, lost replies, bounded waiting | one holder whose lock lives, one fetch, calls return |
| Postgres repository (`adapter/outbound/postgres`) | table of contents | Save, FindByID, FindByUserID, UpdateStatus, Delete | id column of type UUID | single statements, atomic |
| Triton client, circuit breaker (`adapter/outbound/triton`) | breaker counts and state | ModerateText (three attempts), ModerateImage | overlapping calls, outcomes of an earlier generation, a half-open breaker without timeout | counts are about the generation's own calls; it changes its state on the evidence its settings ask for; a half-open one settles |
| gRPC content server (`adapter/inbound/grpc`) | a paging offset per stream | CreateContent, StreamModerationResults | paging by offset over changing rows | misses or repeats no more than was changed |
| HTTP API, interceptors, entities, ports, logger, metrics, `main.go` | none of their own, besides the shutdown order | validation, authentication, wiring | main does not wait for the pool | validation before storage |

`PROJECT.json` lists every component with its sources and status, and every
hazard (what can go wrong and a test would hardly reach) at its line, with the
properties that cover it or the reason why none does.

## 2. Modules

| Module | Stands for | Granularity or content |
|---|---|---|
| `ModerationContract` | what the moderation promises, without callers, locks and failures | abstract specification |
| `ModerationService` | ContentService and ModerationService, with Postgres, Redis, NATS and the AI server behind them | one step per remote call |
| `WorkerPool` | the JetStream consumer, the callback, `jobCh`, the workers, Start, shutdown and restart | one step per channel operation or ack |
| `WebSocketHub` | the hub's loop, the handler and both pumps of every connection | one step per channel operation or write |
| `RelayContract` | what a subscriber that passes messages on promises | abstract specification, implemented twice |
| `ServerProcess` | main.go as its subscriptions see it: serving, stopping, down, started again | extended by both relays |
| `PushConsumer` | a JetStream push consumer and the client side of its subscription | instantiated `WITH` the variables of each relay |
| `NotificationDelivery` | the stream of notifications, SubscribeNotifications, the bridge, Redis pub/sub, the hub's subscriber | one step per remote call or delivery |
| `DeadLetterQueue` | advisories, StartDLQMonitor, the dead-letter stream | one step per remote call or delivery |
| `CacheLock` | the Redis lock and WithCacheLock | one step per call to Redis or fetchFn |
| `ResilientClient` | the circuit breaker, TritonClient's attempts and parsing, their callers | one step per call, answer, failure or pause |
| `ResultStream` | StreamModerationResults and the rows it pages over | one step per page, content or change of a row |
| `Queues` | what properties say of a sequence used as a queue | operators only |
| `ServerRelays` | both relays in the one process of main.go: its start, signal and end are steps of both | composition of the two |
| `QueueLemmas` | facts about `Queues`, `Range`, `Append`, `Tail`, and about the size of sets | lemmas |
| `ModerationServiceProofs`, `WorkerPoolProofs`, `WebSocketHubProofs`, `NotificationDeliveryProofs`, `ResilientClientProofs` | theorems of the models they are named after | section 6 |
| `CachedResultsProofs` | theorems of `CacheLock` and `ResultStream` | section 6 |
| `RelaysProofs` | theorems of `DeadLetterQueue` and `ServerRelays` | section 6 |
| `MCModerationService`, `MCWorkerPool`, `MCWebSocketHub` | the small instances of the runs | model values in the cfg |
| `MCRelays`, `MCAdapters` | `ServerRelays`, and `CacheLock` with `ResultStream` and `ResilientClient`: a behaviour runs one of the components (`running`) | see section 3 |

A module also holds variants of some actions (`BeginUnchecked`,
`EnqueueAckFirst`, `SendOrDrop`, ...), right before the action they vary. No
specification uses them: each is the action with a plausible bug in it, and
substituting it for the action makes a property fail.

### ModerationService

A caller is a pool worker (both halves, with a deadline) or a gRPC stream (the
first half, no deadline). `pc` names the remote call it makes next:

| `pc` | Step | Code |
|---|---|---|
| idle | `Begin` | FindByID finds the content pending (moderation_service.go:41-47) |
| acquire | `Acquire` | SetIfNotExists, TTL 30 s (:50-56) |
| infer | `Infer`, `InferFail` | AI call (:64-79) |
| cache | `CacheResult` | SetModerationResult (:89) and, in the same step, PublishModerationResult (:93) to a stream nobody reads; errors only logged |
| release | `Release` | the deferred Invalidate (:58-62) |
| update | `UpdateStatus` | UPDATE by id only (:122) |
| reread | `Reread` | FindByID for the user (:126) |
| notify | `PublishNotification` | (:141), error only logged |

`live[p]` says that p's context is not done. A call of a caller whose context is
done fails; with `Faults`, any call may fail, and a write may take effect with
its reply lost. `CtxDone`, `LockExpire`, `CacheExpire` and `Crash` are the
environment. The key's value is a constant in the code; the model records the
holder in it for the properties alone: no guard looks at who it is, except that
`LockExpire` uses it for time. The key's TTL (30 s) starts after the worker's
JobTimeout (30 s, `DefaultConfig`), so a key does not expire under a worker whose
context is live; under a stream it may, and the history variable `overrun`
remembers it. `answers`, `written` and `overrun` are histories; no guard reads
them. Contents stay model values: the text of a content and the score of an
answer are reduced to approved or not.

The refinement of `ModerationContract` is the identity on rows, answers, written
and notifications: `Save` is `Submit`, `Infer` is `Judge`, `UpdateStatus` is
`Write`, `PublishNotification` is `Announce`, everything else is a stutter.

### WorkerPool

`msg` and `tries` are the consumer's view of a message: stored, outstanding
(delivered, not acked), due (to be delivered again), acked or exhausted
(MaxDeliver reached). The subscription delivers into `inbox`; one callback at a
time (`cur`, `handler`) selects between the send on `jobCh` and the cancelled
context, and acks or naks. `start` is where `Pool.Start` stands. `Cancel` is
SIGTERM; closing the subscription (another goroutine, broker.go:284-286), closing
`jobCh` (pool.go:87) and the end of main (main.go does not wait for the pool)
follow in any order. A process that ends loses everything but `msg` and
`tries`; `Restart` begins a new one. A `select` with both cases ready may take
either; a send on the closed channel is `SendOnClosed`, which ends the process.

### WebSocketHub

`register` and `unregister` are unbuffered, so `Register` and `Unregister` move
the connection and the hub together. A connection unregisters twice: from
readPump's deferred function and again from the handler. `feed` is the history of
all messages put in `broadcast`; the loop has taken the first `taken` of them,
so the channel holds the others. `sending` is what is left of the snapshot that
`sendToClient` goes through, one client per step, while writers drain their
channels. A message is its index in `feed`. `since` remembers when a client was
registered; with it, `Due(c)` is what the client should have got so far. The
keep-alive traffic that changes nothing (pings that are written, messages from
the peer, which are discarded) is left out.

### NotificationDelivery and DeadLetterQueue

Both are a push subscription whose callback passes a message on and then acks or
naks it, in a process that is signalled, crashes and starts again. What they share
is in `PushConsumer` (`msg`: a message is absent, stored, outstanding, due or acked;
`inbox`, `cur`, `handler`: the client's side) and in `ServerProcess` (`proc`).
Both implement `RelayContract`, each by its own refinement mapping:

| RelayContract | NotificationDelivery | DeadLetterQueue |
|---|---|---|
| posted | notifications in the stream | jobs that were announced |
| forwarded | those Redis took | those with a copy in MODERATION_DLQ |
| settled | acked | acked |
| Forward | `Publish` | `Copy` |
| Settle | `Reply` | `Settle` |
| Replay | the consumer is deleted (`Unsubscribe`) | the consumer is deleted (`StopMonitor`, `ServerEnds`) |

They differ where the code does. The bridge's consumer is durable: it outlives a
crash, is bound until the server notices that the connection is gone (`Unbind`),
and is deleted by nats.go when the client that created it unsubscribes
(broker.go:355), so that a graceful shutdown makes the next process begin with the
first stored notification. The monitor's consumer has no name and goes with its
process, so each process reads all kept advisories. `AdvisoryStream` says whether
some stream has the advisories' subject. ensureStreams creates none, and no other
file of the repository does; then `StartMonitor` is never taken, as js.Subscribe fails
and main.go:123 only logs it. A job is given up (`Exhaust`) either way, but its
advisory is kept only by a stream. FALSE is the program as it stands: the run
dead_letters shows that the dead-letter queue stays empty, `NoStreamNoCopy` proves
it. The run relays takes TRUE, what an operator could create by hand, to check the
callback; nothing it shows is about the repository's own deployment.

Redis keeps nothing for a hub that is not subscribed, so `Taken` appends to `feed`
only while `hub` holds; `HubDisconnect` loses what was on its way. `got` is what
`handleRedisMessage` was handed, which is the `feed` of `WebSocketHub`.
A message whose payload does not parse is refused for ever; both publishers encode
their own structs, so none is modelled.

### CacheLock

`pc` is the call a caller of WithCacheLock makes next: `try` (TryLock), `recheck`
(the cache once more), `fetch`, `set`, `unlock`, `wait` (back-off and the look into
the cache after it). `lock[k]` holds whose random value the key has; `Orphan` is
the value of a call that is over. Unlock is a script that compares and deletes in
one step. `late` remembers that a caller's lock expired under it, and `excused`
that a key may be fetched again: the value left the cache, the holder died, failed
or was late, or the lookup failed (the code takes every error for a miss,
lock.go:79-83). No guard reads either.

### ResilientClient

`breaker` is gobreaker's state with the counts of its generation, `due` says that
its interval or timeout has passed, which gobreaker notices at the next call.
`current[p]` says that p's call was admitted in this generation: gobreaker
ignores the outcome of others. ReadyToTrip is the code's ratio in integers
(3/5 for 0.6). The comment above it ("Trip after 5 failures in the last 60
seconds", circuit_breaker.go:23) is not the rule: three failures of five calls trip
it and five of ten do not. Nor do three failures that two successes follow: the rule
is looked at on failures only, so the breaker stays closed although its counts meet it.
`BreakerMoves` states what moves the breaker, exactly, with the evidence of the call
that does it; the rule of the comment is its mutant. A panic of the parser
(raw outputs leave no contents to index) is recovered by the gRPC interceptor for a
stream and ends the process for a worker.

### ResultStream

A content is the number of its created_at stamp. Pages are sets of at most
`PageSize` contents, newest first, that begin at `offset`; between two pages
contents are saved and deleted. `visits`, `before`, `inserted` and `removed` are
histories of the running stream.

## 3. Runs

Every passing run explores its whole bounded state space. Runs in `violation` mode
stop at the first counterexample.

| Run (cfg) | Instance | Shows |
|---|---|---|
| service_safety (`ModerationServiceSafety`) | 2 workers, 1 stream, 1 content, 3 calls, faults; symmetry; 789,183 states | `TypeOK`, `LockExclusion`, `ContractSpec` (refinement) |
| service_one_worker (`ModerationServiceOneWorker`) | 1 worker, 1 stream, 1 content, 3 calls, faults; 106,531 states | `ToldTheVerdict`, `DecidedOnce`, `WorkerReturns`, `LockFreed` |
| pool (`WorkerPool`) | 2 workers, 2 jobs, channel of 1, MaxDeliver 2, MaxAckPending 1, 2 process runs, faults; 281,679 states | `TypeOK`, `NothingDropped`, `DeliveryBudget`, `WorkersStay`, `ShutdownCompletes`, `JobAttempted` |
| hub (`WebSocketHub`) | 2 connections, 2 users, channels of 1, 2 messages; 174,854 states | `TypeOK`, `ClosedOnce`, `NoGap`, `ConnectionEnds`, `HubServes` |
| relays (`Relays`) | 2 notifications, 2 exhausted jobs, 2 process runs, 2 faults each, a stream for the advisories; 178,780 states | `RelaysTypeOK`, `InOrder`, `NotificationRelay` and `DeadLetterRelay` (refinements), `Forwarded` |
| adapters (`Adapters`) | lock: 2 callers, 2 keys, 1 retry; paging: 4 contents, pages of 2; breaker: 2 workers, 1 stream, 1 retry, trip rule 3/5 of at least 3, 2 half-open calls, at most 6 calls per interval; 239,395 states | `LockTypeOK`, `OneHolder`, `FetchedOnce`, `CallReturns`; `StreamTypeOK`, `DriftBounded`; `ClientTypeOK`, `CountsAddUp`, `BreakerMoves`, `HalfOpenCanSettle`, `HalfOpenSettles` |
| service_two_workers, service_unstorable_id, pool_panic, pool_acked, dead_letters, hub_gauge | the smallest instance that shows it, no faults | violations, section 4 |

What the properties say, shortly (each is stated in full where it is defined):

- `LockExclusion`: two callers with live contexts are never both between
  SetIfNotExists and the deferred Invalidate of one content, unless its key once
  expired under a stream.
- `ContractSpec`: whatever is lost, late or crashes, a verdict in a row is one
  answer of the AI about that content, is written once, announced at most once
  and only after it was written, and a deleted content stays deleted.
- `DecidedOnce`, `ToldTheVerdict`: a decided row changes only by deletion, and
  the user is told exactly the verdict the row holds. With one worker they hold;
  with two, see the findings.
- `WorkerReturns`, `LockFreed`: with an AI server that never answers and calls
  that fail, a worker comes back and no key stays for good.
- `NothingDropped`: while the pool is not told to stop, an acked job is in
  `jobCh`, with a worker, or has been through ModerateContent.
- `DeliveryBudget`: attempts and copies of a job in the process never outnumber
  its deliveries, so it is moderated at most MaxDeliver times.
- `WorkersStay`, `ShutdownCompletes`, `JobAttempted`: the pool does not shrink in
  service, a cancelled pool shuts down, a stored job is reached.
- `ClosedOnce`, `NoGap`: no send channel is closed twice or used after its close;
  a connection sees its user's messages in order and without a gap.
- `ConnectionEnds`, `HubServes`: both goroutines of a connection end, and no
  client, slow or dead, holds up the hub.
- `NotificationRelay`, `DeadLetterRelay`: nothing is acknowledged that was not
  passed on, through lost replies, restarts, and consumers that are deleted and
  created again. Published twice is allowed, and happens.
- `InOrder`: the hub is handed each notification once and in the order of the
  stream, except those that were delivered to the bridge more than once.
- `Forwarded`: whatever an earlier process left undone, a process that keeps serving
  passes on the notifications that are stored.
- `DeadLetterCopied`: a job that is given up while a process serves gets its copy in
  MODERATION_DLQ. It does not hold, see the findings.
- `OneHolder`: of the callers between TryLock and their return, the one that has
  not outlived its lock still owns the key; no late caller deletes it.
- `FetchedOnce`, `CallReturns`: a second fetch of a key has one of the listed
  excuses; a call returns or is inside fetchFn.
- `CountsAddUp`: every call admitted in the generation is in flight or counted
  once, whatever older calls come back in between.
- `BreakerMoves`: the breaker opens exactly when a call of its own generation fails
  that is a probe or meets the trip rule, and on no success; it closes only on the
  last of exactly MaxRequests successful probes, or because the process starts
  again; it turns half-open only after its timeout.
- `HalfOpenCanSettle`, `HalfOpenSettles`: a half-open breaker waits for a call of its
  own or admits one, and a full one settles unless a stream without deadline sits in
  it.
- `StreamTypeOK`, `DriftBounded`: pages begin at multiples of the page size and are
  never longer, so those of a table that does not change do not overlap; nothing
  about skipping follows from that, but
  a stream that ends has missed no more contents than were deleted, and repeats no
  more than were created.

Bounds, and why they are enough to be of interest:

- Three calls for one content are a job delivered twice and a stream, or three
  deliveries: enough for a caller to delete a key that is not its own and let a
  third one in. Contents do not interact (every key and row is per content), so
  one is enough.
- Channels of capacity 1 are full after one message, so that blocking, slow
  consumers and reaching MaxAckPending occur in every run; two jobs are needed
  for one to wait for the other, and two messages for one to be missing.
- Two process runs have a job delivered in one and redelivered in the other.
- Two faults in a relay are, for instance, a publish that took effect without a
  reply followed by a late ack. A crash is no fault and may come at any point.
- Six calls per interval and a threshold of 3 let calls of three generations overlap
  with three callers, and let three of six calls fail, which is enough in number and
  too low a ratio to trip; 3/5 is the code's ratio, 2 half-open calls are more than
  one and fewer than the callers.
- Four contents in pages of two are two full pages and the empty one after them.
- `MCRelays` and `MCAdapters` put two and three components in one run by running one
  of them per behaviour. The components of `MCAdapters` share no variable. Those
  of `MCRelays` share the life of the process, and `RelaysDoNotInterfere` proves
  that each behaves in the server as it does alone; so the properties, which are
  about one component each, hold of the product if they hold of the sum. The
  component at rest is exempted from fairness (`BridgeSubscribes`,
  `MonitorSubscribes`).
- `MaxCalls`, `MaxRuns` and `MaxMessages` bound the runs only. The theorems hold
  for all their values.

`CHECK_DEADLOCK FALSE` stands in every cfg because every model may stop
legitimately: all calls returned and `MaxCalls` spent, the process down after its
last run, all connections gone. That nothing stops too early is what the liveness
properties say.

## 4. Findings

Each is a run that violates one property.

- **A verdict can be overwritten** (`service_two_workers`, `DecidedOnce`). The
  status is read before the key is taken (moderation_service.go:45, :50), and the
  key is released before the verdict is written (:59, :122). Two workers that hold
  the same redelivered job both moderate it, with no fault at all; the second
  verdict replaces the first and the user is told twice.
- **The verdict is refused by the database** (`service_unstorable_id`,
  `VerdictStored`). `moderation_id` is a UUID column; the Triton client's results
  have an empty id, those of the client main.go installs `mock-result-N`. The
  constant `StorableID` says whether ids fit; the other runs take TRUE, to check
  what follows a stored verdict.
- **Shutdown can panic** (`pool_panic`, `NoPanic`). Start closes `jobCh` while a
  callback may still enter its select; a send on a closed channel is a ready case.
- **An acked job can be lost** (`pool_acked`, `AckedIsModerated`). The ack follows
  the hand-over to `jobCh`, not the moderation, so a failed moderation, and every
  job in the process when it stops, bypasses the retries and the dead-letter queue
  that README.md:28 promises. `PoolLossBounded` says how many never begin: a full
  `jobCh` and one for each worker, per run of the process.
- **No job reaches the dead-letter queue** (`dead_letters`, `DeadLetterCopied`).
  README.md:28 promises one. The monitor subscribes, through JetStream, to the
  advisories' subject (broker.go:362-363), which no stream has: js.Subscribe fails,
  main.go:123-124 logs a warning, and the process serves on without a monitor. One
  process and one job, without any fault, show it; `NoStreamNoCopy` proves that no
  job ever has a copy.
- **The gauge of connections drifts** (`hub_gauge`, `ActiveConnections`). One
  increment and two decrements per connection. `GaugeDrifts` gives its value at any
  time: the connections that read or are between their two unregisters, minus all
  that have ended.

## 5. Fairness

Weak fairness only, and only for what the runtime, a timer or a server does
by itself:

| Steps | Why |
|---|---|
| every call after the AI call, `Acquire`, the callback, the workers, Start, the hub's loop, the pumps' steps | goroutines are scheduled, remote calls return |
| `CtxDone`, `ClientCtxDone` of a worker | JobTimeout, 30 s |
| `InferFail` of a caller whose context is done | both clients select on the context |
| `LockExpire` | the key's TTL |
| `Deliver`, `AckWaitExpire` | the JetStream server |
| `Write`, `PingFails` and `ReadFails` on a closed connection | write deadline of 10 s; reads and pings on a closed connection fail |
| `AckWaitExpire`, `Unbind`, `Deliver` of the relays; `Subscribe`, `StartMonitor` | the JetStream server; main starts both goroutines at once |
| `Callback`, `MonitorCallback`, `CallStep`, `Pause` | goroutines are scheduled, remote calls return |
| `DeadlineError` | a gRPC call whose context is done fails |

A `HubStep` is the loop as a whole: Go promises no particular case of a `select`,
so no fairness is assumed for one client over another. Not assumed: that the AI
server or fetchFn answers, that a process is started again or, once signalled,
ends, that a peer cancels, reads, stays or leaves, that a publish succeeds, that
anybody creates content.

## 6. Proofs

All theorems are about every value of the constants that satisfies the modules'
named assumptions (`CallersAssumption`, `PoolAssumption`, `HubAssumption`,
`DeliveryAssumption`, `MonitorAssumption`, `RunsAssumption`, `LockAssumption`,
`ClientAssumption`, `StreamAssumption`): any finite set of workers, connections or
contents, any set of notifications, exhausted jobs, callers of the lock or keys, any
capacities and page size, any trip rule, any number of calls, retries, faults,
restarts and messages.

Safety, in the order of a content's way:

| Theorem | Says | By |
|---|---|---|
| `TypeCorrect` | `Spec => []TypeOK`, with "past the AI call a caller carries an answer" | inductive as it stands |
| `LockExcludes` | `Spec => []LockExclusion` | `LockInv` |
| `ServiceImplementsContract` | `Spec => ContractSpec` | `CarryInv` |
| `VerdictsAreHonest` | with any number of workers, a decided row holds an answer of the AI about that content, and a notification tells one, of the content it names, once per answer | `HonestInv`, with `CarryInv` |
| `NothingIsWithdrawn` | a deleted row stays so under a running moderation; answers and notifications only grow | the same |
| `ToldOnce`, `FirstVerdictStands` | `ToldTheVerdict` and `DecidedOnce`, assuming `OneWorker` | `FinalInv` |
| `PoolTypeCorrect`, `PoolWorkersStay` | `TypeOK`, `WorkersStay` | inductive with `TypeOK` |
| `PoolDropsNothing` | `Spec => []NothingDropped` | `DropInv` |
| `PoolLossBounded` | acked jobs that no worker has begun: at most Capacity plus the number of workers, per run of the process | `LossInv` |
| `PoolDeliveryBudget`, `PoolAttemptsBounded` | `DeliveryBudget`; at most MaxDeliver attempts | inductive with `TypeOK` |
| `PoolPanicsInShutdown` | a send on the closed channel needs a context that is done | `WorkersStay` |
| `NotifyTypeCorrect`, `DLQTypeCorrect` | `NotifyTypeOK`, `DLQTypeOK` | inductive as they stand |
| `BridgeRelays`, `MonitorRelays` | `NotifySpec => NotificationRelay`, `DLQSpec => DeadLetterRelay` | `RelayInv`, `CopyInv` |
| `NotificationsInOrder` | `NotifySpec => []InOrder` | `OrderInv`, `StreamInv` |
| `NothingInvented` | what the hub is handed Redis took, what Redis took is in the stream | `FromTheStream`, with `RelayInv` |
| `NoStreamNoCopy` | assuming no stream for the advisories, `DLQSpec => [](dlq = {})` | `Idle` |
| `RelaysDoNotInterfere` | `ServerSpec => NotifySpec /\ DLQSpec` | a step of the server is a step or a stutter of each |
| `RelaysTypeCorrect`, `ServerRelaysBoth` | `RelaysTypeOK`; both contracts, `InOrder` and `FromTheStream`, in one process | `RelaysDoNotInterfere` |
| `HubTypeCorrect` | `Spec => []TypeOK` | inductive as it stands |
| `HubClosesOnce` | `Spec => []ClosedOnce` | `ChannelInv` |
| `HubLeavesNoGap` | `Spec => []NoGap` | `FeedInv`, `ChannelInv` |
| `GaugeDrifts` | the gauge is the number of connections that read or leave, minus those that have ended | `GaugeLaw`, inductive with `TypeOK` |
| `LockTypeCorrect`, `LockHasOneHolder` | `LockTypeOK`, `OneHolder` | inductive, together |
| `LockFetchesOnce` | `LockSpec => FetchedOnce` | `Owned`, `StoredOrComing` |
| `StreamTypeCorrect`, `DriftIsBounded` | `StreamTypeOK`, `DriftBounded` | `DriftInv` |
| `QuietStreamIsExact` | no saves: nothing comes twice; no deletions: nothing is missed | `DriftInv` |
| `ClientTypeCorrect`, `ClientCountsAddUp`, `HalfOpenNeverStuck` | `ClientTypeOK`, `CountsAddUp`, `HalfOpenCanSettle` | `CountInv` |
| `BreakerMovesOnEvidence` | `ClientSpec => BreakerMoves` | `HalfOpenShare`, with `CountInv` |

Progress, step by step. Liveness is out of the prover's reach, but the argument it
rests on, that something runs out, is an action property and is proved:

| Theorem | What runs out | Under |
|---|---|---|
| `PoolShutdownDrains` | after jobCh is closed, the jobs in it and what the workers hold (`Remaining`); no delivery adds to it | `ShutdownCompletes` |
| `HubNeverHeldUp` | before the next message is taken from broadcast: the snapshot of the one before it, and three turns of each connection (`Visits`) | `HubServes` |
| `LockCallsAdvance` | the at most 2 * MaxRetries + 5 steps of a WithCacheLock call (`StepsLeft`) | `CallReturns` |
| `ClientCallsAdvance` | the at most Retries + 1 attempts of a call | `HalfOpenSettles` |
| `StreamsRunOut` | the pages and contents a stream has before it (`StreamLeft`), whatever is saved and deleted | - |

Each says that the process's own step decreases a number and that no step of
anybody else increases it. What is left to fairness, and to TLC, is that the step
is taken: that it is enabled while the number is not zero.

The strengthenings, and why they are needed:

- `LockInv`: the key of a content that never expired under a live holder *names*
  the live caller in the critical section. `LockExclusion` alone does not say that
  a caller that finds no key finds no other caller either.
- `CarryInv`: the answer a caller carries is about its content and carried by
  nobody else, and is written or announced exactly as far as its `pc` says. Without
  it nothing keeps two callers from writing the same answer.
- `FinalInv`: what a single worker found pending nobody else decides, and what it
  has just written nobody else has announced.
- `DropInv`: a job under moderation counts as attempted, and the message whose ack
  is about to be sent is already handed over.
- `ChannelInv`: `ClosedOnce`, and that the writer starts when the hub registers
  the connection, whose channel nobody has closed before. `ClosedOnce` alone does
  not say that what is registered is new.
- `FeedInv`: per client, what was delivered is a prefix of what is due, and, while
  the writer runs, so is what was delivered followed by what is in the channel; it
  is all of it while the client is registered. `NoGap` alone says nothing of the
  channel of a client that was dropped, which its writer still drains. And the
  message being sent is due to the rest of the snapshot and later than all else
  they got.
- `RelayInv`, `CopyInv`: the callback that is about to ack has its message among
  the forwarded ones, and so has every acked message; what is in `inbox` or `cur`
  is in the stream, so that forwarding it is a step of the contract.
- `OrderInv`: `got`, `feed`, the callback's notification and `inbox` are each in
  order, and each comes before the next. `InOrder` speaks of the end of that line
  only. `StreamInv` says why a delivery may join its other end: the consumer's
  first-time deliveries run through the stream in order, and after a consumer
  was deleted all they repeat is in `again`.
- `StoredOrComing`: a key that nobody has an excuse to fetch again has its value in
  the cache, or a caller in time that fetches or stores it; by `OneHolder` that
  caller has the lock, so no second one gets past TryLock. `Owned`: a caller's
  value is in Redis only between its TryLock and its return, so that a caller
  that begins finds no lock of its own.
- `CountInv`: `CountsAddUp`, that a call which pauses has an attempt left
  (`Pausing`), and that the counts fit the state of the breaker (`Fits`): an open
  one counts nothing, a half-open one has seen
  fewer successes than would close it and no failure. The calls in flight are
  counted by a cardinality, which a call's begin and end change by one.
- `HonestInv`: a row's verdict is written and about its content (`Deserved`), and
  notifications are distinct in their answers (`Truthful`). It needs `CarryInv` for
  the steps in between, when the answer is only in the caller's hands.
- `LossInv`: of the acked jobs that nobody began and nobody holds any more, each
  worker that left took at most one and each process that ended at most a full
  channel and one per worker. `DropInv` says where the others are; `DownInv` that
  nothing of a process outlives it.
- `DriftInv`: of the contents that were there at the start, those that the offset
  has passed unseen (`Skipped`) are no more than the deletions; the repeats there
  were and those to come, on the page (`Pending`) or beyond the offset
  (`Returning`), are no more than the saves. `DriftBounded` says nothing of those
  to come, or of a stream that has not ended.
- `HalfOpenShare`: a half-open breaker admitted at most MaxRequests calls and has
  no timeout pending; with `CountsAddUp` the success that closes it is the last of
  exactly that many, and every earlier one succeeded too.
- `FromTheStream`: `InOrder` is about positions only; this ties `got`, and what is
  still on its way, to `forwarded`, and `forwarded` to the stream.

Assumed and not proved: what the modelling assumes of Postgres, Redis and NATS
(single statements and commands are atomic; more in section 7), and that JobTimeout and the key's
TTL are equal as in `DefaultConfig`. `ToldOnce` and `FirstVerdictStands` assume
one worker; the run service_two_workers shows they need it. `NoStreamNoCopy`
assumes what is the case with the streams of ensureStreams.

Left to TLC: the liveness properties (`WorkerReturns`, `LockFreed`,
`ShutdownCompletes`, `JobAttempted`, `ConnectionEnds`, `HubServes`, `CallReturns`,
`HalfOpenSettles`, `Forwarded`), as liveness under fairness and ENABLED are beyond
the prover; and the six violations. Every invariant,
action property and refinement that a passing run checks is a theorem, two of them
(`ToldTheVerdict`, `DecidedOnce`) for a single worker, as in the run. The
modules have no RECURSIVE operator, so nothing is out of reach for that reason.

## 7. Not modelled

- Generated code, interfaces, test doubles, wiring, logging, tracing, metrics other
  than the gauge of connections: no behaviour of their own.
- HTTP handlers and gRPC interceptors: stateless; what they call is modelled.
- `NotificationService` and `SubscribeModerationResults` have no caller; the second
  does what `SubscribeNotifications` does. `WithCacheLock`, the Triton client and
  the breaker have none in `main.go` either, but are complete, and modelled.
- `TritonClient.IsHealthy` and `GetModelHealth`, which change nothing; dialing.
- How long a shutdown lasts: GracefulStop waits for streams without a limit.
- A call to Redis that takes effect after its caller has given up on it and begun
  the next one; two contents with equal created_at stamps; notifications that
  reach the stream's MaxAge of seven days.
- The queue-length gauge, trace headers, encoder buffers and log lines.
- Durations, besides the order that two equal time limits imply.

What is assumed of libraries that are not in the repository:

- The pool's subscription can be bound to its consumer. ensureConsumer
  (broker.go:146-155) sets no DeliverSubject, which makes a pull consumer of it, and
  SubscribeModerationJobs binds a push subscription to it by name (QueueSubscribe
  with nats.Bind, broker.go:250, :279). If nats.go refuses that, Start returns an error
  and main.go:143 ends the process: every run of it is then a `Crash` at its start.
  The models take it that the consumer delivers.
- A command to Redis is sent once. go-redis by default repeats one that failed, a DEL
  too; a repeated DEL that arrives after its caller is gone is not modelled.
- A WebSocket connection belongs to its two goroutines until both end.
  gofiber/websocket takes a connection back when the handler returns (handler.go:38),
  while writePump may still write to it or close it; what a connection that is used
  again would see is not modelled.

## 8. Plan

Done: all modules of section 2, their runs, and the proofs of section 6.

Left, in this order:

1. A composition of pool, service and relays at the level of their contracts, from
   Save to the device: what a user may rely on end to end, with `got` of
   `NotificationDelivery` as the `feed` of `WebSocketHub`, in the manner of
   `ServerRelays`.
2. The same ranking argument for the relays: a callback's three calls, and a stored
   message's place in the stream.
3. Entity validation (lengths, enumerations, normalisation) as operators checked
   against a reference over bounded inputs.
