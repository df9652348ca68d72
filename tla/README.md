# Verification of the notifications platform

TLA+ models of the platform (its delivery pipeline, the services around it and the
demonstration tools beside them), TLC configurations that check them on small
instances, and TLAPS proofs of the main results for every size of the system.
Paths below are relative to the repository.

## 1. The system

An upstream platform publishes notification events to a Kafka topic. The
platform stores each event, delivers it to the webhook its client subscribed,
retries failed deliveries, and lets a client look at its events and replay a
failed one.

| component | code | state it keeps | operations |
| --- | --- | --- | --- |
| dispatch service (Go, several instances, one consumer group) | `services/dispatch-service` | the message in hand and the locals of its handler; the group's committed offsets | fetch, decode or dead-letter, ingest, claim, resolve subscription, send, record / abandon / close, announce, commit |
| retry service (Go, several instances) | `services/retry-service` | the batch it claimed | poll due rows, requeue and schedule, exhaust and dead-letter, sweep stalled deliveries |
| self-service API (TypeScript) | `services/self-service-api` | requests in flight, the database pool | list events page by page, read one with its attempts, replay a failed event, shut down |
| event and attempt tables (Postgres) | `deploy/postgres/init`, the three stores | one row per event (state, retry_count, next_retry_at, updated_at), the append-only attempts | one SQL statement or transaction per operation |
| Kafka topics | used by all services | dispatch topic, result topic, dead letters, committed offsets, partition assignment | append, fetch, commit, reassign |
| subscription service (TypeScript) | `services/subscription-service` | subscriptions per (client, event type) | create a batch (look-up, then upsert, per event type), deactivate (look-up, then update), list, resolve |
| subscription resolver | `dispatch-service/internal/infrastructure/subscriptions` | none | answers a subscription, none, or an error |
| webhook sender | `dispatch-service/internal/infrastructure/webhook` | none between calls | one HTTP delivery with in-process retries |
| webhook URL guards | `subscription-service/src/infrastructure/security` (TypeScript), `dispatch-service/internal/infrastructure/webhook/ssrf.go` (Go) | none | judge a URL and its addresses: at registration, before a delivery, at each connection |
| retry delay policy | `retry-service/internal/domain/retry_policy.go` | none | exponential delay with cap and jitter |
| monitor service (TypeScript) and its page | `services/monitor-service` | a bounded feed, open event streams, cached tokens; in the page its rows and filter | consume results, push them, answer snapshots, replay for an operator, shut down |
| demo tools (TypeScript) | `services/demo-tools` | the receiver's secrets and behaviour | publish and seed the sample events, subscribe every client, receive webhooks and verify them, fail on demand |
| authentication, routes | in each TypeScript service | none | refuse a request or pass it on |
| configuration, observability | spread | none a decision reads | translation only |

How they interact: the dispatch service, the retry service and the replay
endpoint never call each other. They share the tables, where each statement is
guarded by its own WHERE clause (or by nothing), and the dispatch topic, on which
all three producers put messages about the same events. The dispatch service
calls the subscription service and the client's webhook synchronously and
announces results to the monitor, which pushes them to dashboards and asks the
self-service API for the replays its operators want. The queries of the
self-service API read the tables while the others write them. The demo tools are a
client of the subscription service and the webhook of every client.

What is hard here, and what the checks are about:

- one state machine per event whose transitions are made by three services, each
  checking its own copy or its own WHERE clause;
- at-least-once messages: redelivery after a crash, a rebalance or a refused
  commit, an old owner's handler that runs on after the partition moved, late
  commits that move an offset back;
- the same event in two partitions at once, because two client libraries hash
  the same key differently;
- answers that are lost after the store, the broker or the webhook acted, and rows the
  store refuses however often they are tried;
- a sweep that gives a delivery up while its dispatcher may be alive;
- a budget counted by a claim, a visibility window that lapses, two workers;
- replays that race each other, the dispatchers and the retry worker;
- answers put together from several statements while the rows move: a total and a
  page, a row and its history, one page after another;
- one policy on URLs written twice, in two languages, and names that change between
  the two;
- a page fed through two channels, live rows and snapshots, that overtake each other;
- tokens, secrets and connections that one process keeps and another one judges;
- something must eventually happen: each event is delivered or declared failed, and
  a service that is told to stop stops.

Every such place, with its line and the properties that watch over it, is in
`PROJECT.json` under `hazards`.

Correctness, component by component:

- *dispatch service*: deliveries are exclusive (`ExclusiveDelivery`); offsets
  never pass a message nobody dealt with (`NoMessageSkipped`); results announced
  were recorded (`ResultsAreRecorded`); partitions drain but for messages the table
  never takes (`PartitionsDrain`);
- *retry service*: the budget bounds the requeues (`RetryBudget`); nothing is
  scheduled that was not published (`ScheduledWasPublished`);
- *tables*: the attempts explain the state (`AuditTrail`); DELIVERED is final
  (`DeliveredIsFinal`);
- *replay endpoint*: by itself it duplicates nothing
  (`DuplicatesNeedDisruption`);
- *queries*: nobody sees another client's events (`OwnEventsOnly`); the attempts of a
  detail explain its state (`DetailIsExplained`); a page is as full as the total
  promises (`PageWithinTotal`) and a walk through the pages misses nothing
  (`WalkMissesNothing`); the pool outlives the requests (`PoolOutlivesRequests`) and
  the process still stops (`ShutdownCompletes`);
- *subscription service*: a refused request writes nothing
  (`RejectedWritesNothing`), a batch does not conflict with itself
  (`ConflictIsAnothers`), and two creations of one subscription both succeed only
  when they overlap (`DuplicatesOverlap`);
- *webhook sender*: the one verdict on a cycle agrees with what the client took
  (`CycleIsSend`), and a cycle ends in time (`CycleIsBounded`);
- *URL guards*: what could be registered is refused at delivery only if the name has
  moved (`RegisteredIsDeliverable`);
- *monitor*: the feed is the window it is meant to be (`FeedIsWindow`), its
  percentiles divide the times as their names say (`LatencyIsPercentile`), a dashboard shows the latest
  results (`DashboardIsComplete`) of the clients it asks for (`RowsMatchFilter`), an
  operator's replay is made in the name of the right client (`ReplayIsClients`) with
  a token that is still good (`OperatorIsNotRefused`), and open dashboards do not
  keep the process alive (`MonitorStops`);
- *demo tools*: the receiver can verify what it was handed secrets for
  (`HandedIsVerified`), a run of subscribe-all accounts for every subscription and is
  right about the secrets (`RunAccountsForAll`), and the calls answered 500 are the first
  after the order that asked for failures (`FailuresAsAsked`);
- *the whole*: every step is a step of the event's life (`RefinesLifecycle`) and
  every published event settles (`EventuallySettled`).

## 2. The modules

| module | models | depends on |
| --- | --- | --- |
| `Domain` | states of an event and the rules of the dispatch service's domain package | |
| `EventStore` | the two tables; one operator per SQL statement or transaction of the three stores | `Domain` |
| `Topics` | dispatch topic, group offsets, assignment, result topic, dead letters; what may be disrupted (external: modelled from its use) | `Domain` |
| `Dispatcher` | dispatch service instances | `EventStore`, `Topics` |
| `RetryWorker` | retry service instances | `EventStore`, `Topics` |
| `ReplayApi` | concurrent replay requests | `EventStore`, `Topics` |
| `Delivery` | their composition, the upstream platform and the passing of time | all of the above |
| `Lifecycle` | abstract: the life of one event's row, its attempts and its retry count | `Domain` |
| `Guarantees` | the properties, the refinement mapping to `Lifecycle`, and the claims the code does not meet | `Delivery`, `Lifecycle` |
| `MCDelivery` | values TLC needs: partition functions, symmetry | `Guarantees` |
| `Subscriptions` | the subscription service: concurrent creations and deactivations | |
| `WebhookGuards` | the two guards, as predicates on schemes, ports and addresses | |
| `WebhookSender` | one delivery cycle to a registered URL: guard, calls, pauses, verdict, and a DNS that changes | `WebhookGuards` |
| `Fixture` | the sample events, as the file adapter serves them and as the seeder writes them | `Domain` |
| `EventQueries` | conversations of clients with the self-service API, through either adapter, and its shutdown | `Fixture`; INSTANCE of `Lifecycle` as the pipeline |
| `Monitor` | consumer, feed, event streams, dashboards and shutdown of the monitor | |
| `OperatorReplay` | the replay button: token cache, token lifetime, the call | |
| `DemoTools` | subscribe-all and the webhook receiver | `Subscriptions` |
| `MCSubscriptions`, `MCWebhookSender`, `MCEventQueries`, `MCMonitor`, `MCDemoTools` | values TLC needs; `MCMonitor` and `MCDemoTools` also choose at first which part moves | the ones above |
| `DeliveryProofs` | type correctness, exclusivity, refinement, finality and audit trail, proved | `Guarantees` |
| `ConsumerProofs` | no message is skipped, recorded results and paid duplicates, proved | `DeliveryProofs` |
| `RetryProofs` | retry budget and schedule, proved | `ConsumerProofs` |
| `SubscriptionsProofs`, `WebhookSenderProofs`, `EventQueriesProofs` | properties of the module they are named after, proved | that module |
| `MonitorProofs` | what `MCMonitor` checks of the monitor and of the replay button, proved | `MCMonitor` |
| `DemoProofs` | properties of `DemoTools`, and that it implements `Subscriptions`, proved | `DemoTools`, `SubscriptionsProofs` |

### State and actions against the code

*Tables.* `rows[e]` is the row of `e` with the columns a decision reads:
`state`, `retry_count` and `next_retry_at`. The latter is reduced to what the
poller can tell: `due`, `hidden` (the visibility window of a claim) or
`scheduled` (the delay of the policy); `Lapse` is the time passing. A window and a
delay may lapse at any moment, so a worker may always be slower than its own
window. `attempts[e]` is the history in `attempt_number` order. A guarded UPDATE
that matches nothing changes nothing, as in SQL; the caller's reaction to zero
rows is in the caller's action. `ReclaimStalled` takes an explicit set of rows:
which ones are old enough is decided in `Delivery!Stalled`.

*Dispatcher.* `pc[d]` names the call instance `d` makes next, `job[d]` its locals:
the partition and offset of the message, the state observed by the read (later
the status of the webhook call, `held`) and the attempt number the transaction
assigned. One message at a time, as in `consumer.go`. Between two calls anything
else may happen. An error returned by the use case leads back to `find`, because
`Process` runs the same message again in place; `Answer` says that a statement
that took effect may have lost its answer, `StoreFails` that it had none, which happens
as often as the disruptions allow. `Refused` are the events whose row the table refuses
each time (an `event_id`, `client_id` or `event_type` longer than its column, a payload
with `\u0000`, which JSONB does not take): `decode` lets their messages through, and
`InsertRefused` leads back to `find` without end. The
webhook call, its in-process retries included, ends in a verdict (`held`); the
client took the event once if that is SUCCESS, and once more if an answer of its
was lost on the way, which counts as a disruption of the network. `accepted[e]`
counts both. That a cycle of the sender is no more than this is `CycleIsSend` of
`WebhookSender`; the model caps the lost answers of one cycle at one. `Crash` forgets
the handler and returns the instance's partitions to the committed offset; `Rebalance` moves a partition while its old owner runs on and
may still commit.

*RetryWorker.* `batch[w]` are the claimed rows not acted on yet, with the retry
count the claim returned, `task[w]` the one between publish and schedule or
between MarkFailed and its dead letter. A cycle and a sweep of one instance never
overlap (one goroutine); those of two instances do.

*ReplayApi.* Each request is a process: look-up and `canBeReplayed`, then
`markForReplay`, then the publish and with it the answer. `before` records how
many attempts the event had; only properties read it.

*Topics.* `log[p]` with `committed`, `position` and `owner`. A producer's message
about `e` goes to `PartitionOf[source][e]`: the function depends on the producer,
because the retry service (kafka-go's FNV-1a) and the TypeScript producers
(kafkajs, murmur2) hash a key to different partitions.

*Disruptions.* Crashes, rebalances, store, broker and network failures are steps
of their own or alternatives of an action; each counts towards
`MaxDisruptions` and must be of a kind in `Faults`. With `Faults = {}` the model
is the system with nothing failing.

*SlowDispatch.* FALSE: a delivery never outlasts `RETRY_STALLED_AFTER_SECONDS`,
so the sweep takes only rows no live dispatcher works on. TRUE: it may take any
DELIVERING row. `CycleIsBounded` gives, for the defaults of the sender, at most
3 * (5 s + 0.2 s + 2 s) = 21.6 s of calls and pauses, against a default age limit
of 300 s, so FALSE is the normal case; a paused process or a stalled database
connection makes it TRUE. (The address guard's DNS look-up before the first call
is not in that sum.)

*Lifecycle.* The mapping is `state <- rows[e].state`, `retries <-
rows[e].retries`, `attempts` itself. It states what no single service can see:
DELIVERING ends in exactly one of a recorded attempt, a release or a close;
`GiveUp` needs a spent budget; FAILED is left by `Reopen` only.

*Subscriptions.* Requests are processes and each `await` is a step: `Receive`
(schema, `dedupe`), `Validate`, then `FindActive` and `Save` per event type, and
`Lookup` and `Deactivate` for a deletion. A request generates at most one id and
one secret per event type, so the request itself stands for them and for the URL it
carries: `table[c][t]` is the row of the unique key, `id` the creation whose id it
has, `data` the one whose secret and URL it has. An upsert keeps the id and takes
over the rest, as ON CONFLICT does. Whether a URL passes the guard is a choice here
(`WebhookGuards` is about which do).
The order `dedupe` leaves is left open, since a client may write every order. With
`StoreFaults` any statement may fail, a write also after it took effect. `live`
and `seen` are read by properties only.

*WebhookSender.* `step` is where `Send` is, `attempt` the calls made, `answer` the
status and error of the last. The client and net/http are external (`Outcome`): an
answer may arrive whole, break off after the status, or be missing, and a missing
one says nothing about whether the client took the notification. A time limit of
net/http is a `context.DeadlineExceeded`, which `retryableError` refuses, hence
final. Times are integers, and `elapsed` adds calls and pauses. `accepted`, `lost`
and `elapsed` are read by properties only. `expected` is a status, never 0: the
table's default and constraint leave no row for evaluate's 2xx fallback. The URL is
one the registration's guard passed, with the addresses its name had then; `Resolve`
lets them change at any time. The first layer of the dispatch service's guard runs in
`Validate`, the second (`ControlDial`) may end any `Call`.

*WebhookGuards.* A URL is what the two parsers tell apart: scheme, credentials, port,
the address written as its host, if it is one, and whether the string is in the form
`new URL()` would give it. The subscription service judges the parsed URL but stores
the string, and `url.Parse` reads the string: what it makes of one that is not
`plain` is left open. An address is four octets or eight groups;
`BlockedReasonV4/V6` are the tests of the TypeScript code, `NetBlocks4/6` the
predicates of Go's package net with the CGNAT block, so that the two can be compared
address by address.

*Fixture, EventQueries.* `request[q]` is a conversation: a list followed page by page,
or one detail. `Count` and `ReadPage`, and `ReadRow` and `ReadHistory`, are the
separate statements of `postgres-event-repository.ts`; the file adapter answers in one
step from the fixture. Between two statements the tables take any step of
`Lifecycle` (`Pipeline`), so what is shown holds beside anything that implements it,
which `DeliveryRefinesLifecycle` says of the pipeline. Dates are seconds, ids have a
rank, and the statement's order is a choice among the orders its ORDER BY allows.
`Rows` is the adapter's answer to both halves of a list. Refusals (429, 401, 400) end a
conversation. `server` and `pool` are the shutdown of
`main.ts`: `Closed` is the callback of `server.close`, which waits for requests,
`GraceExpires` the timer, which does not. `counted`, `first`, `known` and `raced` are
read by properties only.

*Monitor.* `topic`, `position` and `committed` are the result topic and the group of
this process (external); `handled` is the order results were handled in, and a row is
an index into it, so that two rows of one result, read twice after a rejoin, differ.
`buffer` is the feed. `link[b]` and `frames[b]` are an event stream and what is on its
way in it, `rows[b]` what the page shows, `asks[b]` its snapshots asked for or
answered. `Apply` replaces the rows whatever happened since. A filter is two sets of
clients because the page looks for a text in the id, not minding the case, and the
service compares the id. `Durations` sorts by rank: its k-th element is the time of the
row that k - 1 rows are put before, which is what a stable sort yields, and can be
reasoned about. `Start` is another process: an empty feed and a group of its
own. `whole`, `crossed`, `intact`, `handled` and `started` are read by properties only.

*OperatorReplay.* `tokens[c]` is the cache of `replay-client.ts`, `press[p]` a request
and the step it is at; both services read one clock. What the replay itself does is
`ReplayApi`.

*DemoTools.* `run[s]` is a run of subscribe-all, whose requests are creations of
`Subscriptions` (`CreationOf`), so it meets every interleaving that module has.
`secrets` is the receiver's map; as in `Subscriptions` a creation stands for the secret
it generated. `Verdict` is `verifySignature` for a delivery signed with the secret of
the row. A run hands over what it was given (`HandOver`): the receiver takes it and says
so, takes it and the answer is lost, or the run ends with a count of 0 because there was
no secret, no URL of the receiver or an answer that was not ok. `call[w]` is a delivery
that waits out the delay before it looks at `failNext`; `oneOff` is the status its URL
names, which it is answered with, though a failure is used up first. `Restart` forgets
what was in memory. `handed`, `rivals`, `asked` and `since` (the calls answered since
failures were asked for, in that order) are read by properties only.

## 3. The runs

Passing runs:

| run | of | instance | checks |
| --- | --- | --- | --- |
| `crashes` | `MCDelivery` | 1 event on two partitions (libraries disagree), 2 dispatchers, 1 worker, budget 2, any 2 disruptions of every kind | `TypeOK`, `ExclusiveDelivery`, `AuditTrail`, `DuplicatesNeedDisruption`, `ResultsAreRecorded`, `NoMessageSkipped`, `DeliveredIsFinal`, `RefinesLifecycle` |
| `contention` | `MCDelivery` | 1 event, 2 dispatchers, 2 workers, 2 replay requests, budget 2, nothing fails | `RetryBudget`, `ScheduledWasPublished`, `DuplicatesNeedDisruption` |
| `settles` | `MCDelivery` | 2 events, one of which the table refuses, and a malformed message on one partition, in any order; 2 dispatchers, 1 worker, budget 2, 1 crash or failed call, fair | `EventuallySettled`, `PartitionsDrain` |
| `webhook_cycle` | `MCWebhookSender` | up to 3 calls, statuses 200, 404, 429 and 503, any of them expected; URLs and addresses on both sides of every edge of the guards; names that change | `SenderTypeOK`, `CycleIsSend`, `CycleIsBounded`, `RegisteredIsDeliverable` |
| `self_service` | `MCEventQueries` | 1 conversation about 2 events of one date, pages of 1, either adapter, tables empty or seeded, the pipeline, a shutdown, fair | `QueriesTypeOK`, `OwnEventsOnly`, `DetailIsExplained`, `PageWithinTotal`, `WalkMissesNothing`, `PoolOutlivesRequests`, `ShutdownCompletes` |
| `monitor` | `MCMonitor` | 4 results of 3 clients (1 unreadable), a feed of 3, snapshots of 1, 1 dashboard, 1 broken connection, lost session or restart, fair; beside it 2 operator replays of 2 clients over 6 ticks | `ServiceTypeOK`, `FeedIsWindow`, `LatencyIsPercentile`, `DashboardIsComplete`, `RowsMatchFilter`, `MonitorStops`, `OperatorIsNotRefused`, `ReplayIsClients` |
| `demo` | `MCDemoTools` | 2 clients, 2 event types: 2 creations of batches of up to 2 (blanks and repetitions included) and a deactivation, with failing statements; or 2 runs of subscribe-all with a deactivation and a restart; or 3 deliveries with a status in their URL or none, 2 orders to fail up to 2 or to answer 503, and a restart | `SubscriptionsTypeOK`, `RejectedWritesNothing`, `ConflictIsAnothers`, `DuplicatesOverlap`, `DemoTypeOK`, `HandedIsVerified`, `RunAccountsForAll`, `FailuresAsAsked` |

Why the bounds are enough. The guards of the pipeline compare one row with what one
process remembers of it, so one event with two contenders of each kind meets
every race of two. Two disruptions let a failure meet the recovery from another one
(a crash after a lost answer). The retry message on the second partition gives two
dispatchers the same event with nothing failing. A budget of two allows a requeue
before the last claim. A second event matters where messages queue behind each other,
which is what `NoMessageSkipped` is proved for, and where one of them never gets
through: `settles` has one event that does and one that does not, and a crash hands
the partition to the other instance. It has no replay, which multiplies the states by
five: a replay leaves the row as a failed delivery does (RETRYING and due, its message
published or lost), from where the worker and the sweep take it as they take any other. `MaxSystem` (how often
the platform publishes an event) is one because redelivery already repeats the
message. `Requests` bounds replays, `MaxMalformed` malformed messages. Deadlock is not
checked: with these bounds every system stops once nobody asks for anything.
Symmetry of instances and requests is used in the safety runs only.

In `webhook_cycle` the statuses are one of each class the loop tells apart (a
success, a client error, a retryable client error, a server error). Three calls have a
first, a middle and a last, and a cap of 2 on a pause whose window starts at a base of
5 binds from the first pause on. The addresses are the neighbours of every limit a
guard compares with, the ports those of every range.

In `self_service` two events are a page and a rest, with one date for both, which
leaves the order to the id; pages of one put the boundary between them. Two attempts
are one that fails and one that settles. Conversations do not write, so one is enough
beside the pipeline. In `monitor` four results, one of
them unreadable, and a rejoin that repeats some overflow a feed of three, which is one row
more than a dashboard shows; two asks are a first snapshot and another one that may
cross it; the filter excludes one client and meets the two that differ in what
page and service make of it. Tokens are kept for 2 and valid for 4, calls take up to
1, so a token is used, refreshed and used again in 6 ticks. In `demo`, what is
independent is not multiplied: which of the three parts moves is chosen at first. Two
creations and a deactivation meet every race of look-up and upsert on one row, two
event types are a batch with a beginning and a rest, two clients a foreign deletion
and a run with more than one request. Within the two runs no statement fails
(`RunsAlone`); the clients' part has those failures.

Runs that show where documents and code part (each is `expect: violation`, and a
finding quotes the text; `unknown_secret` is a run of `MCSubscriptions`, the others are
of `MCDelivery`):

| run | claim | what happens |
| --- | --- | --- |
| `failed_record` | a failed RecordOutcome is reprocessed | the in-place retry finds DELIVERING, skips, and the offset is committed; only the sweep brings the event back, and delivers it a second time |
| `lost_replay` | an accepted replay takes place | the budget is still spent: the worker may declare the event failed again before the replay message is read |
| `slow_dispatch` | DELIVERED is terminal | a dispatcher slower than the cutoff overwrites another's outcome: its UPDATE is guarded by the id alone |
| `partitioners` | one client's messages land on one partition | two hash functions: two dispatchers work on one client's event at once, with nothing failing |
| `unknown_secret` | each subscription's secret is returned once | a batch that conflicts on its second event type leaves the first active, with a secret in no answer |

Seen while modelling, without a run of their own (the modules say what the code
does, so the behaviour is in them):

- *A message the table refuses.* `consumer.go:117` says of a message that "will never
  succeed, no matter how often it is retried" that "blocking the partition on it would
  stall every other client's notifications, so it goes to the dead letter queue". Only
  what `decode` refuses goes there, and `decode` (line 218) and `NewNotificationEvent`
  look for missing fields alone. A message whose id, client or type is longer than its
  VARCHAR(100), or whose payload holds `\u0000`, which JSONB does not take, decodes and
  is refused by the INSERT each time; the loop at `consumer.go:146` repeats it in place
  for ever, and nothing behind it on the partition is read. In the models these are the
  events of `Refused`. Without its exception `PartitionsDrain` is violated as soon as
  `Refused` is not empty, with nothing failing; with it, it says that this is all that
  blocks a partition.
- *The next n deliveries.* `webhook-server.ts:12` says that after `{"failNext": 3}` "the
  next 3 deliveries return 500", and line 62 of the demo tools' README says the same of
  20. A delivery whose URL names a status (`?status=200`) counts `failNext` down
  (line 157) and is answered with its own status all the same (line 160), so that many
  fewer are answered 500. `FailuresAsAsked` says so: it is about the statuses answered,
  in the order of the deliveries, and names this exception.
- *One retry fewer.* `retry_policy.go:21` calls `MaxAttempts` "the total number of
  asynchronous retries". `ClaimDue` counts before `IsExhausted` compares with `>=`,
  so an event is requeued `MaxAttempts - 1` times. `RetryBudget` states the bound
  with `<`.
- *FAILED from the dispatch service.* `docs/diagrams/02-lifecycle.md` has
  `DELIVERING --> FAILED : no active subscription`, and the code does this; the
  README of the retry service (line 16) says that "the dispatcher never writes it".
- *An id in no row.* `subscription-repository.ts:28` keeps the row's id on
  conflict, while the 201 carries the id the request generated. After a
  deactivation and a new subscription, DELETE of the returned id answers 404.
- *A 201 for nothing.* `create-subscription.ts:39` checks the length of the list
  before `dedupe` drops its blanks, so a list of blanks is answered 201 with an
  empty list.
- *Slow webhooks.* `sender.go:35` promises retries of transient failures in place;
  `retryableError` (line 204) refuses every `DeadlineExceeded`, and all time limits
  of net/http are. A slow webhook is only retried by the retry service.
- *Expected errors.* `sender.go:102` retries 408, 429 and 5xx without looking at
  the subscription's `expected_status`, which may be one of them
  (`docs/api/openapi.yaml:179`: delivery is judged against it). Such a client takes
  every event `MaxAttempts` times with nothing failing; `CycleIsSend` leaves these
  subscriptions out and says so.
- *A URL is judged in another form than it is stored in.* The subscription service
  judges what `new URL()` makes of a string and stores the string
  (`create-subscription.ts`), which `url.Parse` reads differently in corner cases (an
  address in octal, a tab in the middle). The models leave open what becomes of such
  a URL; `RegisteredIsDeliverable` is about the others.
- *Two guards, one way.* `webhook-url-guard.ts:17` says that the dispatcher "runs the
  same checks again". `RegisteredIsDeliverable` shows that it refuses nothing that could
  be registered. The converse is not stated and does not hold: the registration's guard
  refuses 0.0.0.0/8, 240.0.0.0/4 and the IPv4-compatible form (`::a.b.c.d`) of what it
  refuses as an IPv4 address; of these the dispatch service's refuses only 0.0.0.0 and
  255.255.255.255. The operators of `WebhookGuards` say so.
- *A body the table refuses.* `normaliseBody` (`sender.go:226`) keeps a response body that
  is valid JSON as it is, and one with `\u0000` in a string is refused by the JSONB column
  of the attempts. RecordOutcome then fails each time the event is delivered, until the
  budget is spent and the retry service declares it failed. In the models each such
  failure is a disruption of the store, and they are finite.
- *A list filtered by state.* Pages are offsets, and the pipeline moves rows in and out
  of such a filter, so a walk may miss rows that match all along. `WalkMissesNothing`
  is about the other filters.
- *Two adapters.* `file-event-repository.ts:26` says that every endpoint answers
  identically. Its states and statuses are those of the seeded tables, but it reports a
  `retry_count` of 0 for a failed event, for which the seeder writes the spent budget
  (`simulate.ts:294`); of a pending event it would make up a FAILED attempt, the seeder
  a SUCCESS.
- *A limit of zero.* `/api/deliveries?limit=0` answers with the whole feed:
  `slice(-0)` is `slice(0)`. The page never asks for it.
- *No snapshot after a reconnection.* The page loads nothing when EventSource comes
  back, so results in between are missing until the filter changes; and an answer that
  arrives late replaces the rows that came in after it was made.
  `DashboardIsComplete` names exactly these windows.
- *Rows of other clients.* The page keeps live rows of every client whose id the typed
  text occurs in, and `MAX_ROWS` in all, while the snapshot was of the one client with
  that id. Rows of the others can therefore push rows of that client off the page that
  a new snapshot would show again. An earlier form of `DashboardIsComplete` denied this;
  its proof failed, and TLC showed why as soon as the feed was longer than a page. The
  property now names the number of rows it takes.
- *Secrets of a run that breaks off.* When subscribe-all throws, the secrets of the
  clients before are never handed over; a second run is answered 409 for them, which
  it counts as having existed. `RunAccountsForAll` is about runs that end. The same goes
  for a run whose hand-over the receiver refuses (`simulate.ts:199`), or that has no URL
  of the receiver: it ends as others do, and the only sign is
  `secretsHandedToReceiver: 0`.

For every property of a passing run, `PROJECT.json` names a mutant: a plausible
mistake in a modelled definition (a dropped guard, a wrong number, a missing
reset) that makes TLC find the property violated. The mutated operators stand next
to the definitions they replace, introduced by "A mistake in".

### Fairness

`settles` and `lost_replay` assume weak fairness of each
running process: of a dispatcher's own steps, of a worker's own steps, of a request in
progress, and of time. The loops of `consumer.go` and `cmd/retry/main.go` never stop by
themselves and containers restart (`restart: unless-stopped` in
`docker-compose.yml`), so a process that can take a step takes one. Neither the
platform nor a client is obliged to act, no disruption is fair, and disruptions
are finite: what is shown is recovery after the last one. Weak fairness of a
worker as a whole suffices because each of its cycles is finite.

`self_service` and `monitor` assume weak fairness of the shutdown alone: the callback
of `server.close` once nothing is open, the exits after it, and the timers set in
`shutdown` (15 s and 10 s). Node runs a callback that is due and a timer that has
expired; a timer that is `unref`'d fires as long as something else keeps the process
alive, which is when it is needed. Nothing obliges a statement to return, a client to
go on or a dashboard to be closed.

## 4. The proofs

`DeliveryProofs`: `TypeCorrect`, `Spec => []TypeOK`. `TypeOK` is not inductive:
reading a message through an offset needs the offset to be in the log, and being
about an event needs the poison check to have been passed. `HandlerOK` says so,
and `TypeInv == TypeOK /\ HandlerOK` is inductive.

The rest of `DeliveryProofs` is under `~SlowDispatch` (the `slow_dispatch` run shows that
the condition is needed):

- `DeliveryIsExclusive`. The invariant is `ExclInv`: exclusivity and, for a
  handler about to claim, that the state it holds is one the claim is meant for
  (a compare-and-set from DELIVERING would let a second owner in). The step lemma
  `ExclusiveStep` reduces every action to two questions: does the handler own
  only what it owned or has just claimed, and does it leave what others deliver
  alone. `StatementEffects` and `BatchEffects` say what each SQL statement does to
  the states, `StepKinds` that a step is one handler's or a bystander's.
- `DeliveryRefinesLifecycle`. Adds `CountInv`: a worker's remembered retry count
  is at most the row's (so giving up means that the row's budget is spent), and an
  absent row counts none. Every statement then maps to one action of `Lifecycle`
  or to a stutter (`LifeHandle`, `LifeBystander`).
- `DeliveredStaysDelivered` and `AuditTrailHolds` follow from the steps of
  `Lifecycle`, which is what the refinement is for.

`ConsumerProofs`: `NoMessageIsSkipped`, without a condition on slow deliveries.
`NoMessageSkipped` alone is not inductive, because a partition may get commits from
its old and its new owner in any order. `ConsumerInv` adds what each handler has behind
it from the moment it fetches (`BehindOK`), what it knows of its event on the way to
its commit (`StageOK`), and that everything the owner has fetched is dealt with but for
the message it is at (`PositionInv`). `Handled` is never taken back, whatever the
sweep, the retry service or a replay do to the row.

Also in `ConsumerProofs`: `ResultsAreOnRecord` (the audit trail only grows, and a handler about
to announce holds the number and status of an attempt in it, `NumberOK`) and, under
`~SlowDispatch`, `DuplicatesArePaidFor`. Its invariant `PaidInv` gives an event one
acceptance more than there were disruptions only while the event is DELIVERED or a
dispatcher carries the success to the record; exclusivity then says that nobody else
can add another one, and a lost or interrupted success has counted a disruption.

`RetryProofs`: `RetriesAreBudgeted` and `ScheduledIsPublished`. What is on the topic is
counted by no variable, so `BudgetInv` weighs it, together with the workers that may
still publish (`Waiting`), against the retries the row has counted: a claim past the
limit leads to no requeue. `TaskInv` says that a worker about to schedule has published.

The theorems about delivery hold for any sets of events, partitions, instances and
requests, any partition functions, budgets, batch sizes and disruptions, from the
assumptions named in the modules (`TopicsAssumption`, `DispatcherAssumption`,
`RetryWorkerAssumption`, `DeliveryAssumption`), and whichever events the table refuses.

`EventQueriesProofs` (any events, clients, filters, page sizes and conversations, from
`FixtureAssumption` and `QueriesAssumption`): `QueriesTypeCorrect`,
`OwnEventsOnlyHolds`, `DetailIsExplainedHolds`, `PoolOutlivesRequestsHolds`. `TablesInv`
says what any implementation of `Lifecycle` keeps true of the tables, that the log of
a delivered event ends with the success; `RequestInv` what a conversation knows
between its two statements: the log has only grown, and not after a success.
`PageIsAlwaysWithinTotal` and `WalkAlwaysMissesNothing` rest on `WalksInv`, for lists
without a state filter: the rows counted are still there when the page is read
(`CountedInv`), so the page is as full as the total says (`ShownInv`); and an event
there at the start is shown already or has at least as many rows before it as the pages
shown hold (`PassedInv`), so it is never left behind the offset. Rows that come in only
add to those before it, and the ids make the order strict. When a walk ends, every row
counted is before the end of its last page.

`SubscriptionsProofs` (any clients, event types, requests and batch size, from
`SubscriptionsAssumption`): `SubscriptionsTypeCorrect`, `OnlyOverlapsDuplicate`,
`RejectedWroteNothing`, `NoConflictWithItself`. `RequestOK` keeps what is left of a
batch free of repetitions and apart from what was saved, which is all that a
conflict with oneself needs. `LiveInv` says that the row of a live creation is
active and that a creation has passed the event types it wrote; `FoundInv` that a
request about to save saw no live creation of that row when it arrived, because its
look-up found none. Together with the upsert they give `DuplicatesOverlap`.
`UnwrittenInv` says that a request that has not passed `Validate` is in no row.

`WebhookSenderProofs` (any statuses, attempts, times, URLs and addresses, from
`OptionsAssumption` and `SenderAssumption`): `SenderTypeCorrect`, `CycleIsSendHolds`,
`CycleBound`, `RegisteredIsDeliverableHolds`. `CounterOK` bounds the calls,
`AcceptanceInv` says that while the cycle goes on every acceptance was lost,
`TimeInv` keeps room for the pause that is still to come.

`GuardsAgree` compares the two guards rule by rule, for every port and every
address; `GuardInv` says that as long as the name has not moved the addresses are those
the registration passed.

`MonitorProofs` (any clients, results, filters, capacities, limits, dashboards and
disruptions, from `MonitorAssumption` and `OperatorAssumption`). `MonitorInv` is about
three stretches of one sequence, the results in the order they were handled: the feed is
its end (`FeedInv`), the frames on their way to a dashboard are its end too
(`StreamInv`), and what the stream has shown lies before them. An answered snapshot that
nothing has overtaken holds each of the latest rows of its clients that the stream has
shown (`AskInv`); a page made from one holds them too, each no further down than the
limit and the rows shown after it, unless enough rows of others came to push it off
(`PageInv`, `Placed`); while snapshots have not crossed there is one at most, and it is
for the filter (`MatchInv`). From this `FeedIsAlwaysWindow`, `RowsAlwaysMatchFilter`
and `DashboardIsAlwaysComplete`. `LatencyIsAlwaysPercentile` needs of the invariant only
that the feed holds handled results; its argument is that of a sort: `Before` is a
strict total order, so ranks are a bijection onto `0..n-1` (`Ranks`), so the durations are
in order and the k-th has at most `k - 1` times below it and at least `k` not above
(`SortedTimes`), so the place `percentile` takes divides them (`PercentilePlace`).
For the replay button, `OperatorInv` carries the age of a call: a token asked for is the
client's of the row, and one in the cache or in a call outlasts the calls still to come.
`TokenTtl` is not zero (`TOKEN_TTL_MS`). `MCMonitor` says whose steps are taken when, so
`ServiceTypeCorrect` combines both.

`DemoProofs` (any clients, event types, runs, deliveries, other requests and failing
statements, from `SubscriptionsAssumption` and `DemoAssumption`). The latter says of the
sample what the repository's fixture satisfies: there is a client, no client twice, each
asks for one to `MaxBatch` event types (the most the schema of POST /subscriptions
takes), none twice; and that no two runs share a creation. `DemoInv` includes the type
invariant of `Subscriptions` and its own parts.

- `DemoImplementsSubscriptions`: DemoSpec implies the specification of `Subscriptions`,
  step by step: a request of a run is one that a client might send. `DemoKeepsPromises`
  carries over what was proved there.
- `RunAlwaysAccountsForAll`. `BatchInv` divides the event types of a request into
  written and to come, `TurnsInv` says that nothing was sent for clients whose turn has
  not come, `CountsInv` that the counters are the cardinalities for the clients passed,
  `EndInv` that a run that says it handed secrets over handed over all it was given, and
  `UnhandedInv` that the receiver has none of a run that says it did not: none could be
  there before the end (`SecretsInv`), and another run hands over its own. The property
  states the counts as cardinalities of sets, not as sums over a sequence.
- `HandedIsAlwaysVerified`. `SecretsInv`: what the receiver keeps came from runs that are
  over, a whole batch at a time. `DataInv`: a row that a request of a run wrote is of the
  request's client. `RivalsInv`: runs under way together are rivals. `OverlapInv`: a run
  under way that wrote a row before the present writer did is its rival, or the writer
  was over before it could hand anything over. So when a later handover replaces the
  secret of the present writer it comes from a rival (`ReplacedInv`).
- `FailuresAreAsAsked`. `FailInv`: the failures left are those asked for less the calls
  answered since the order, and an answered call stays as it is, so the k-th call answered
  was answered 500 exactly if the order was for k at least, or with the status of its URL.

The provers cannot use the library's induction theorems; where a proof goes over data
(the filtered feed, the end of a sequence), a lemma gives induction on the members of a
set of numbers instead, proved from well-foundedness, and the proof names the set of
numbers its claim holds for.

Only model-checked: the liveness properties `EventuallySettled`, `PartitionsDrain`,
`ShutdownCompletes` and `MonitorStops`, since fairness is out of the prover's reach. Every
invariant and action property of a passing run is a theorem for every value of the
constants; the runs with an expected violation have counterexamples, not proofs.

## 5. What is not modelled

- Listing and resolving subscriptions only read; resolving is `Dispatcher`'s choice
  between a subscription, none and an error, since the two modules share no event.
- Payloads, signatures, headers, JSON shapes, claims of tokens, metrics and logs: no
  decision about an event's state reads them. The window of the rate limit is a choice.
- The delay policy of the retry service: a delay is any time in the models. The
  formula is floating-point arithmetic without state.
- Parsing of URLs as text: `WebhookGuards` starts from what the parsers yield.
- Kafka's retention, replication and group protocol: external, reduced to logs,
  commits and reassignment. The same goes for EventSource, DNS and net/http.
- Clock values in the pipeline: delays and windows may lapse at any time. Only
  `OperatorReplay` has a clock, and `WebhookSender` adds up times.
- A batch of the poller is atomic, as its single UPDATE is; the order in which it
  works through the batch is left open.
- Graceful shutdown of the Go services is a crash at a point where the handler has
  finished, hence covered by `Crash`.
- A second SIGTERM, which closes the pool twice: the process is ending anyway.
- Seeding beside a running pipeline (it overwrites rows and leaves their attempts): the
  seeded tables are an initial state of `EventQueries`.
- The receiver's list of received calls, the command-line wrappers of the demo tools,
  the summary tiles and the layout of the dashboard: nothing decides on them.
- Configuration: the values decisions read are constants.

## 6. Plan

Written, in this order: `Domain`, `EventStore`, `Topics`, `Dispatcher`,
`RetryWorker`, `ReplayApi`, `Delivery`, `Lifecycle`, `Guarantees`, `MCDelivery`,
`DeliveryProofs`, `Subscriptions`, `MCSubscriptions`,
`SubscriptionsProofs`, `WebhookSender`, `MCWebhookSender`, `WebhookSenderProofs`,
`Fixture`, `EventQueries`, `MCEventQueries`, `EventQueriesProofs`, `Monitor`,
`OperatorReplay`, `MCMonitor`, `WebhookGuards`, `DemoTools`, `MCDemoTools`,
`ConsumerProofs`, `RetryProofs`, `MonitorProofs`, `DemoProofs`.

What would come next: an abstract specification of the monitor's feed and page (a window
and the latest rows of a client) that `Monitor` is shown to implement; the pipeline
beside the conversations of `EventQueries` in one module, so that the refinement of
`Lifecycle` is used and not only cited; and the seeding of a table the pipeline works on.
