# Realtime tracking and dispatch: verification project

TLA+ specifications of the services in this repository, the TLC configurations
that check them on small instances, and TLAPS proofs of the properties that
matter most. Paths below are relative to `src/services/` unless they start
with `docs/` or `.kiro/`.

## 1. Inventory

Riders request rides over HTTP, drivers post GPS pings over HTTP, and services
talk over two Kafka topics, `ride-events` (keyed by trip id) and `gps-pings`
(keyed by driver id). There is no transaction that spans a database and a topic
and no outbox: that gap is where most of the hard behaviour is.

| Part | State it keeps | Operations | Talks to |
|---|---|---|---|
| Dispatch, ride requests (`dispatch/.../DispatchService`, `RideController`) | the `trips` table, the Kafka producer's accumulator | `requestRide`: insert a row and send `TripRequested` in one database transaction, then 202 | publishes on `ride-events` |
| Dispatch, ride-events listener (`RideEventsConsumer`, `assignDriver`, `KafkaConsumerConfig`) | the group's committed offsets, the deserializer's schema cache | per record: skip, or pick a driver, update the row and send `TripAssigned` in one transaction; commit the offset record by record; any exception is retried for ever with back-off | reads and publishes `ride-events` |
| Dispatch, driver selection (`HardcodedDriverSelectionStrategy`) | an `AtomicInteger` | `selectDriver` | called by `assignDriver` |
| Dispatch, trip state machine (`TripStatus`, `Trip`) | a row's status | `assertCanTransitionTo` | called by `assignDriver` |
| Dispatch, gps-pings listener (`LocationPingConsumer`) | a consumer group's committed offsets, the deserializer's schema cache | per record: log at debug level, catch whatever is thrown, commit the offset | reads `gps-pings` |
| Notification (`notification/consumer/worker.go`, `main.go`) | read positions, committed offsets, srclient's cache, stop channel | `main`: set up tracer, consumer and registry client or exit; then one goroutine: read, process (log a notification, skip, or warn), commit | reads `ride-events` |
| Gateway, sessions (`gateway/session/registry.go`, `handler/websocket.go`) | map rider -> connection under an `RWMutex`; one goroutine per connection | `Register`, `Unregister`, `Send`, `Count`; `ServeHTTP` | WebSocket clients, the worker |
| Gateway, worker (`gateway/consumer/worker.go`) | as Notification's | as Notification's, with a push through `Registry.Send` as the processing | reads `ride-events` |
| Ingest (`ingest/handler`, `ingest/kafka`, `main.go`) | `Producer.schema`, librdkafka's queue | `POST /location`: decode, validate, register the schema once, produce, wait for the delivery report, answer; graceful shutdown | publishes on `gps-pings` |
| Rider UI (`rider-ui/src/App.tsx`, `api.ts`) | the page's state: idle, loading, success, error | `handleRequestRide`: one fetch at a time, its answer or error shown | posts to Dispatch |
| Driver simulator, scripts | route index | one post after the other with a 5 s timeout | posts to Ingest |
| Envelope validator (not called by any service), configuration, health, metrics, tracing, OpenAPI | none | | |
| Tracking (`tracking/`) | | directory without code | |

What is hard in it, and what being correct means:

* **Dispatch.** A request thread, the producer's sender thread and the listener
  thread run concurrently and any of them can fail between two effects that
  belong together. A record can be read before its row is visible; an
  announcement survives the rollback of its transaction; a crash or a lost
  reply brings records back. Correct means: a 202 is durable; an offset commit
  gives up no trip; the topic and the table agree in the end; readers see
  requests before assignments; every accepted trip is assigned; no partition
  stops.
* **Driver selection.** The counter overflows. Correct means: never an index
  outside the list (which would fail every later assignment), and fairness.
* **Workers.** Manual commits that may fail, rebalances, restarts, a stop
  signal at any time, starts that fail while a dependency is down. Correct means
  at-least-once, in order, and that Stop returns without dropping the message in
  hand.
* **Gateway sessions.** Two handlers of one rider and the worker race on one
  map entry, and the worker writes outside the lock. Correct means: it never
  writes to a connection that was given up as current, no client can hold it
  up for ever, who leaves is forgotten, who is connected is registered.
* **Ingest.** Handlers outlive their clients and their write deadlines; the
  queue is bounded; shutdown may be orderly or forced. Correct means: statuses
  tell the truth about the topic, a driver's pings keep their order, no
  request hangs, an orderly stop loses nothing, and what was accepted reaches the
  listener at the other end of the topic.
* **The whole ride.** The rider's page, Dispatch and a worker each fail and retry
  on their own and share only an HTTP answer and a log. Correct means: an id on
  the screen is a row, a page never hangs and never runs two requests at once
  without knowing it, and a rider who was answered 202 ends up told of the driver
  in the table.

The `hazards` list of `PROJECT.json` has one entry per line of code where such a
thing can go wrong, with the properties that watch it.

## 2. Modules

| Module | Models | Role |
|---|---|---|
| `JavaRoundRobin` | the arithmetic of `selectDriver`: wrap at an int's width, Java's remainder, `Math.abs` | operators |
| `DriverSelection` | successive picks of a JVM lifetime, restarts | component |
| `TripLifecycle` | `TripStatus` over the `trips` table | abstract specification |
| `RideEvents` | what the `ride-events` topic promises about each trip | abstract specification |
| `Dispatch` | request threads, producer, listener, crashes; uses `JavaRoundRobin`, implements `TripLifecycle` and `RideEvents` | component, the core |
| `EventWorker` | start, run loop and stop of the Go workers over any topic that grows | component |
| `RidePipeline` | `Dispatch` writing and the notification service's `EventWorker` reading one log | composition |
| `RiderApp` | the rider's page over `RidePipeline` | component and composition, end to end |
| `GatewaySessions` | registry, `ServeHTTP`, `Send`, clients | component, part of `GatewayPush` |
| `GatewayPush` | the gateway process: `EventWorker`'s loop with `Registry.Send` over `GatewaySessions`, start, stop, crash | composition, implements `EventWorker` |
| `LocationIngest` | start, `POST /location`, the producer, shutdown, drivers' clients | component |
| `LocationFeed` | `LocationIngest` writing and Dispatch's gps-pings listener reading | component and composition |
| `MC*` | constants for TLC | |
| `*Proofs` | theorems | |

How state and actions correspond to the code:

**Dispatch.** `trips` is what committed transactions left in the table. A request
thread goes `idle -> sent -> committed -> accepted`: `RequestRide` is the body
(`save` only queues the INSERT, `send` only buffers), `CommitRequest` the
transaction interceptor around it, `ReplyAccepted` the controller. `buffer` is
the producer's accumulator and `log` the partition; `Deliver` is the sender
thread. The listener is `pc`: `Poll`, then one of `SkipOtherType`,
`TripNotFound`, `InvalidTransition`, `AssignDriver`; then `CommitAssignment` and
`Ack`. Each step that can throw has a `...Throws` action, and an exception takes
the listener `BackToPoll`, with the record still uncommitted: that is what
`DefaultErrorHandler` with an unlimited `ExponentialBackOff` does. A record whose
row was rolled back, or is already assigned, is retried for ever and holds its
partition up (`Blocked`). The exception to it is `PollUndecodable`: a `DeserializationException` is fatal to the
handler, so the record is logged and its offset committed. `Crash` empties
everything that lives in the JVM. `StoryOf` is the refinement mapping to
`RideEvents`: where in the log a trip is spoken of, and with which driver.

**EventWorker.** `stage` is the goroutine's place in `run`, or `starting` while
`main` sets up what the worker needs; `StartFails` is an exit of `main`, after
which the container is started again. `log` is the topic, to which
`Publish` adds any record; `KindOf` is what `processMessage` makes of it.
`position` is
librdkafka's read position and `committed` the group's offset, which are
different things: a failed commit moves neither (`CommitMessageFails`), while a
restart or a rebalance goes back to the committed offset (`Rewind`).
`processMessage` is one of `Notify`, `Skip`, `Drop`. It is written from the
notification service; the gateway's loop is the same code with another
`processMessage`.

**RidePipeline** has the variables of `Dispatch` and those of one `EventWorker`
over Dispatch's `log`. A step is one of the two services'; `told` is the driver
of the last notification of each trip, which is what `HandleTripAssigned` logs.

**RiderApp.** `screen` is `AppState` of `App.tsx`, `presses` counts the calls of
`handleRequestRide`, of which each posts once. `ShowTrip`, `ShowError` and
`Abandon` are the ends of the awaited `requestRide` of `api.ts`: an ok status, a
status that is not ok, and a rejection, of which the page cannot tell how far
its request came. A request thread of `Dispatch` starts only with a POST that
was made.

**GatewaySessions.** `handler[c]` is the place in `ServeHTTP` of the connection's
goroutine; each critical section of the mutex is one step. `Lookup` is the locked
half of `Send`, `WriteReturns` the end of `WriteMessage` outside the lock.
`client[c]` is the other end of the connection: reading, stalled or gone. A
client that stalls keeps the write blocked until its handler closes the
connection.

**GatewayPush** has the variables of both parts and makes each step from theirs:
an event for a rider without a session is one step (`NotConnected`), a write is
two (`BeginWrite`, `EndWrite`), and between them the handlers, the clients and
SIGTERM go on. `server` is where `main` stands: the worker is set up (`Start`, or
`StartFails`) and started before the server listens, and `Stop` returns before the server is shut down. `Exit` and
`Crash` end every connection (`LoseConnections`); nothing of the registry outlives
the process, the offsets do. `frames` is a history of what each connection was
sent, with the rewinds so far and whether the connection was still its rider's.

**LocationIngest.** `handler[r]` is the place of request `r` in `ServeHTTP` and
`Publish`; `queue` is librdkafka's queue and `report` the delivery report on the
request's own channel. A record is refused, delivered, rejected, or expires; in
the last case it may have been stored. `late` holds the requests whose
connection is past `WriteTimeout`: their answer is written to nobody. `schema` is
the unsynchronised field `Producer.schema`: a handler may see nil after another
one has set it (the outcomes of the data race that a pointer-sized write allows).
`server` goes from `starting` to `serving`; `StartFails` is an exit of `main`.
`Exit` is `Shutdown` returning nil followed by `Close`; `ShutdownFails` is the
`log.Fatalf` that skips `Close`.

**LocationFeed.** `listener` is the thread of the gps-pings container: `Poll`,
`OnMessage` (which catches everything it throws), `Ack`. `offset` is its group's
offset, `known` the deserializer's cache; only decoding, the commit and the
process can fail (`PollUndecodable`, `AckThrows`, `DispatchCrash`).

## 3. Runs

| Run | What it shows | Bounds |
|---|---|---|
| `driver_selection` | picks stay in range, never repeat at once, starve nobody | 8-bit counter, complete: 128 and 2^31 leave the same remainder modulo 3, so the wrap meets the same picks. Around it three picks are not three drivers, four are |
| `dispatch_faults` | `AcceptedIsDurable`, `RequestedBeforeAssigned`, `AckedIsAssigned`, `AssignedIsAnnounced`, `AnnouncementsAreAttempts`; `TripLifecycle` (`TripsFollowLifecycle`) and `RideEvents` (`ImplementsRideEvents`) as properties | two trips that share one of two partitions, up to three failures of all eight kinds in any order |
| `ride_app` | end to end: `ShownIsDurable`, `OneAtATime`, `LoadingEnds` of the page; `PartitionsDrain` of Dispatch; `RiderKnowsDriver`, `AcceptedIsTold` of the whole ride | two presses for trips on two partitions; one failure out of a request's or an assignment's rollback, a commit whose answer is lost, a lost record, a rejected fetch; and one rebalance of the worker |
| `dispatch_wedge` (violation) | a record reprocessed after a crash blocks its partition for ever | one crash |
| `dispatch_ghost_assignment` (violation) | `TripAssigned` is on the topic although the write failed | one failed commit |
| `gateway_reconnect` (violation) | a reconnected rider is not in the registry | a rider with two connections and a rider with one, any number of pushes |
| `gateway_read_loop` (violation) | the read loop ends while the client is still there | same |
| `gateway_push` | `RegisteredIsOpen`, `PushesInOrder`, `StaleGetsAtMostOne`, and `EventWorker` as a property (`ImplementsWorker`) | a rider with two connections, three records on a partition, two of failed commit, rebalance, crash, stop |
| `gateway_push_live` | `EveryRecordIsOffered`, `LeaversAreForgotten`, `StopEnds` | two riders on two partitions, one connection that may stall, two of six failures, failed starts included |
| `event_worker` | `CommittedIsSettled`, `NoOvertaking`, `RepeatsAreRewinds`, `StoppedIsSettled`, `StopReturns`, `PublishedIsSettled` | every topic of up to two records on one partition and one on another, of the three kinds, growing while it is read; up to three of failed start, failed commit, rebalance, crash, registry failure, stop |
| `location_feed` | `ReplyTellsTopic`, `OrderUnlessGivenUp`, `CleanExitIsComplete`, `PostEnds` of the ingest service; `CommittedIsReceived`, `AcceptedIsReceived` of the ping's whole way | a driver with two pings, a queue of one, three failures out of six of the ingest service and three of the listener |
| `ingest_unavailable` (violation) | the 503 for an unavailable topic reaches nobody | one expired record |

Each passing run also checks one type invariant, `TypeOK`, `AppTypeOK` or
`FeedTypeOK`; the last two include those of the parts.

Why the bounds are enough. Trips interact only through a shared partition, the
counter and the schema cache, so two trips on one partition show each of them
blocking, overtaking or confusing the other; the second partition is there so
that an unkeyed send has somewhere to go wrong. Three failures let a second
attempt and the recovery from it fail too. In `ride_app` the question is what one
failure anywhere does to everybody else, for ever: the second trip is on a
partition of its own because that is the promise (a blocked partition stops
nobody but itself), and the rebalance makes the reader repeat itself across the
failure of the writer. Two presses are what it takes for a given-up request to
run beside its successor. The failures of Dispatch that `ride_app` leaves out
(a crash, a registry failure, an offset commit) are in `dispatch_faults`, for
safety. In `event_worker` two records on a partition are
what it takes for a commit to cover an earlier failed one; the third is read in
between. In `location_feed` two overlapping requests of one driver are what
order can be lost between, and they fill a queue of one. Connections of different
riders share nothing but the one worker. In `gateway_push` two failures are what
it takes to send a connection an event again (a failed commit, then a
rebalance), and two connections of a rider are what it takes to replace one
under a write; `gateway_push_live` keeps only what a stalled client can hold up:
another rider's event, its own handler, and the stop. `MaxInt`, `MaxFaults`,
`MaxWorkerFaults`, `QueueMax`, `PingsOf`, `TripIds`, `Capacity` and `Topic` are
the bounds that stand in guards; nothing else is cut off. In `RidePipeline`
`Capacity` is computed from the trips and the failures, and the type invariant shows
that the topic never needs more. Every run checks for deadlock; where the
environment of a run is finite, `Idle` says so explicitly (everything answered,
everything read), so any other stop is an error.

### Fairness

* *Dispatch.* Weak fairness of a request thread that has started, of the sender
  and of the listener's handling: they are threads that the JVM schedules. Strong
  fairness of reading each partition: the fetcher drains assigned partitions in
  turn, so an unread partition is not passed over for ever while retries on
  another keep seeking back. No fairness for the arrival of requests.
* *RiderApp.* Both sides of the pipeline as above and below. A POST arrives as
  long as the page waits for it, and the browser settles a fetch that has an
  answer. The rider owes nothing.
* *EventWorker.* Weak fairness of the goroutine; strong fairness of the read that
  finds a message: `ReadMessage` may return nothing any number of times, but
  librdkafka serves fetched partitions in turn.
* *GatewayPush.* As `EventWorker`; weak fairness of a connection's handler, of the
  expiry of a deadline that nobody prolongs, and of `main` once `Stop` returns; a
  write returns when its peer takes it or its connection is closed. Clients owe
  nothing: they may stall for ever. `KeepsAlive` is empty in the runs: a client
  that sends pongs unasked would prolong the deadline and can hold the worker up,
  which no browser does.
* *LocationIngest.* Weak fairness of each handler and of each partition's next
  report: a record is delivered or expires. Clients owe nothing.
* *LocationFeed.* In addition weak fairness of the listener's thread and strong
  fairness of reading each partition, as for Dispatch's other listener.

A failure is never forced to happen and the number of failures is bounded, so a
liveness property says what becomes of a behaviour after its last failure.

### Findings

Five properties state what a document, a comment or a test says, and the code does
something else. `PROJECT.json` quotes the lines.

1. A `TripRequested` processed again after a restart does not produce a second
   `TripAssigned`, as ADR 003 has it, but an exception that is retried for ever.
2. `TripAssigned` is published although the database write fails.
3. `Unregister` by rider id removes the session of a rider who has reconnected.
4. Without pings, the read loop ends after sixty seconds under a live client.
5. The 503 for an unavailable `gps-pings` is written minutes after the write
   deadline of its connection.

## 4. Proofs

TLAPS proves the following for all values of the constants, under the named
assumptions of the modules (the listed failures, any number of them, any
partitioning function). Temporal steps are PTL; everything else is SMT and Zenon.

* `DriverSelectionProofs`: `PickInRange`, `NoImmediateRepeat`, `NoDriverStarves`
  for every counter width with `MaxInt % 3 = 1`, the JVM's included. The
  inductive invariant ties the window of recent picks to the counter
  (`PicksFollowCounter`): picks are the picks of the last counter values, and a
  window has no holes. The theorem then is a statement about four consecutive
  counter values, split at the wrap. `JavaRoundRobinProofs` has the arithmetic.
* `DispatchProofs`: `TypeOK`, `AcceptedIsDurable`, `AckedIsAssigned`,
  `RequestedBeforeAssigned`, and `LifecycleRefinement` (every step of `Dispatch`
  is a step of `TripLifecycle` or leaves the table alone).
  *Row invariant:* `RowInv` is `TypeOK`, `RowsFollowRequests` (where the request
  thread stands says what its row can be), `ListenerKnowsRow` (inside an open
  assignment, and between its commit and the offset's, the row of the record in
  hand is REQUESTED or ASSIGNED) and `AckedIsAssigned`. Without the second,
  `CommitRequest` could overwrite an assigned row; without the third, `Ack` could
  commit a record whose trip is not assigned.
  *Order invariant:* `RecordsWellPlaced` (records stand on their key's partition),
  `BufferedWasRequested` (a buffered assignment's request is in the log already)
  and `RequestedBeforeAssigned`.
* `RideEventsProofs`: `StoryRefinement`, Dispatch implements `RideEvents`. The
  only step that tells readers anything is `Deliver`. That it tells them the right
  thing rests on the order invariant and on `StoryFacts`: a trip whose request
  has not arrived has no record anywhere, and a `TripRequested` that waits in the
  accumulator is its trip's only record, so storing it starts the story.
  Also `AssignedIsAnnounced`: the row's driver is announced last, and so is the
  driver of the assignment in progress (`AnnouncedInv`). The argument looks at
  the log and the accumulator of a partition as one sequence (`Sent`), which a
  step leaves alone, appends to, shortens to what is stored, or takes one record
  out of that is lost (`StepOfSent`); only a new announcement of a trip could
  replace its last one, and there is none while its row says ASSIGNED.
  `AnnouncementsAreAttempts` counts over the same four cases.
* `RiderAppProofs`: `ShownIsDurable` and `OneAtATime` for any number of presses.
  The invariant puts what the page knows on top of `RowInv`: answers are final
  (`AnswersAreFinal`), an id on the screen has the answer "accepted", and every
  press but the awaited one is answered or given up (`OthersAreSettled`).
  `WorkerRefinement`: behind the page the notification worker implements
  `EventWorker`, with Dispatch as its publisher. `EventWorker` bounds what a
  partition holds (`Capacity`); that Dispatch stays within two records per trip
  and one per failure is `WithinCapacity`. With the refinement, the worker's
  invariant carries over (`CommittedIsNotified`), and `RiderKnowsDriver` follows
  from it: a rider believes the last announcement the worker is done with
  (`LastIsBelieved`), although rewinds may have repeated older ones in between,
  because the worker does not pass the last one again without notifying it. And
  `AppTypeOK`, the type invariant of page, Dispatch and worker.
* `EventWorkerProofs`: `TypeOK`, `CommittedIsSettled`, `NoOvertaking`,
  `RepeatsAreRewinds`, `StoppedIsSettled` for any topic. The invariant: all that
  was read is settled but for the message being processed (`ReadIsSettled`), that
  message lies beyond the committed offset (`HeldIsUncommitted`, which is what
  makes a rewind safe), and what is still to be notified since the last rewind
  has been notified at most once per rewind (`RepeatBound`).
* `GatewayPushProofs`: the gateway implements `EventWorker`
  (`WorkerRefinement`): each of its steps is one of the loop's or leaves the loop's
  variables alone. Hence at-least-once and order carry over to it
  (`CommittedIsOffered`, `OffersInOrder`) from `EventWorkerProofs`, through an
  instance of that module (`SameWorker` says that the instance is the same worker).
  Over it, for any riders, connections and clients: `TypeOK`, `RegisteredIsOpen`,
  `StaleGetsAtMostOne` and `PushesInOrder`. The first two rest on the parts of
  `TypeInv`; the third on `StaleIsForgotten` (a connection that was sent an event
  after it was given up is never looked up again). For the order, every frame of
  an open connection lies behind the loop (`FramesAreBehind`), unless a commit
  failed and a rewind came after it: until then only the message in hand is
  uncommitted (`CommitsKeepUp`), so a rebalance goes back past nothing.

* `LocationProofs`: `FeedTypeOK`, `ReplyTellsTopic`, `OrderUnlessGivenUp`,
  `CommittedIsReceived` and `CleanExitIsComplete`, for any drivers and pings, any
  partitioning, any `queue.buffering.max.messages` and any failures of both
  services. The invariant of the ingest side (`IngestInv`) follows a ping from
  one place to the next: a queued record stands once, on its key's partition,
  and its handler waits without a report (`QueueFacts`); a stored one has its
  report, and a good report is about a stored one (`TopicFacts`); a status says
  what the report says (`ReplyFacts`). For the order, a client that did not give
  up goes on only when its handler is gone, and sends its pings one after the
  other (`ClientFacts`): so when a record is stored behind a later ping of the same
  driver, the driver gave it up. `StepIs` sorts the steps by what they change. On
  the listener's side, the record in hand is logged before its offset is
  committed (`HandledIsReceived`), and the topic only grows at its end
  (`TopicKept`), so that offsets keep their meaning.

The invariants above were model-checked, on the instances of the runs, before
they were proved. The proofs use the modules' named assumptions on their
constants: types and bounds, trip ids that do not repeat (`AppAssumption`; they
are random UUIDs), and finitely many trips (`PipelineAssumption`, for counting
what a partition holds).

Only model-checked: the liveness properties (`AcceptedIsTold`, `PartitionsDrain`,
`LoadingEnds`, `StopReturns`, `PublishedIsSettled`, `PostEnds`,
`AcceptedIsReceived`, `EveryRecordIsOffered`, `LeaversAreForgotten`, `StopEnds`),
since fairness and ENABLED are out of the prover's reach. Every invariant and
every action property of a passing run is a theorem. The findings are
counterexamples and need no proof.

## 5. What is not modelled, and why

* The contents of messages: Avro, JSON, trace headers, coordinates. A record is
  its type, its trip and its driver; a body is accepted or refused.
* Time. Timeouts are steps that may happen when the code allows them; where two
  timeouts have an order that matters (write deadline before message timeout,
  registry timeout before both) the guard states it.
* More than one instance of a service. The compose file runs one of each; a
  rebalance appears in `EventWorker` and `GatewayPush` as what it does to the one consumer.
* The worker's orderly stop in `RidePipeline`: it rewinds to the committed offset
  like a crash, with less in hand; `EventWorker` has it.
* Configuration: a variable that is missing or malformed stops a service before
  its first step, at every start alike.
* The envelope validator, which no service calls; health, metrics, tracing and
  OpenAPI, which keep no state that another part reads. Of tracing, the start of
  a Go service that needs its exporter is modelled (`StartFails`).
* The page's map and wording, the shell scripts, the simulator's route files.
* Kafka, PostgreSQL, librdkafka, srclient and spring-kafka are modelled from how
  the services use them; their definitions are marked external in the map.

## 6. Plan

Done: the modules above, in the order driver selection, life cycle, Dispatch,
gateway sessions, worker loop, ingest, gateway process, topic, pipeline, page,
gps-pings listener; and the proof of every invariant, action property and
refinement that a run checks. Next:

1. What `RidePipeline` shows of the notification service, over `GatewayPush`: an
   assignment is pushed to the session of its rider, with Dispatch as the
   gateway's publisher.
2. Order across the composition: that a rider is notified of a trip's
   announcements in the order in which Dispatch made them, up to rewinds.

## 7. Running

    tlc -config Dispatch_faults.cfg MCDispatch
    tlapm DispatchProofs.tla

`PROJECT.json` lists the runs, the definition-by-definition map to the source,
the mutants that show each property can be broken by a plausible change to the
code, and the theorems.
