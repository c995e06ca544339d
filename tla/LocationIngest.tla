----------------------------- MODULE LocationIngest -----------------------------
(***************************************************************************)
(* The ingest service: one handler goroutine per POST /location, all       *)
(* sharing one producer. A handler registers the schema if nobody has,     *)
(* hands its record to librdkafka and blocks until the delivery report     *)
(* comes, whether its client is still there or not.                        *)
(*                                                                         *)
(* Every driver posts its pings one after the other and goes on to the     *)
(* next one when it gets an answer, an error, or tired of waiting.         *)
(***************************************************************************)
EXTENDS Integers, FiniteSets, SequencesExt

CONSTANTS
  Drivers,
  PingsOf,       \* how many pings each driver posts
  Partitions,    \* of gps-pings
  PartitionOf,   \* the partition of a record key; the key is the driver's id
  QueueMax,      \* queue.buffering.max.messages
  FaultKinds,    \* the kinds of failure a run allows
  MaxFaults      \* how many failures happen in one behaviour

Pings == UNION {{d} \X (1 .. PingsOf[d]) : d \in Drivers}

AllFaultKinds ==
  { "startup",      \* the tracer or the producer cannot be set up
    "registry",     \* the schema cannot be registered
    "rejected",     \* the broker refuses the record for good
    "unavailable",  \* the record is not acknowledged within message.timeout.ms
    "crash",        \* the process dies; the container is started again
    "sigterm" }     \* the service is stopped; a new process is started afterwards

ASSUME IngestAssumption ==
  /\ PingsOf \in [Drivers -> Nat] /\ QueueMax \in Nat
  /\ PartitionOf \in [Drivers -> Partitions]
  /\ FaultKinds \subseteq AllFaultKinds
  /\ MaxFaults \in Nat

VARIABLES
  server,    \* starting, serving, draining (Shutdown was called), exited, died
  schema,    \* Producer.schema is set
  handler,   \* each request: none, decode, schema, register, produce, wait,
             \* ended, killed
  reply,     \* the status each handler wrote, 0 before
  late,      \* the requests whose connection is past its write deadline
  queue,     \* librdkafka's queue, per partition
  report,    \* each record's delivery report: none, ok, failed
  topic,     \* gps-pings
  client,    \* the sender of each ping: before, waiting, answered, reset, gone
  faults     \* history: how many failures have happened

records == <<queue, report, topic>>
vars == <<server, schema, handler, reply, late, records, client, faults>>

Active == {"decode", "schema", "register", "produce", "wait"}

Fault(k) ==
  /\ k \in FaultKinds
  /\ faults < MaxFaults
  /\ faults' = faults + 1

NoFault == UNCHANGED faults

Init ==
  /\ server = "starting"
  /\ schema = FALSE
  /\ handler = [r \in Pings |-> "none"]
  /\ reply = [r \in Pings |-> 0]
  /\ late = {}
  /\ queue = [p \in Partitions |-> <<>>]
  /\ report = [r \in Pings |-> "none"]
  /\ topic = [p \in Partitions |-> <<>>]
  /\ client = [r \in Pings |-> "before"]
  /\ faults = 0

-------------------------------------------------------------------------------
(* The driver's client.                                                    *)

\* Sends the next ping; where nobody listens the connection is refused.
Post(r) ==
  /\ client[r] = "before"
  /\ r[2] > 1 => client[<<r[1], r[2] - 1>>] \in {"answered", "reset", "gone"}
  /\ \/ /\ server = "serving"
        /\ client' = [client EXCEPT ![r] = "waiting"]
        /\ handler' = [handler EXCEPT ![r] = "decode"]
     \/ /\ server # "serving"
        /\ client' = [client EXCEPT ![r] = "reset"]
        /\ UNCHANGED handler
  /\ NoFault
  /\ UNCHANGED <<server, schema, reply, late, records>>

\* urlopen times out after five seconds. The handler is not told.
GiveUp(r) ==
  /\ client[r] = "waiting"
  /\ client' = [client EXCEPT ![r] = "gone"]
  /\ NoFault
  /\ UNCHANGED <<server, schema, handler, reply, late, records>>

-------------------------------------------------------------------------------
(* ServeHTTP and Publish.                                                  *)

Step(r, from, to) ==
  /\ handler[r] = from
  /\ handler' = [handler EXCEPT ![r] = to]

\* writeJSON ends the request. Past the write deadline the status does not get
\* through and the connection is closed.
WriteJSON(r, from, status) ==
  /\ Step(r, from, "ended")
  /\ reply' = [reply EXCEPT ![r] = status]
  /\ client' = [client EXCEPT ![r] =
                  IF @ # "waiting" THEN @ ELSE IF r \in late THEN "reset" ELSE "answered"]
  /\ UNCHANGED <<server, schema, late>>

\* The body is too large, not JSON, or fails a struct tag.
DecodeRefuses(r) ==
  /\ \E status \in {413, 422} : WriteJSON(r, "decode", status)
  /\ NoFault
  /\ UNCHANGED records

Decode(r) ==
  /\ Step(r, "decode", "schema")
  /\ NoFault
  /\ UNCHANGED <<server, schema, reply, late, records, client>>

\* p.schema is read without a lock: a handler may see nil although another one
\* has set it, and registers the same schema again.
ReadSchema(r) ==
  /\ \/ Step(r, "schema", "register")
     \/ schema /\ Step(r, "schema", "produce")
  /\ NoFault
  /\ UNCHANGED <<server, schema, reply, late, records, client>>

CreateSchema(r) ==
  /\ Step(r, "register", "produce")
  /\ schema' = TRUE
  /\ NoFault
  /\ UNCHANGED <<server, reply, late, records, client>>

CreateSchemaFails(r) ==
  /\ Fault("registry")
  /\ WriteJSON(r, "register", 503)
  /\ UNCHANGED records

Queued == UNION {ToSet(queue[p]) : p \in Partitions}

\* Mutant of Produce: the record has no key, so any partition takes it.
ProduceUnkeyed(r) ==
  /\ Cardinality(Queued) < QueueMax
  /\ Step(r, "produce", "wait")
  /\ \E p \in Partitions : queue' = [queue EXCEPT ![p] = Append(@, r)]
  /\ NoFault
  /\ UNCHANGED <<server, schema, reply, late, report, topic, client>>

Produce(r) ==
  /\ Cardinality(Queued) < QueueMax
  /\ Step(r, "produce", "wait")
  /\ queue' = [queue EXCEPT ![PartitionOf[r[1]]] = Append(@, r)]
  /\ NoFault
  /\ UNCHANGED <<server, schema, reply, late, report, topic, client>>

\* Mutant of ProduceFails: its error is dropped.
ProduceFailsUnseen(r) ==
  /\ Cardinality(Queued) = QueueMax
  /\ Step(r, "produce", "wait")
  /\ NoFault
  /\ UNCHANGED <<server, schema, reply, late, records, client>>

ProduceFails(r) ==
  /\ Cardinality(Queued) = QueueMax
  /\ WriteJSON(r, "produce", 503)
  /\ NoFault
  /\ UNCHANGED records

\* Mutant of ReadReport: the error inside the report is not looked at.
ReadReportUnchecked(r) ==
  /\ report[r] # "none"
  /\ WriteJSON(r, "wait", 202)
  /\ NoFault
  /\ UNCHANGED records

\* Mutant of ReadReport: it also returns when the request's context is done.
ReadReportOrCancelled(r) ==
  /\ report[r] # "none" \/ client[r] = "gone"
  /\ WriteJSON(r, "wait", IF report[r] = "ok" THEN 202 ELSE 503)
  /\ NoFault
  /\ UNCHANGED records

\* The delivery report arrives on the handler's own channel.
ReadReport(r) ==
  /\ report[r] # "none"
  /\ WriteJSON(r, "wait", IF report[r] = "ok" THEN 202 ELSE 503)
  /\ NoFault
  /\ UNCHANGED records

\* WriteTimeout: ten seconds, and the handler goes on. What a handler does before
\* it waits takes less (the registry client gives up after five).
WriteDeadline(r) ==
  /\ handler[r] = "wait" /\ r \notin late
  /\ late' = late \cup {r}
  /\ NoFault
  /\ UNCHANGED <<server, schema, handler, reply, records, client>>

-------------------------------------------------------------------------------
(* librdkafka and the broker: idempotent, so in order and stored once.      *)

Report(p, stored, outcome) ==
  /\ queue[p] # <<>>
  /\ queue' = [queue EXCEPT ![p] = Tail(@)]
  /\ report' = [report EXCEPT ![Head(queue[p])] = outcome]
  /\ topic' = IF stored THEN [topic EXCEPT ![p] = Append(@, Head(queue[p]))] ELSE topic
  /\ UNCHANGED <<server, schema, handler, reply, late, client>>

Delivered(p) == Report(p, TRUE, "ok") /\ NoFault

Rejected(p) == Report(p, FALSE, "failed") /\ Fault("rejected")

\* message.timeout.ms is five minutes, well after the write deadline. The record
\* may have been stored with its acknowledgement lost.
Expires(p) ==
  /\ queue[p] # <<>> /\ Head(queue[p]) \in late
  /\ \E stored \in BOOLEAN : Report(p, stored, "failed")
  /\ Fault("unavailable")

-------------------------------------------------------------------------------
(* The process.                                                            *)

\* main has its tracer and its producer, and the server listens.
Serve ==
  /\ server = "starting"
  /\ server' = "serving"
  /\ NoFault
  /\ UNCHANGED <<schema, handler, reply, late, records, client>>

\* log.Fatalf, and the container is started again.
StartFails ==
  /\ server = "starting"
  /\ Fault("startup")
  /\ UNCHANGED <<server, schema, handler, reply, late, records, client>>

\* SIGTERM: Shutdown closes the listener and waits for the active connections.
Sigterm ==
  /\ server = "serving"
  /\ server' = "draining"
  /\ Fault("sigterm")
  /\ UNCHANGED <<schema, handler, reply, late, records, client>>

Ends(how) ==
  /\ server' = how
  /\ handler' = [r \in Pings |-> IF handler[r] \in Active THEN "killed" ELSE handler[r]]
  /\ client' = [r \in Pings |-> IF client[r] = "waiting" THEN "reset" ELSE client[r]]
  /\ queue' = [p \in Partitions |-> <<>>]
  /\ UNCHANGED <<schema, reply, late, report, topic>>

\* Mutant of Exit: the server is closed, not shut down.
ExitAtOnce ==
  /\ server = "draining"
  /\ Ends("exited")
  /\ NoFault

\* Shutdown returns nil; Close flushes for up to five seconds.
Exit ==
  /\ server = "draining"
  /\ \A r \in Pings : handler[r] \notin Active
  /\ Ends("exited")
  /\ NoFault

\* Thirty seconds were not enough: Fatalf exits at once, Close does not run.
ShutdownFails ==
  /\ server = "draining"
  /\ \E r \in Pings : handler[r] \in Active
  /\ Ends("died")
  /\ NoFault

Crash ==
  /\ server \in {"serving", "draining"}
  /\ Ends("died")
  /\ Fault("crash")

\* A new process.
Restart ==
  /\ server \in {"exited", "died"}
  /\ server' = "starting"
  /\ schema' = FALSE
  /\ NoFault
  /\ UNCHANGED <<handler, reply, late, records, client>>

Handle(r) ==
  \/ DecodeRefuses(r) \/ Decode(r) \/ ReadSchema(r) \/ CreateSchema(r) \/ CreateSchemaFails(r)
  \/ Produce(r) \/ ProduceFails(r) \/ ReadReport(r)

\* The drivers have no more pings; anything else without a step is a deadlock.
Idle ==
  /\ server = "serving"
  /\ \A r \in Pings : client[r] \in {"answered", "reset", "gone"} /\ handler[r] \notin Active
  /\ UNCHANGED vars

Next ==
  \/ \E r \in Pings : Post(r) \/ GiveUp(r) \/ Handle(r) \/ WriteDeadline(r)
  \/ \E p \in Partitions : Delivered(p) \/ Rejected(p) \/ Expires(p)
  \/ Serve \/ StartFails \/ Sigterm \/ Exit \/ ShutdownFails \/ Crash \/ Restart \/ Idle

Spec == Init /\ [][Next]_vars

\* Handlers are scheduled, and every record gets its report: it is delivered, or
\* it expires.
Fairness ==
  /\ \A r \in Pings : WF_vars(Handle(r))
  /\ \A p \in Partitions : WF_vars(Delivered(p) \/ Rejected(p) \/ Expires(p))

FairSpec == Spec /\ Fairness

-------------------------------------------------------------------------------
(* Correctness.                                                            *)

\* The type invariant; every queued record has a handler that waits for it, and
\* nothing is left where no process runs.
TypeOK ==
  /\ server \in {"starting", "serving", "draining", "exited", "died"}
  /\ schema \in BOOLEAN
  /\ handler \in [Pings -> Active \cup {"none", "ended", "killed"}]
  /\ reply \in [Pings -> {0, 202, 413, 422, 503}]
  /\ late \subseteq Pings
  /\ queue \in [Partitions -> Seq(Pings)] /\ topic \in [Partitions -> Seq(Pings)]
  /\ report \in [Pings -> {"none", "ok", "failed"}]
  /\ client \in [Pings -> {"before", "waiting", "answered", "reset", "gone"}]
  /\ \A r \in Queued : handler[r] = "wait" /\ report[r] = "none"
  /\ Cardinality(Queued) <= QueueMax
  /\ \A r \in Pings : (handler[r] = "ended") <=> (reply[r] # 0)
  /\ server \in {"starting", "exited", "died"} => \A r \in Pings : handler[r] \notin Active
  /\ faults \in 0 .. MaxFaults

\* Where the topic holds a ping.
Places(r) == UNION {{p} \X {i \in 1 .. Len(topic[p]) : topic[p][i] = r} : p \in Partitions}
TimesStored(r) == Cardinality(Places(r))

\* What the status says of the topic, also after crashes and forced shutdowns: a
\* 202 is a ping stored once and a refused ping is not stored. A 503 leaves it open.
ReplyTellsTopic ==
  \A r \in Pings :
    /\ TimesStored(r) <= 1
    /\ reply[r] = 202 => TimesStored(r) = 1
    /\ reply[r] \in {413, 422} => TimesStored(r) = 0

\* The key orders a driver's pings, restarts and failures included, as long as
\* the driver does not go on while its previous ping is still being handled.
OrderUnlessGivenUp ==
  \A d \in Drivers : \A m, n \in 1 .. PingsOf[d] : \A p, q \in Partitions :
    \A i \in 1 .. Len(topic[p]), j \in 1 .. Len(topic[q]) :
      (m < n /\ topic[p][i] = <<d, m>> /\ topic[q][j] = <<d, n>> /\ client[<<d, m>>] # "gone")
        => p = q /\ i < j

\* An orderly stop abandons no record: nothing is queued and nobody waits when
\* the producer is closed.
CleanExitIsComplete ==
  [][server # "exited" /\ server' = "exited"
       => Queued = {} /\ \A r \in Pings : handler[r] \notin Active]_vars

\* No request hangs: whatever the registry, the queue and the broker do, its
\* handler is not busy for ever.
PostEnds == \A r \in Pings : []<>(handler[r] \notin Active)

\* A client that waits gets the status its handler wrote, the 503 of an
\* unavailable topic in particular.
PatientClientIsAnswered ==
  \A r \in Pings : handler[r] = "ended" => client[r] \in {"answered", "gone"}
===============================================================================
