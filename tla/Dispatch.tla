------------------------------- MODULE Dispatch -------------------------------
(***************************************************************************)
(* The Dispatch service and the two stores it writes without a common      *)
(* transaction: the trips table and the ride-events topic.                 *)
(*                                                                         *)
(*   POST /request-ride   one request thread per trip: requestRide buffers *)
(*                        TripRequested, its transaction commits the row,  *)
(*                        then the 202 is written                          *)
(*   producer             one accumulator per partition, drained in order  *)
(*                        by the sender thread; the future of send is      *)
(*                        dropped by the code, so a late failure is silent *)
(*   RideEventsConsumer   one listener thread over all partitions, one     *)
(*                        offset commit per record (AckMode.RECORD), any   *)
(*                        exception retried for ever by DefaultErrorHandler*)
(*                                                                         *)
(* Failures are drawn from FaultKinds and bounded by MaxFaults.            *)
(***************************************************************************)
EXTENDS JavaRoundRobin, Sequences, FiniteSets

CONSTANTS
  Trips,         \* one per POST /request-ride: requestRide draws a fresh id
  Partitions,    \* of ride-events
  PartitionOf,   \* the partition of a record key; the key is the trip id
  NoPartition,
  FaultKinds,    \* the kinds of failure a run allows
  MaxFaults      \* how many failures happen in one behaviour

AllFaultKinds ==
  { "send",           \* the database or send throws inside the transaction
    "requestCommit",  \* requestRide's transaction fails to commit
    "assignCommit",   \* assignDriver's transaction fails to commit
    "commitReply",    \* a transaction commits but its caller gets an exception
    "loss",           \* a buffered record expires after send returned
    "offset",         \* commitSync throws after the listener returned
    "registry",       \* a schema cannot be fetched while polling
    "crash" }         \* the JVM dies; the container is started again

ASSUME DispatchAssumption ==
  /\ PartitionOf \in [Trips -> Partitions]
  /\ NoPartition \notin Partitions
  /\ FaultKinds \subseteq AllFaultKinds
  /\ MaxFaults \in Nat

Drivers  == DriverIndexes
NoDriver == -1

EventTypes == {"TripRequested", "TripAssigned"}
Event      == [type : EventTypes, trip : Trips, driver : Drivers \cup {NoDriver}]

TripRequested(t)   == [type |-> "TripRequested", trip |-> t, driver |-> NoDriver]
TripAssigned(t, d) == [type |-> "TripAssigned", trip |-> t, driver |-> d]

VARIABLES
  trips,      \* the trips table: what committed transactions left in it
  request,    \* each request thread: idle, sent, committed, accepted, failed, dropped
  buffer,     \* producer accumulator, per partition
  log,        \* the topic, per partition; index i holds offset i - 1
  committed,  \* the group's committed offset, per partition
  pc,         \* the listener thread: poll, handle, assigned, ack
  current,    \* the partition whose next record the listener holds
  chosen,     \* the driver in the listener's open transaction
  counter,    \* the selection strategy's AtomicInteger
  schemas,    \* writer schemas this JVM's deserializer has cached
  lost,       \* history: records that left the accumulator without being stored
  skipped,    \* history: the <<partition, index>> dropped as undecodable
  aborted,    \* history: each trip's assignments that announced and rolled back
  faults      \* history: how many failures have happened

producerVars == <<buffer, log>>
listenerVars == <<pc, current, chosen, counter, schemas>>
historyVars  == <<lost, skipped, aborted>>
vars == <<trips, request, producerVars, committed, listenerVars, historyVars, faults>>

Table == INSTANCE TripLifecycle

\* What the log says of a trip, as its readers see it.
StoryOf(t) ==
  LET p == PartitionOf[t]
  IN  {[at |-> i, driver |-> log[p][i].driver] :
         i \in {j \in 1 .. Len(log[p]) : log[p][j].trip = t}}

Feed == INSTANCE RideEvents WITH story <- [t \in Trips |-> StoryOf(t)]

RequestStates  == {"idle", "sent", "committed", "accepted", "failed", "dropped"}
ListenerStates == {"poll", "handle", "assigned", "ack"}

\* One failure of kind k happens in this step.
Fault(k) ==
  /\ k \in FaultKinds
  /\ faults < MaxFaults
  /\ faults' = faults + 1

NoFault == UNCHANGED faults

Init ==
  /\ trips = [t \in Trips |-> Table!NoRow]
  /\ request = [t \in Trips |-> "idle"]
  /\ buffer = [p \in Partitions |-> <<>>]
  /\ log = [p \in Partitions |-> <<>>]
  /\ committed = [p \in Partitions |-> 0]
  /\ pc = "poll"
  /\ current = NoPartition
  /\ chosen = NoDriver
  /\ counter = 0
  /\ schemas = {}
  /\ lost = {}
  /\ skipped = {}
  /\ aborted = [t \in Trips |-> 0]
  /\ faults = 0

-------------------------------------------------------------------------------
(* The producer: KafkaTemplate.send and the sender thread behind it.       *)

\* Mutant of Send: no record key.
SendUnkeyed(e) == \E p \in Partitions : buffer' = [buffer EXCEPT ![p] = Append(@, e)]

\* Key-hash partitioning; send returns as soon as the record is buffered.
Send(e) == buffer' = [buffer EXCEPT ![PartitionOf[e.trip]] = Append(@, e)]

\* Mutant of Deliver: the producer is not idempotent, and a record whose
\* acknowledgement is lost is stored again.
DeliverAgain(p) ==
  /\ buffer[p] # <<>>
  /\ log' = [log EXCEPT ![p] = Append(@, Head(buffer[p]))]
  /\ UNCHANGED buffer
  /\ NoFault
  /\ UNCHANGED <<trips, request, committed, listenerVars, historyVars>>

\* acks=all and an idempotent producer: stored once, in send order.
Deliver(p) ==
  /\ buffer[p] # <<>>
  /\ log' = [log EXCEPT ![p] = Append(@, Head(buffer[p]))]
  /\ buffer' = [buffer EXCEPT ![p] = Tail(@)]
  /\ NoFault
  /\ UNCHANGED <<trips, request, committed, listenerVars, historyVars>>

\* delivery.timeout.ms runs out. Nobody looks at the future.
LoseRecord(p) ==
  /\ buffer[p] # <<>>
  /\ Fault("loss")
  /\ lost' = lost \cup {Head(buffer[p])}
  /\ buffer' = [buffer EXCEPT ![p] = Tail(@)]
  /\ UNCHANGED <<trips, request, log, committed, listenerVars, skipped, aborted>>

-------------------------------------------------------------------------------
(* POST /request-ride.                                                     *)

InsertRow(t) ==
  trips' = [trips EXCEPT ![t] = [status |-> "REQUESTED", driver |-> NoDriver]]

SetRequest(t, s) == request' = [request EXCEPT ![t] = s]

\* requestRide's body. save only queues the INSERT: the row becomes visible
\* when the transaction commits, after the record has been buffered.
RequestRide(t) ==
  /\ request[t] = "idle"
  /\ Send(TripRequested(t))
  /\ SetRequest(t, "sent")
  /\ NoFault
  /\ UNCHANGED <<trips, log, committed, listenerVars, historyVars>>

\* The body throws: rollback and a 500.
RequestRideThrows(t) ==
  /\ request[t] = "idle"
  /\ Fault("send")
  /\ SetRequest(t, "failed")
  /\ UNCHANGED <<trips, producerVars, committed, listenerVars, historyVars>>

CommitRequest(t) ==
  /\ request[t] = "sent"
  /\ InsertRow(t)
  /\ SetRequest(t, "committed")
  /\ NoFault
  /\ UNCHANGED <<producerVars, committed, listenerVars, historyVars>>

\* The commit throws: rolled back, or applied with the answer lost. The record
\* is not taken back either way, and the rider gets a 500.
CommitRequestThrows(t) ==
  /\ request[t] = "sent"
  /\ \/ Fault("requestCommit") /\ UNCHANGED trips
     \/ Fault("commitReply") /\ InsertRow(t)
  /\ SetRequest(t, "failed")
  /\ UNCHANGED <<producerVars, committed, listenerVars, historyVars>>

\* Mutant of ReplyAccepted: the 202 is written inside the transaction.
ReplyAcceptedEarly(t) ==
  /\ request[t] \in {"sent", "committed"}
  /\ SetRequest(t, "accepted")
  /\ NoFault
  /\ UNCHANGED <<trips, producerVars, committed, listenerVars, historyVars>>

\* RideController answers 202 once requestRide's proxy has returned.
ReplyAccepted(t) ==
  /\ request[t] = "committed"
  /\ SetRequest(t, "accepted")
  /\ NoFault
  /\ UNCHANGED <<trips, producerVars, committed, listenerVars, historyVars>>

-------------------------------------------------------------------------------
(* The ride-events listener.                                               *)

Unread(p)  == committed[p] < Len(log[p])
NextOf(p)  == log[p][committed[p] + 1]
Record     == NextOf(current)       \* the record the listener holds

\* Mutant of BackToPoll: state of a rolled-back attempt survives.
BackToPollKeepsDriver ==
  /\ pc' = "poll"
  /\ current' = NoPartition
  /\ UNCHANGED chosen

\* The error handler seeks back to the record and backs off, or the record has
\* been acknowledged: either way the thread polls again.
BackToPoll ==
  /\ pc' = "poll"
  /\ current' = NoPartition
  /\ chosen' = NoDriver

\* poll hands over the next record, decoded; its schema is cached from now on.
Poll(p) ==
  /\ pc = "poll"
  /\ Unread(p)
  /\ schemas' = schemas \cup {NextOf(p).type}
  /\ pc' = "handle"
  /\ current' = p
  /\ NoFault
  /\ UNCHANGED <<trips, request, producerVars, committed, chosen, counter, historyVars>>

\* The first fetch of a schema fails. ErrorHandlingDeserializer turns that into
\* a DeserializationException, which is fatal: logged, and the offset committed.
PollUndecodable(p) ==
  /\ pc = "poll"
  /\ Unread(p)
  /\ NextOf(p).type \notin schemas
  /\ Fault("registry")
  /\ committed' = [committed EXCEPT ![p] = @ + 1]
  /\ skipped' = skipped \cup {<<p, committed[p] + 1>>}
  /\ UNCHANGED <<trips, request, producerVars, listenerVars, lost, aborted>>

\* Mutant of SkipOtherType: the offsets of other types are left to the next
\* TripRequested.
SkipOtherTypeUnacked ==
  /\ pc = "handle"
  /\ Record.type # "TripRequested"
  /\ BackToPoll
  /\ NoFault
  /\ UNCHANGED <<trips, request, producerVars, committed, counter, schemas, historyVars>>

\* onMessage returns without acting on any type but TripRequested.
SkipOtherType ==
  /\ pc = "handle"
  /\ Record.type # "TripRequested"
  /\ pc' = "ack"
  /\ NoFault
  /\ UNCHANGED <<trips, request, producerVars, committed, current, chosen, counter,
                 schemas, historyVars>>

\* Mutant of TripNotFound: an unknown trip is logged and skipped.
TripNotFoundSkips ==
  /\ pc = "handle"
  /\ Record.type = "TripRequested"
  /\ trips[Record.trip].status = "NONE"
  /\ pc' = "ack"
  /\ NoFault
  /\ UNCHANGED <<trips, request, producerVars, committed, current, chosen, counter,
                 schemas, historyVars>>

\* findById is empty: IllegalArgumentException, retried.
TripNotFound ==
  /\ pc = "handle"
  /\ Record.type = "TripRequested"
  /\ trips[Record.trip].status = "NONE"
  /\ BackToPoll
  /\ NoFault
  /\ UNCHANGED <<trips, request, producerVars, committed, counter, schemas, historyVars>>

\* Mutant of Assignable: the transition is not asserted.
AssignableUnchecked(t) == trips[t].status # "NONE"

\* assertCanTransitionTo(ASSIGNED).
Assignable(t) == Table!CanTransitionTo(trips[t].status, "ASSIGNED")

\* IllegalStateTransitionException, retried like any other.
InvalidTransition ==
  /\ pc = "handle"
  /\ Record.type = "TripRequested"
  /\ trips[Record.trip].status # "NONE"
  /\ ~Assignable(Record.trip)
  /\ BackToPoll
  /\ NoFault
  /\ UNCHANGED <<trips, request, producerVars, committed, counter, schemas, historyVars>>

\* Mutant of AssignDriver: the strategy is asked again for the event.
AssignDriverPicksTwice ==
  /\ pc = "handle"
  /\ Record.type = "TripRequested"
  /\ Assignable(Record.trip)
  /\ chosen' = PickIndex(counter)
  /\ counter' = Incremented(Incremented(counter))
  /\ Send(TripAssigned(Record.trip, PickIndex(Incremented(counter))))
  /\ pc' = "assigned"
  /\ NoFault
  /\ UNCHANGED <<trips, request, log, committed, current, schemas, historyVars>>

\* assignDriver's body: driver picked, UPDATE queued, TripAssigned buffered. The
\* row changes when the transaction commits.
AssignDriver ==
  /\ pc = "handle"
  /\ Record.type = "TripRequested"
  /\ Assignable(Record.trip)
  /\ chosen' = PickIndex(counter)
  /\ counter' = Incremented(counter)
  /\ Send(TripAssigned(Record.trip, PickIndex(counter)))
  /\ pc' = "assigned"
  /\ NoFault
  /\ UNCHANGED <<trips, request, log, committed, current, schemas, historyVars>>

\* The body throws, before the driver was picked or after: rollback and retry.
AssignDriverThrows ==
  /\ pc = "handle"
  /\ Record.type = "TripRequested"
  /\ Assignable(Record.trip)
  /\ Fault("send")
  /\ counter' \in {counter, Incremented(counter)}
  /\ BackToPoll
  /\ UNCHANGED <<trips, request, producerVars, committed, schemas, historyVars>>

WriteAssignment ==
  trips' = [trips EXCEPT ![Record.trip] = [status |-> "ASSIGNED", driver |-> chosen]]

\* The open assignment rolls back, its announcement stays where it is.
Abort == aborted' = [aborted EXCEPT ![Record.trip] = @ + 1]

CommitAssignment ==
  /\ pc = "assigned"
  /\ WriteAssignment
  /\ pc' = "ack"
  /\ chosen' = NoDriver
  /\ NoFault
  /\ UNCHANGED <<request, producerVars, committed, current, counter, schemas, historyVars>>

\* The commit throws out of onMessage: retried. TripAssigned stays buffered.
CommitAssignmentThrows ==
  /\ pc = "assigned"
  /\ \/ Fault("assignCommit") /\ Abort /\ UNCHANGED trips
     \/ Fault("commitReply") /\ WriteAssignment /\ UNCHANGED aborted
  /\ BackToPoll
  /\ UNCHANGED <<request, producerVars, committed, counter, schemas, lost, skipped>>

\* AckMode.RECORD: commitSync after the listener returns.
Ack ==
  /\ pc = "ack"
  /\ committed' = [committed EXCEPT ![current] = @ + 1]
  /\ BackToPoll
  /\ NoFault
  /\ UNCHANGED <<trips, request, producerVars, counter, schemas, historyVars>>

\* commitSync throws into the error handler: the record is delivered again.
AckThrows ==
  /\ pc = "ack"
  /\ Fault("offset")
  /\ BackToPoll
  /\ UNCHANGED <<trips, request, producerVars, committed, counter, schemas, historyVars>>

-------------------------------------------------------------------------------

\* The JVM dies and is started again. Open transactions roll back, the
\* accumulator and the counter are gone, connections drop, and the group resumes
\* from its committed offsets.
Crash ==
  /\ Fault("crash")
  /\ request' = [t \in Trips |-> IF request[t] \in {"sent", "committed"}
                                   THEN "dropped" ELSE request[t]]
  /\ lost' = lost \cup UNION {{buffer[p][i] : i \in 1 .. Len(buffer[p])} : p \in Partitions}
  /\ buffer' = [p \in Partitions |-> <<>>]
  /\ BackToPoll
  /\ counter' = 0
  /\ schemas' = {}
  /\ IF pc = "assigned" THEN Abort ELSE UNCHANGED aborted
  /\ UNCHANGED <<trips, log, committed, skipped>>

\* Nothing left to do: every request answered, every record stored and read.
Idle ==
  /\ \A t \in Trips : request[t] \in {"accepted", "failed", "dropped"}
  /\ \A p \in Partitions : buffer[p] = <<>> /\ ~Unread(p)
  /\ pc = "poll"
  /\ UNCHANGED vars

RequestThread(t) ==
  RequestRide(t) \/ RequestRideThrows(t) \/ CommitRequest(t) \/ CommitRequestThrows(t)
    \/ ReplyAccepted(t)

Sender(p) == Deliver(p) \/ LoseRecord(p)

Polling(p) == Poll(p) \/ PollUndecodable(p)

Handling == SkipOtherType \/ TripNotFound \/ InvalidTransition
              \/ AssignDriver \/ AssignDriverThrows
              \/ CommitAssignment \/ CommitAssignmentThrows
              \/ Ack \/ AckThrows

Next ==
  \/ \E t \in Trips : RequestThread(t)
  \/ \E p \in Partitions : Sender(p) \/ Polling(p)
  \/ Handling
  \/ Crash
  \/ Idle

Spec == Init /\ [][Next]_vars

\* Request threads, the sender and the listener are live threads. The fetcher
\* drains the assigned partitions in turn, so no unread partition is passed over
\* for ever although a retry on another one keeps coming back.
Fairness ==
  /\ \A t \in Trips : WF_vars(RequestThread(t) /\ request[t] # "idle")
  /\ \A p \in Partitions : WF_vars(Sender(p)) /\ SF_vars(Polling(p))
  /\ WF_vars(Handling)

FairSpec == Spec /\ Fairness

-------------------------------------------------------------------------------
(* Correctness.                                                            *)

\* The one type invariant. The listener holds a partition exactly while it is
\* not polling, always one with an unread record, and a driver exactly while
\* its transaction is open.
TypeOK ==
  /\ trips \in [Trips -> Table!Row]
  /\ request \in [Trips -> RequestStates]
  /\ buffer \in [Partitions -> Seq(Event)]
  /\ log \in [Partitions -> Seq(Event)]
  /\ committed \in [Partitions -> Nat]
  /\ \A p \in Partitions : committed[p] <= Len(log[p])
  /\ pc \in ListenerStates
  /\ current \in Partitions \cup {NoPartition}
  /\ (pc = "poll") <=> (current = NoPartition)
  /\ current # NoPartition => Unread(current)
  /\ chosen \in Drivers \cup {NoDriver}
  /\ (pc = "assigned") <=> (chosen # NoDriver)
  /\ counter \in JavaInts
  /\ schemas \subseteq EventTypes
  /\ lost \subseteq Event
  /\ skipped \subseteq Partitions \X (Nat \ {0})
  /\ aborted \in [Trips -> Nat]
  /\ faults \in 0 .. MaxFaults

\* A trip id the rider got a 202 for is backed by a row, whatever fails or
\* crashes around the commit (ADR 002, constraint 2).
AcceptedIsDurable ==
  \A t \in Trips : request[t] = "accepted" => trips[t].status # "NONE"

\* Readers of the topic never see a trip assigned that they have not seen
\* requested: both records carry the trip's key, and the second is sent only
\* by the reader of the first.
RequestedBeforeAssigned ==
  \A p \in Partitions : \A j \in 1 .. Len(log[p]) :
    log[p][j].type = "TripAssigned" =>
      \E i \in 1 .. j - 1 : log[p][i] = TripRequested(log[p][j].trip)

\* Every trip's records, wherever its readers stand, are one request followed by
\* assignments: nothing is stored twice, overtaken or taken back, whatever the
\* producer loses and whatever is redelivered or crashes.
ImplementsRideEvents == Feed!Spec

\* Committing the offset of a TripRequested gives the trip up for good, so it
\* happens only after the trip is assigned. The one exception is a record the
\* deserializer could not decode.
AckedIsAssigned ==
  \A p \in Partitions : \A i \in 1 .. committed[p] :
    log[p][i].type = "TripRequested" =>
      \/ trips[log[p][i].trip].status = "ASSIGNED"
      \/ <<p, i>> \in skipped

\* Everything handed to the producer for a partition, in order.
Sent(p) == log[p] \o buffer[p]

\* Announcement i of sequence s is the last one s makes about its trip.
IsLastAnnouncement(s, i) ==
  \A j \in i + 1 .. Len(s) : ~(s[j].type = "TripAssigned" /\ s[j].trip = s[i].trip)

\* A row says ASSIGNED only with its driver announced, or announced and lost,
\* and no later announcement contradicts it: a reader that goes by the last
\* TripAssigned of a trip ends up with the driver in the table, although failed
\* attempts may have announced other drivers before.
AssignedIsAnnounced ==
  \A t \in Trips : trips[t].status = "ASSIGNED" =>
    LET e == TripAssigned(t, trips[t].driver)
        s == Sent(PartitionOf[t])
    IN  \/ e \in lost
        \/ \E i \in 1 .. Len(s) : s[i] = e /\ IsLastAnnouncement(s, i)

\* The table only moves along the state machine, one transition at a time, and
\* an assigned driver is never replaced, also when a record is redelivered.
TripsFollowLifecycle == Table!Spec

\* An assignment that announced its driver and has not rolled back.
Standing(t) ==
  IF \/ trips[t].status = "ASSIGNED"
     \/ pc = "assigned" /\ Record.trip = t
  THEN 1 ELSE 0

\* Redelivery alone never announces a trip again: besides the assignment that
\* stands, each announcement of a trip belongs to an attempt that rolled back.
AnnouncementsAreAttempts ==
  \A t \in Trips :
    LET s == Sent(PartitionOf[t])
        announcements == {i \in 1 .. Len(s) : s[i].type = "TripAssigned" /\ s[i].trip = t}
    IN  Cardinality(announcements) <= aborted[t] + Standing(t)

\* The only two ways to lose a ride: its record never reached the topic, or could
\* not be decoded.
GivenUp(t) ==
  \/ TripRequested(t) \in lost
  \/ \E r \in skipped : log[r[1]][r[2]] = TripRequested(t)

\* No retry gets through the record the partition is at: the row of its trip was
\* rolled back, or is already assigned.
Blocked(p) ==
  /\ Unread(p) /\ NextOf(p).type = "TripRequested"
  /\ LET t == NextOf(p).trip
     IN  \/ trips[t].status = "NONE" /\ request[t] \in {"failed", "dropped"}
         \/ trips[t].status = "ASSIGNED"

\* Nothing but such a record can stop the listener on a partition: everything
\* else is committed in the end, whatever failed while it was processed, and
\* however long another partition is blocked.
PartitionsDrain ==
  \A p \in Partitions : []<>(~Unread(p) \/ (pc = "poll" /\ Blocked(p)))

\* A TripRequested that is processed again after a restart, its trip already
\* assigned, does not hold its partition up: it is committed in the end.
ReprocessedIsCommitted ==
  \A p \in Partitions :
    []<>~(Unread(p) /\ NextOf(p).type = "TripRequested"
                    /\ trips[NextOf(p).trip].status = "ASSIGNED")

\* TripAssigned is not published when the database write fails: outside an open
\* transaction, a published assignment is in the table.
PublishedAssignmentIsWritten ==
  \A p \in Partitions : \A i \in 1 .. Len(log[p]) :
    (log[p][i].type = "TripAssigned" /\ pc # "assigned")
      => trips[log[p][i].trip].status = "ASSIGNED"
===============================================================================
