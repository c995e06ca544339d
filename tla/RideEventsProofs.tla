--------------------------- MODULE RideEventsProofs ---------------------------
(***************************************************************************)
(* Dispatch keeps what the ride-events topic promises its readers, for any *)
(* trips, any partitioning and any number of failures of every kind: the   *)
(* story of each trip, which announcement is the last one, and how many    *)
(* there are.                                                              *)
(***************************************************************************)
EXTENDS DispatchProofs, FiniteSetTheorems

\* A trip whose request has not arrived has no record anywhere.
IdleIsUnannounced ==
  \A t \in Trips : request[t] = "idle" =>
    \A p \in Partitions :
      /\ \A i \in 1 .. Len(log[p]) : log[p][i].trip # t
      /\ \A i \in 1 .. Len(buffer[p]) : buffer[p][i].trip # t

\* While a TripRequested waits in the accumulator, it is its trip's only record.
BufferedRequestIsSole ==
  \A p \in Partitions : \A i \in 1 .. Len(buffer[p]) :
    buffer[p][i].type = "TripRequested" =>
      /\ \A k \in 1 .. Len(log[p]) : log[p][k].trip # buffer[p][i].trip
      /\ \A k \in 1 .. Len(buffer[p]) : buffer[p][k].trip = buffer[p][i].trip => k = i

\* A TripAssigned names a driver.
BufferedNamesDriver ==
  \A p \in Partitions : \A i \in 1 .. Len(buffer[p]) :
    buffer[p][i].type = "TripAssigned" => buffer[p][i].driver \in Drivers

StoryFacts == IdleIsUnannounced /\ BufferedRequestIsSole /\ BufferedNamesDriver

StoryInv == TypeOK /\ OrderFacts /\ StoryFacts
-------------------------------------------------------------------------------
(* The facts about what waits in the accumulators.                         *)

\* A record that is buffered adds to the facts what it says itself.
LEMMA SendKeepsStory ==
  ASSUME TypeOK, StoryFacts, NEW e \in Event, Send(e), log' = log,
         \A t \in Trips : request'[t] = "idle" => request[t] = "idle" /\ t # e.trip,
         e.type = "TripAssigned" =>
           /\ e.driver \in Drivers
           /\ \E k \in 1 .. Len(log[PartitionOf[e.trip]]) :
                log[PartitionOf[e.trip]][k].trip = e.trip,
         e.type = "TripRequested" => request[e.trip] = "idle"
  PROVE  StoryFacts'
<1> DEFINE q == PartitionOf[e.trip]
<1>1. q \in Partitions /\ e.trip \in Trips
  BY DispatchAssumption DEF Event
<1>2. buffer[q] \in Seq(Event) /\ Len(buffer[q]) \in Nat
  BY <1>1 DEF TypeOK
<1>3. buffer'[q] = Append(buffer[q], e) /\ \A p \in Partitions : p # q => buffer'[p] = buffer[p]
  BY <1>1 DEF Send, TypeOK
<1>4. /\ Len(buffer'[q]) = Len(buffer[q]) + 1 /\ buffer'[q][Len(buffer[q]) + 1] = e
      /\ \A i \in 1 .. Len(buffer[q]) : buffer'[q][i] = buffer[q][i]
  BY <1>2, <1>3
<1>5. \A i \in 1 .. Len(buffer'[q]) : i \in 1 .. Len(buffer[q]) \/ i = Len(buffer[q]) + 1
  BY <1>2, <1>4
<1>6. IdleIsUnannounced'
  <2> SUFFICES ASSUME NEW t \in Trips, request'[t] = "idle", NEW p \in Partitions
               PROVE  /\ \A i \in 1 .. Len(log[p]) : log[p][i].trip # t
                      /\ \A i \in 1 .. Len(buffer'[p]) : buffer'[p][i].trip # t
    BY DEF IdleIsUnannounced
  <2>1. request[t] = "idle" /\ t # e.trip
    OBVIOUS
  <2>2. /\ \A i \in 1 .. Len(log[p]) : log[p][i].trip # t
        /\ \A i \in 1 .. Len(buffer[p]) : buffer[p][i].trip # t
    BY <2>1 DEF StoryFacts, IdleIsUnannounced
  <2>3. \A i \in 1 .. Len(buffer'[p]) : buffer'[p][i].trip # t
    BY <1>3, <1>4, <1>5, <2>1, <2>2
  <2> QED BY <2>2, <2>3
<1>7. BufferedRequestIsSole'
  <2> SUFFICES ASSUME NEW p \in Partitions, NEW i \in 1 .. Len(buffer'[p]),
                      buffer'[p][i].type = "TripRequested"
               PROVE  /\ \A k \in 1 .. Len(log[p]) : log[p][k].trip # buffer'[p][i].trip
                      /\ \A k \in 1 .. Len(buffer'[p]) :
                           buffer'[p][k].trip = buffer'[p][i].trip => k = i
    BY DEF BufferedRequestIsSole
  <2>1. CASE p # q
    BY <1>3, <2>1 DEF StoryFacts, BufferedRequestIsSole
  <2>2. CASE p = q /\ i \in 1 .. Len(buffer[q])
    <3>1. /\ buffer[q][i].type = "TripRequested" /\ buffer'[q][i] = buffer[q][i]
      BY <1>4, <2>2
    <3>2. /\ \A k \in 1 .. Len(log[q]) : log[q][k].trip # buffer[q][i].trip
          /\ \A k \in 1 .. Len(buffer[q]) : buffer[q][k].trip = buffer[q][i].trip => k = i
      BY <1>1, <2>2, <3>1 DEF StoryFacts, BufferedRequestIsSole
    <3>3. e.type = "TripRequested" => e.trip # buffer[q][i].trip
      BY <1>1, <2>2 DEF StoryFacts, IdleIsUnannounced
    <3>4. e.type = "TripAssigned" => e.trip # buffer[q][i].trip
      BY <3>2
    <3>5. e.trip # buffer[q][i].trip
      BY <3>3, <3>4 DEF Event, EventTypes
    <3> QED BY <1>4, <1>5, <2>2, <3>1, <3>2, <3>5
  <2>3. CASE p = q /\ i = Len(buffer[q]) + 1
    <3>1. request[e.trip] = "idle" /\ buffer'[q][i] = e
      BY <1>4, <2>3
    <3>2. /\ \A k \in 1 .. Len(log[q]) : log[q][k].trip # e.trip
          /\ \A k \in 1 .. Len(buffer[q]) : buffer[q][k].trip # e.trip
      BY <1>1, <3>1 DEF StoryFacts, IdleIsUnannounced
    <3> QED BY <1>4, <1>5, <2>3, <3>1, <3>2
  <2> QED BY <1>5, <2>1, <2>2, <2>3
<1>8. BufferedNamesDriver'
  <2> SUFFICES ASSUME NEW p \in Partitions, NEW i \in 1 .. Len(buffer'[p]),
                      buffer'[p][i].type = "TripAssigned"
               PROVE  buffer'[p][i].driver \in Drivers
    BY DEF BufferedNamesDriver
  <2> QED BY <1>3, <1>4, <1>5 DEF StoryFacts, BufferedNamesDriver
<1> QED BY <1>6, <1>7, <1>8 DEF StoryFacts

\* Dropping records from the accumulators leaves the facts about the rest.
LEMMA DroppingKeepsStory ==
  ASSUME TypeOK, StoryFacts, log' = log,
         \A t \in Trips : request'[t] = "idle" => request[t] = "idle",
         \A p \in Partitions :
           buffer'[p] = buffer[p] \/ buffer'[p] = <<>>
             \/ (buffer[p] # <<>> /\ buffer'[p] = Tail(buffer[p]))
  PROVE  StoryFacts'
<1>1. \A p \in Partitions :
        \E d \in {0, 1} : \A i \in 1 .. Len(buffer'[p]) :
          i + d \in 1 .. Len(buffer[p]) /\ buffer'[p][i] = buffer[p][i + d]
  <2> SUFFICES ASSUME NEW p \in Partitions
               PROVE  \E d \in {0, 1} : \A i \in 1 .. Len(buffer'[p]) :
                        i + d \in 1 .. Len(buffer[p]) /\ buffer'[p][i] = buffer[p][i + d]
    OBVIOUS
  <2>1. buffer[p] \in Seq(Event)
    BY DEF TypeOK
  <2>2. CASE buffer'[p] = buffer[p] \/ buffer'[p] = <<>>
    BY <2>1, <2>2
  <2>3. CASE buffer[p] # <<>> /\ buffer'[p] = Tail(buffer[p])
    <3>1. \A i \in 1 .. Len(buffer'[p]) :
            i + 1 \in 1 .. Len(buffer[p]) /\ buffer'[p][i] = buffer[p][i + 1]
      BY <2>1, <2>3
    <3> QED BY <3>1
  <2> QED BY <2>2, <2>3
<1>2. IdleIsUnannounced'
  <2> SUFFICES ASSUME NEW t \in Trips, request'[t] = "idle", NEW p \in Partitions
               PROVE  /\ \A i \in 1 .. Len(log[p]) : log[p][i].trip # t
                      /\ \A i \in 1 .. Len(buffer'[p]) : buffer'[p][i].trip # t
    BY DEF IdleIsUnannounced
  <2> QED BY <1>1 DEF StoryFacts, IdleIsUnannounced
<1>3. BufferedRequestIsSole'
  <2> SUFFICES ASSUME NEW p \in Partitions, NEW i \in 1 .. Len(buffer'[p]),
                      buffer'[p][i].type = "TripRequested"
               PROVE  /\ \A k \in 1 .. Len(log[p]) : log[p][k].trip # buffer'[p][i].trip
                      /\ \A k \in 1 .. Len(buffer'[p]) :
                           buffer'[p][k].trip = buffer'[p][i].trip => k = i
    BY DEF BufferedRequestIsSole
  <2>1. PICK d \in {0, 1} : \A k \in 1 .. Len(buffer'[p]) :
          k + d \in 1 .. Len(buffer[p]) /\ buffer'[p][k] = buffer[p][k + d]
    BY <1>1
  <2>2. /\ \A k \in 1 .. Len(log[p]) : log[p][k].trip # buffer[p][i + d].trip
        /\ \A k \in 1 .. Len(buffer[p]) : buffer[p][k].trip = buffer[p][i + d].trip => k = i + d
    BY <2>1 DEF StoryFacts, BufferedRequestIsSole
  <2>3. ASSUME NEW k \in 1 .. Len(buffer'[p]), buffer'[p][k].trip = buffer'[p][i].trip
        PROVE  k = i
    <3>1. k + d = i + d
      BY <2>1, <2>2, <2>3
    <3> QED BY <3>1
  <2> QED BY <2>1, <2>2, <2>3
<1>4. BufferedNamesDriver'
  <2> SUFFICES ASSUME NEW p \in Partitions, NEW i \in 1 .. Len(buffer'[p]),
                      buffer'[p][i].type = "TripAssigned"
               PROVE  buffer'[p][i].driver \in Drivers
    BY DEF BufferedNamesDriver
  <2>1. PICK n \in 1 .. Len(buffer[p]) : buffer'[p][i] = buffer[p][n]
    BY <1>1
  <2> QED BY <2>1 DEF StoryFacts, BufferedNamesDriver
<1> QED BY <1>2, <1>3, <1>4 DEF StoryFacts

\* A record that is stored was its trip's only one, or follows the request.
LEMMA DeliverKeepsStory ==
  ASSUME StoryInv, NEW q \in Partitions, Deliver(q)
  PROVE  StoryFacts'
<1> DEFINE e == Head(buffer[q])
<1>1. /\ log[q] \in Seq(Event) /\ buffer[q] \in Seq(Event) /\ buffer[q] # <<>>
      /\ Len(log[q]) \in Nat /\ request' = request
  BY DEF StoryInv, TypeOK, Deliver
<1>2. /\ log'[q] = Append(log[q], e) /\ buffer'[q] = Tail(buffer[q])
      /\ \A p \in Partitions : p # q => log'[p] = log[p] /\ buffer'[p] = buffer[p]
  BY DEF StoryInv, Deliver, TypeOK
<1>3. 1 \in 1 .. Len(buffer[q]) /\ e = buffer[q][1] /\ e \in Event
  BY <1>1
<1>4. \A i \in 1 .. Len(buffer'[q]) :
        i + 1 \in 1 .. Len(buffer[q]) /\ i # 0 /\ buffer'[q][i] = buffer[q][i + 1]
  BY <1>1, <1>2
<1>5. \A k \in 1 .. Len(log'[q]) :
        \/ k \in 1 .. Len(log[q]) /\ log'[q][k] = log[q][k]
        \/ log'[q][k] = e
  BY <1>1, <1>2
<1> HIDE DEF e
<1>6. IdleIsUnannounced'
  <2> SUFFICES ASSUME NEW t \in Trips, request[t] = "idle", NEW p \in Partitions
               PROVE  /\ \A i \in 1 .. Len(log'[p]) : log'[p][i].trip # t
                      /\ \A i \in 1 .. Len(buffer'[p]) : buffer'[p][i].trip # t
    BY <1>1 DEF IdleIsUnannounced
  <2>1. /\ \A i \in 1 .. Len(log[p]) : log[p][i].trip # t
        /\ \A i \in 1 .. Len(buffer[p]) : buffer[p][i].trip # t
    BY DEF StoryInv, StoryFacts, IdleIsUnannounced
  <2>2. CASE p # q
    BY <1>2, <2>1, <2>2
  <2>3. CASE p = q
    BY <1>3, <1>4, <1>5, <2>1, <2>3
  <2> QED BY <2>2, <2>3
<1>7. BufferedRequestIsSole'
  <2> SUFFICES ASSUME NEW p \in Partitions, NEW i \in 1 .. Len(buffer'[p]),
                      buffer'[p][i].type = "TripRequested"
               PROVE  /\ \A k \in 1 .. Len(log'[p]) : log'[p][k].trip # buffer'[p][i].trip
                      /\ \A k \in 1 .. Len(buffer'[p]) :
                           buffer'[p][k].trip = buffer'[p][i].trip => k = i
    BY DEF BufferedRequestIsSole
  <2>1. CASE p # q
    BY <1>2, <2>1 DEF StoryInv, StoryFacts, BufferedRequestIsSole
  <2>2. CASE p = q
    <3>1. /\ \A k \in 1 .. Len(log[q]) : log[q][k].trip # buffer[q][i + 1].trip
          /\ \A k \in 1 .. Len(buffer[q]) :
               buffer[q][k].trip = buffer[q][i + 1].trip => k = i + 1
      BY <1>4, <2>2 DEF StoryInv, StoryFacts, BufferedRequestIsSole
    <3>2. e.trip # buffer[q][i + 1].trip
      <4>1. 1 # i + 1
        BY <1>1, <1>4, <2>2
      <4>2. buffer[q][1].trip # buffer[q][i + 1].trip
        BY <1>3, <3>1, <4>1
      <4> QED BY <1>3, <4>2
    <3>3. ASSUME NEW k \in 1 .. Len(buffer'[q]), buffer'[q][k].trip = buffer'[q][i].trip
          PROVE  k = i
      <4>1. k + 1 = i + 1
        BY <1>4, <2>2, <3>1, <3>3
      <4> QED BY <4>1
    <3> QED BY <1>4, <1>5, <2>2, <3>1, <3>2, <3>3
  <2> QED BY <2>1, <2>2
<1>8. BufferedNamesDriver'
  <2> SUFFICES ASSUME NEW p \in Partitions, NEW i \in 1 .. Len(buffer'[p]),
                      buffer'[p][i].type = "TripAssigned"
               PROVE  buffer'[p][i].driver \in Drivers
    BY DEF BufferedNamesDriver
  <2> QED BY <1>2, <1>4 DEF StoryInv, StoryFacts, BufferedNamesDriver
<1> QED BY <1>6, <1>7, <1>8 DEF StoryFacts
LEMMA StepKeepsStory ==
  ASSUME StoryInv, [Next]_vars
  PROVE  StoryFacts'
<1> USE DEF producerVars, listenerVars, historyVars
<1>1. TypeOK /\ StoryFacts
  BY DEF StoryInv
<1>2. ASSUME UNCHANGED <<buffer, log>>,
             \A t \in Trips : request'[t] = "idle" => request[t] = "idle"
      PROVE  StoryFacts'
  BY <1>1, <1>2, DroppingKeepsStory
<1>3. CASE UNCHANGED <<buffer, log, request>>
  BY <1>2, <1>3
<1>4. ASSUME NEW u \in Trips, RequestRide(u)
      PROVE  StoryFacts'
  <2>1. TripRequested(u) \in Event /\ TripRequested(u).trip = u
    BY EventTypesOK DEF TripRequested
  <2>2. \A t \in Trips : request'[t] = "idle" => request[t] = "idle" /\ t # u
    BY <1>1, <1>4 DEF RequestRide, SetRequest, TypeOK
  <2>3. TripRequested(u).type # "TripAssigned"
    BY DEF TripRequested
  <2>4. request[u] = "idle" /\ Send(TripRequested(u)) /\ log' = log
    BY <1>4 DEF RequestRide
  <2> QED BY <1>1, <2>1, <2>2, <2>3, <2>4, SendKeepsStory
<1>5. ASSUME NEW u \in Trips, request' = [request EXCEPT ![u] = request'[u]],
             request'[u] # "idle", UNCHANGED <<buffer, log>>
      PROVE  StoryFacts'
  <2>1. \A t \in Trips : request'[t] = "idle" => request[t] = "idle"
    BY <1>1, <1>5 DEF TypeOK
  <2> QED BY <1>2, <1>5, <2>1
<1>6. CASE \E t \in Trips : RequestThread(t)
  <2>1. ASSUME NEW t \in Trips, RequestThread(t), ~RequestRide(t)
        PROVE  /\ request' = [request EXCEPT ![t] = request'[t]]
               /\ request'[t] # "idle" /\ UNCHANGED <<buffer, log>>
    BY <1>1, <2>1
       DEF RequestThread, RequestRideThrows, CommitRequest, CommitRequestThrows,
           ReplyAccepted, SetRequest, TypeOK
  <2> QED BY <1>4, <1>5, <1>6, <2>1
<1>7. CASE AssignDriver
  <2> DEFINE e == TripAssigned(Record.trip, PickIndex(counter))
  <2>1. /\ current \in Partitions /\ Record.trip \in Trips
        /\ committed[current] + 1 \in 1 .. Len(log[current])
    BY <1>1, <1>7, RecordType DEF AssignDriver
  <2>2. e \in Event /\ e.driver \in Drivers
    BY <1>1, <2>1, CounterType, EventTypesOK DEF TypeOK, TripAssigned
  <2>3. e.trip = Record.trip /\ e.type = "TripAssigned"
    BY DEF TripAssigned
  <2>4. PartitionOf[e.trip] = current
    BY <2>1, <2>3 DEF StoryInv, OrderFacts, RecordsWellPlaced, WellPlaced, Record, NextOf
  <2>5. \E k \in 1 .. Len(log[PartitionOf[e.trip]]) :
          log[PartitionOf[e.trip]][k].trip = e.trip
    BY <2>1, <2>3, <2>4 DEF Record, NextOf
  <2>6. \A i \in 1 .. Len(log[current]) :
          \A t \in Trips : request[t] = "idle" => log[current][i].trip # t
    BY <1>1, <2>1 DEF StoryFacts, IdleIsUnannounced
  <2>7. request[e.trip] # "idle"
    BY <2>1, <2>3, <2>6 DEF Record, NextOf
  <2>8. Send(e) /\ log' = log /\ request' = request
    BY <1>7 DEF AssignDriver
  <2> HIDE DEF e
  <2> QED BY <1>1, <2>2, <2>3, <2>5, <2>7, <2>8, SendKeepsStory
<1>8. ASSUME NEW q \in Partitions, LoseRecord(q)
      PROVE  StoryFacts'
  BY <1>1, <1>8, DroppingKeepsStory DEF LoseRecord, TypeOK
<1>9. CASE Crash
  BY <1>1, <1>9, DroppingKeepsStory DEF Crash
<1>10. CASE Handling
  BY <1>3, <1>7, <1>10
     DEF Handling, SkipOtherType, TripNotFound, InvalidTransition, AssignDriverThrows,
         CommitAssignment, CommitAssignmentThrows, Ack, AckThrows
<1>11. CASE Idle \/ UNCHANGED vars \/ \E p \in Partitions : Polling(p)
  BY <1>3, <1>11 DEF Idle, vars, Polling, Poll, PollUndecodable
<1> QED BY <1>6, <1>8, <1>9, <1>10, <1>11, DeliverKeepsStory DEF Next, Sender

LEMMA StoryInvariant == Spec => []StoryInv
<1>1. Init => OrderFacts
  BY DEF Init, OrderFacts, RecordsWellPlaced, BufferedWasRequested, RequestedBeforeAssigned
<1>2. Init => StoryFacts
  BY DEF Init, StoryFacts, IdleIsUnannounced, BufferedRequestIsSole, BufferedNamesDriver
<1>3. Init => StoryInv
  BY <1>1, <1>2, InitTypeOK DEF StoryInv
<1>4. StoryInv /\ [Next]_vars => StoryInv'
  BY StepTypeOK, StepKeepsOrder, StepKeepsStory DEF StoryInv
<1> QED BY <1>3, <1>4, PTL DEF Spec

-------------------------------------------------------------------------------
(* The refinement.                                                         *)

\* What the log says changes only with the log.
Story == [t \in Trips |-> StoryOf(t)]

\* Storing a record puts a note behind all the others of its trip.
LEMMA DeliverTells ==
  ASSUME TypeOK, RecordsWellPlaced, NEW q \in Partitions, Deliver(q),
         NEW e \in Event, e = Head(buffer[q])
  PROVE  LET n == [at |-> Len(log[q]) + 1, driver |-> e.driver]
         IN  /\ e = buffer[q][1] /\ 1 \in 1 .. Len(buffer[q])
             /\ PartitionOf[e.trip] = q
             /\ \A m \in StoryOf(e.trip) : m.at < n.at
             /\ Story' = [Story EXCEPT ![e.trip] = @ \cup {n}]
<1> DEFINE n == [at |-> Len(log[q]) + 1, driver |-> e.driver]
<1>1. /\ log[q] \in Seq(Event) /\ buffer[q] \in Seq(Event) /\ buffer[q] # <<>>
      /\ Len(log[q]) \in Nat
  BY DEF TypeOK, Deliver
<1>2. log'[q] = Append(log[q], e) /\ \A p \in Partitions : p # q => log'[p] = log[p]
  BY DEF Deliver, TypeOK
<1>3. 1 \in 1 .. Len(buffer[q]) /\ e = buffer[q][1]
  BY <1>1
<1>4. PartitionOf[e.trip] = q /\ e.trip \in Trips
  BY <1>3 DEF RecordsWellPlaced, WellPlaced, Event
<1>5. /\ Len(log'[q]) = Len(log[q]) + 1 /\ log'[q][Len(log[q]) + 1] = e
      /\ \A i \in 1 .. Len(log[q]) : log'[q][i] = log[q][i]
  BY <1>1, <1>2
<1>6. 1 .. Len(log'[q]) = (1 .. Len(log[q])) \cup {Len(log[q]) + 1}
  BY <1>1, <1>5
<1>7. \A m \in StoryOf(e.trip) : m.at < n.at
  BY <1>1, <1>4 DEF StoryOf
<1>8. StoryOf(e.trip)' = StoryOf(e.trip) \cup {n}
  <2>1. {j \in 1 .. Len(log'[q]) : log'[q][j].trip = e.trip}
          = {j \in 1 .. Len(log[q]) : log[q][j].trip = e.trip} \cup {Len(log[q]) + 1}
    BY <1>5, <1>6
  <2> DEFINE I == {j \in 1 .. Len(log[q]) : log[q][j].trip = e.trip}
             J == {j \in 1 .. Len(log'[q]) : log'[q][j].trip = e.trip}
  <2>3. /\ J = I \cup {Len(log[q]) + 1} /\ n = [at |-> Len(log[q]) + 1, driver |-> e.driver]
        /\ \A i \in I : log'[q][i].driver = log[q][i].driver
        /\ log'[q][Len(log[q]) + 1].driver = e.driver
    BY <1>5, <2>1
  <2> HIDE DEF I, J, n
  <2>2. {[at |-> i, driver |-> log'[q][i].driver] : i \in J}
          = {[at |-> i, driver |-> log[q][i].driver] : i \in I} \cup {n}
    BY <2>3
  <2> USE DEF I, J
  <2> QED BY <1>4, <2>2 DEF StoryOf
<1>9. \A t \in Trips : t # e.trip => StoryOf(t)' = StoryOf(t)
  <2> SUFFICES ASSUME NEW t \in Trips, t # e.trip
               PROVE  StoryOf(t)' = StoryOf(t)
    OBVIOUS
  <2>1. CASE PartitionOf[t] # q
    <3>1. PartitionOf[t] \in Partitions
      BY DispatchAssumption
    <3> QED BY <1>2, <2>1, <3>1 DEF StoryOf
  <2>2. CASE PartitionOf[t] = q
    <3>1. {j \in 1 .. Len(log'[q]) : log'[q][j].trip = t}
            = {j \in 1 .. Len(log[q]) : log[q][j].trip = t}
      BY <1>5, <1>6
    <3>2. {[at |-> i, driver |-> log'[q][i].driver] :
             i \in {j \in 1 .. Len(log'[q]) : log'[q][j].trip = t}}
            = {[at |-> i, driver |-> log[q][i].driver] :
                 i \in {j \in 1 .. Len(log[q]) : log[q][j].trip = t}}
      BY <1>5, <3>1
    <3> QED BY <2>2, <3>2 DEF StoryOf
  <2> QED BY <2>1, <2>2
<1>10. Story' = [Story EXCEPT ![e.trip] = @ \cup {n}]
  BY <1>4, <1>8, <1>9 DEF Story
<1> QED BY <1>3, <1>4, <1>7, <1>10

\* Every step stores one record where the readers' story of its trip allows it,
\* or tells the readers nothing.
THEOREM StoryRefinement == Spec => ImplementsRideEvents
<1> USE DEF producerVars, listenerVars, historyVars
<1>1. Init => Feed!Init
  BY DispatchAssumption DEF Init, Feed!Init, StoryOf
<1>2. StoryInv /\ [Next]_vars => [Feed!Next]_Story
  <2> SUFFICES ASSUME StoryInv, [Next]_vars
               PROVE  Feed!Next \/ UNCHANGED Story
    OBVIOUS
  <2>1. CASE UNCHANGED log
    BY <2>1 DEF Story, StoryOf
  <2>2. ASSUME NEW q \in Partitions, Deliver(q)
        PROVE  Feed!Next
    <3>0. Head(buffer[q]) \in Event
      BY <2>2 DEF StoryInv, TypeOK, Deliver
    <3> PICK e \in Event : e = Head(buffer[q])
      BY <3>0
    <3> DEFINE n == [at |-> Len(log[q]) + 1, driver |-> e.driver]
    <3>1. /\ e = buffer[q][1] /\ 1 \in 1 .. Len(buffer[q])
          /\ PartitionOf[e.trip] = q
          /\ \A m \in StoryOf(e.trip) : m.at < n.at
          /\ Story' = [Story EXCEPT ![e.trip] = @ \cup {n}]
      BY <2>2, DeliverTells DEF StoryInv, OrderFacts
    <3>2. e.trip \in Trips /\ Story[e.trip] = StoryOf(e.trip)
      BY <3>1 DEF Event, Story
    <3>3. Feed!Tell(e.trip, n)
      BY <3>1, <3>2 DEF Feed!Tell, Story
    <3>4. n \in Story'[e.trip]
      BY <3>1, <3>2 DEF Story
    <3>5. CASE e.type = "TripRequested"
      <4>1. \A k \in 1 .. Len(log[q]) : log[q][k].trip # e.trip
        BY <3>1, <3>5 DEF StoryInv, StoryFacts, BufferedRequestIsSole
      <4>2. StoryOf(e.trip) = {}
        BY <3>1, <4>1 DEF StoryOf
      <4>3. n.driver = NoDriver
        <5>1. e = TripRequested(e.trip)
          BY <3>1, <3>5 DEF StoryInv, OrderFacts, RecordsWellPlaced, WellPlaced
        <5> QED BY <5>1 DEF TripRequested
      <4>4. Feed!Request(e.trip)
        BY <3>2, <3>3, <3>4, <4>2, <4>3 DEF Feed!Request, Story
      <4> QED BY <3>2, <4>4 DEF Feed!Next
    <3>6. CASE e.type = "TripAssigned"
      <4>1. PICK k \in 1 .. Len(log[q]) : log[q][k] = TripRequested(e.trip)
        BY <3>1, <3>6 DEF StoryInv, OrderFacts, BufferedWasRequested
      <4>2. log[q][k].trip = e.trip
        BY <4>1 DEF TripRequested
      <4>3. StoryOf(e.trip) # {}
        BY <3>1, <4>2 DEF StoryOf
      <4>4. n.driver \in Drivers
        BY <3>1, <3>6 DEF StoryInv, StoryFacts, BufferedNamesDriver
      <4>5. Feed!Assign(e.trip)
        BY <3>2, <3>3, <3>4, <4>3, <4>4 DEF Feed!Assign, Story
      <4> QED BY <3>2, <4>5 DEF Feed!Next
    <3> QED BY <3>1, <3>5, <3>6 DEF Event, EventTypes
  <2>3. CASE \E t \in Trips : RequestThread(t)
    BY <2>1, <2>3
       DEF RequestThread, RequestRide, RequestRideThrows, CommitRequest,
           CommitRequestThrows, ReplyAccepted
  <2>4. CASE Handling
    BY <2>1, <2>4
       DEF Handling, SkipOtherType, TripNotFound, InvalidTransition, AssignDriver,
           AssignDriverThrows, CommitAssignment, CommitAssignmentThrows, Ack, AckThrows
  <2>5. CASE \/ Crash \/ Idle \/ UNCHANGED vars
             \/ \E p \in Partitions : LoseRecord(p) \/ Polling(p)
    BY <2>1, <2>5 DEF Crash, Idle, vars, LoseRecord, Polling, Poll, PollUndecodable
  <2> QED BY <2>2, <2>3, <2>4, <2>5 DEF Next, Sender
<1> QED BY <1>1, <1>2, StoryInvariant, PTL DEF Spec, ImplementsRideEvents, Feed!Spec, Story


-------------------------------------------------------------------------------
(* What is handed to the producer, as a sequence.                          *)

\* Sequence r is s without its place k.
Without(r, s, k) ==
  /\ k \in 1 .. Len(s) /\ Len(s) = Len(r) + 1
  /\ \A i \in 1 .. Len(r) : r[i] = s[IF i < k THEN i ELSE i + 1]

\* Sequence r is the beginning of s.
Begins(r, s) == Len(r) <= Len(s) /\ \A i \in 1 .. Len(r) : r[i] = s[i]

\* Storing moves a record, buffering adds one at the end, an expiry takes the one
\* behind the log away, a crash takes all that is behind the log.
LEMMA ConcatFacts ==
  ASSUME NEW s \in Seq(Event), NEW b \in Seq(Event)
  PROVE  /\ s \o b \in Seq(Event)
         /\ b # <<>> => /\ Append(s, Head(b)) \o Tail(b) = s \o b
                        /\ Without(s \o Tail(b), s \o b, Len(s) + 1)
                        /\ (s \o b)[Len(s) + 1] = Head(b)
         /\ Begins(s, s \o b)
         /\ \A i \in 1 .. Len(s \o b) :
              i \in 1 .. Len(s) \/ \E j \in 1 .. Len(b) : (s \o b)[i] = b[j]
         /\ s \o << >> = s
<1>1. /\ s \o b \in Seq(Event) /\ Len(s \o b) = Len(s) + Len(b)
      /\ \A i \in 1 .. Len(s) : (s \o b)[i] = s[i]
      /\ \A i \in 1 .. Len(b) : (s \o b)[Len(s) + i] = b[i]
      /\ Len(s) \in Nat /\ Len(b) \in Nat
  OBVIOUS
<1>3. ASSUME b # <<>>
      PROVE  /\ Append(s, Head(b)) \o Tail(b) = s \o b
             /\ Without(s \o Tail(b), s \o b, Len(s) + 1)
             /\ (s \o b)[Len(s) + 1] = Head(b)
  <2>1. Append(s, Head(b)) \o Tail(b) = s \o b
    BY <1>3
  <2>2. Tail(b) \in Seq(Event) /\ Len(b) = Len(Tail(b)) + 1
        /\ \A i \in 1 .. Len(Tail(b)) : Tail(b)[i] = b[i + 1]
    BY <1>3
  <2>3. /\ Len(s \o Tail(b)) = Len(s) + Len(Tail(b))
        /\ \A i \in 1 .. Len(s) : (s \o Tail(b))[i] = s[i]
        /\ \A i \in 1 .. Len(Tail(b)) : (s \o Tail(b))[Len(s) + i] = Tail(b)[i]
    BY <2>2
  <2>4. Len(Tail(b)) \in Nat
    BY <2>2
  <2> DEFINE r == s \o Tail(b)  u == s \o b
  <2>5. ASSUME NEW i \in 1 .. Len(r)
        PROVE  r[i] = u[IF i < Len(s) + 1 THEN i ELSE i + 1]
    <3>1. CASE i <= Len(s)
      BY <1>1, <2>3, <3>1
    <3>2. CASE i > Len(s)
      <4>1. PICK j \in 1 .. Len(Tail(b)) : i = Len(s) + j
        <5>1. i - Len(s) \in 1 .. Len(Tail(b)) /\ i = Len(s) + (i - Len(s))
          BY <1>1, <2>3, <2>4, <3>2
        <5> QED BY <5>1
      <4>2. r[i] = b[j + 1]
        BY <2>2, <2>3, <4>1
      <4>3. j + 1 \in 1 .. Len(b) /\ i + 1 = Len(s) + (j + 1)
        BY <1>1, <2>2, <2>4, <4>1
      <4>4. u[i + 1] = b[j + 1]
        BY <1>1, <4>3
      <4> QED BY <1>1, <3>2, <4>2, <4>4
    <3> QED BY <1>1, <3>1, <3>2
  <2>6. Without(r, u, Len(s) + 1)
    <3>1. Len(s) + 1 \in 1 .. Len(u) /\ Len(u) = Len(r) + 1
      BY <1>1, <2>2, <2>3, <2>4
    <3> HIDE DEF r, u
    <3> QED BY <2>5, <3>1 DEF Without
  <2>7. (s \o b)[Len(s) + 1] = Head(b)
    BY <1>1, <1>3
  <2> QED BY <2>1, <2>6, <2>7
<1>4. Begins(s, s \o b)
  BY <1>1 DEF Begins
<1>5. ASSUME NEW i \in 1 .. Len(s \o b), i \notin 1 .. Len(s)
      PROVE  \E j \in 1 .. Len(b) : (s \o b)[i] = b[j]
  <2>1. i - Len(s) \in 1 .. Len(b) /\ i = Len(s) + (i - Len(s))
    BY <1>1, <1>5
  <2> QED BY <1>1, <2>1
<1>6. s \o << >> = s
  OBVIOUS
<1> QED BY <1>1, <1>3, <1>4, <1>5, <1>6

LEMMA ConcatAppend ==
  ASSUME NEW s \in Seq(Event), NEW b \in Seq(Event), NEW e \in Event
  PROVE  s \o Append(b, e) = Append(s \o b, e)
OBVIOUS

\* What a step does to everything handed to the producer for a partition.
SentKept(p) == Sent(p)' = Sent(p)

SentGrows(p, e) ==
  /\ Sent(p)' = Append(Sent(p), e) /\ PartitionOf[e.trip] = p
  /\ \/ \E t \in Trips : RequestRide(t) /\ e = TripRequested(t)
     \/ AssignDriver /\ e = TripAssigned(Record.trip, PickIndex(counter))

SentExpires(p) ==
  /\ LoseRecord(p)
  /\ \E k \in 1 .. Len(Sent(p)) : Without(Sent(p)', Sent(p), k) /\ Sent(p)[k] \in lost'

SentCrashes(p) ==
  /\ Crash /\ Begins(Sent(p)', Sent(p))
  /\ \A i \in 1 .. Len(Sent(p)) : i \in 1 .. Len(Sent(p)') \/ Sent(p)[i] \in lost'

LEMMA StepOfSent ==
  ASSUME TypeOK, [Next]_vars, NEW p \in Partitions
  PROVE  /\ Sent(p) \in Seq(Event) /\ Sent(p)' \in Seq(Event)
         /\ lost \subseteq lost'
         /\ \/ SentKept(p) \/ SentExpires(p) \/ SentCrashes(p)
            \/ \E e \in Event : SentGrows(p, e)
<1> USE DEF producerVars, listenerVars, historyVars
<1>1. log[p] \in Seq(Event) /\ buffer[p] \in Seq(Event)
  BY DEF TypeOK
<1>2. log'[p] \in Seq(Event) /\ buffer'[p] \in Seq(Event)
  BY StepTypeOK DEF TypeOK
<1>3. Sent(p) \in Seq(Event) /\ Sent(p)' \in Seq(Event)
  BY <1>1, <1>2, ConcatFacts DEF Sent
<1>4. lost \subseteq lost'
  BY DEF Next, RequestThread, RequestRide, RequestRideThrows, CommitRequest,
         CommitRequestThrows, ReplyAccepted, Sender, Deliver, LoseRecord, Polling, Poll,
         PollUndecodable, Handling, SkipOtherType, TripNotFound, InvalidTransition,
         AssignDriver, AssignDriverThrows, CommitAssignment, CommitAssignmentThrows, Ack,
         AckThrows, Crash, Idle, vars
<1> SUFFICES \/ SentKept(p) \/ SentExpires(p) \/ SentCrashes(p)
             \/ \E e \in Event : SentGrows(p, e)
  BY <1>3, <1>4
<1>5. ASSUME log'[p] = log[p], buffer'[p] = buffer[p]
      PROVE  SentKept(p)
  BY <1>5 DEF SentKept, Sent
<1>6. ASSUME NEW e \in Event, Send(e), log' = log,
             \/ \E t \in Trips : RequestRide(t) /\ e = TripRequested(t)
             \/ AssignDriver /\ e = TripAssigned(Record.trip, PickIndex(counter))
      PROVE  SentKept(p) \/ \E f \in Event : SentGrows(p, f)
  <2>1. PartitionOf[e.trip] \in Partitions
    BY DispatchAssumption DEF Event
  <2>2. CASE PartitionOf[e.trip] = p
    <3>1. buffer'[p] = Append(buffer[p], e)
      BY <1>6, <2>2 DEF Send, TypeOK
    <3>2. Sent(p)' = Append(Sent(p), e)
      BY <1>1, <1>6, <3>1, ConcatAppend DEF Sent
    <3>3. SentGrows(p, e)
      BY <1>6, <2>2, <3>2 DEF SentGrows
    <3> QED BY <3>3
  <2>3. CASE PartitionOf[e.trip] # p
    <3>1. buffer'[p] = buffer[p]
      BY <1>6, <2>1, <2>3 DEF Send, TypeOK
    <3> QED BY <1>6, <3>1 DEF SentKept, Sent
  <2> QED BY <2>2, <2>3
<1>7. ASSUME NEW t \in Trips, RequestRide(t)
      PROVE  SentKept(p) \/ \E f \in Event : SentGrows(p, f)
  BY <1>6, <1>7, EventTypesOK DEF RequestRide
<1>8. CASE AssignDriver
  <2>1. Record.trip \in Trips
    BY <1>8, RecordType DEF AssignDriver
  <2>2. TripAssigned(Record.trip, PickIndex(counter)) \in Event
    BY <2>1, CounterType, EventTypesOK DEF TypeOK
  <2>3. Send(TripAssigned(Record.trip, PickIndex(counter))) /\ log' = log
    BY <1>8 DEF AssignDriver
  <2> QED BY <1>6, <1>8, <2>2, <2>3
<1>9. ASSUME NEW q \in Partitions, Deliver(q)
      PROVE  SentKept(p)
  <2>1. CASE q = p
    <3>1. /\ buffer[p] # <<>> /\ log'[p] = Append(log[p], Head(buffer[p]))
          /\ buffer'[p] = Tail(buffer[p])
      BY <1>9, <2>1 DEF Deliver, TypeOK
    <3>2. Append(log[p], Head(buffer[p])) \o Tail(buffer[p]) = log[p] \o buffer[p]
      BY <1>1, <3>1, ConcatFacts
    <3> QED BY <3>1, <3>2 DEF SentKept, Sent
  <2>2. CASE q # p
    BY <1>5, <1>9, <2>2 DEF Deliver, TypeOK
  <2> QED BY <2>1, <2>2
<1>10. ASSUME NEW q \in Partitions, LoseRecord(q)
       PROVE  SentKept(p) \/ SentExpires(p)
  <2>1. CASE q = p
    <3>1. /\ buffer[p] # <<>> /\ log' = log /\ buffer'[p] = Tail(buffer[p])
          /\ Head(buffer[p]) \in lost'
      BY <1>10, <2>1 DEF LoseRecord, TypeOK
    <3>2. /\ Without(Sent(p)', Sent(p), Len(log[p]) + 1)
          /\ Sent(p)[Len(log[p]) + 1] \in lost'
      BY <1>1, <3>1, ConcatFacts DEF Sent
    <3>3. Len(log[p]) + 1 \in 1 .. Len(Sent(p))
      BY <3>2 DEF Without
    <3> QED BY <1>10, <2>1, <3>2, <3>3 DEF SentExpires
  <2>2. CASE q # p
    BY <1>5, <1>10, <2>2 DEF LoseRecord, TypeOK
  <2> QED BY <2>1, <2>2
<1>11. CASE Crash
  <2>1. log' = log /\ buffer'[p] = << >>
    BY <1>11 DEF Crash
  <2>2. Sent(p)' = log[p]
    BY <1>1, <2>1, ConcatFacts DEF Sent
  <2>3. \A j \in 1 .. Len(buffer[p]) : buffer[p][j] \in lost'
    BY <1>11 DEF Crash
  <2>4. Begins(log[p], Sent(p))
        /\ \A i \in 1 .. Len(Sent(p)) :
             i \in 1 .. Len(log[p]) \/ \E j \in 1 .. Len(buffer[p]) : Sent(p)[i] = buffer[p][j]
    BY <1>1, ConcatFacts DEF Sent
  <2>5. \A i \in 1 .. Len(Sent(p)) : i \in 1 .. Len(log[p]) \/ Sent(p)[i] \in lost'
    BY <2>3, <2>4
  <2> QED BY <1>11, <2>2, <2>4, <2>5 DEF SentCrashes
<1>12. CASE \E t \in Trips : RequestThread(t)
  BY <1>5, <1>7, <1>12
     DEF RequestThread, RequestRideThrows, CommitRequest, CommitRequestThrows, ReplyAccepted
<1>13. CASE Handling
  BY <1>5, <1>8, <1>13
     DEF Handling, SkipOtherType, TripNotFound, InvalidTransition, AssignDriverThrows,
         CommitAssignment, CommitAssignmentThrows, Ack, AckThrows
<1>14. CASE Idle \/ UNCHANGED vars \/ \E q \in Partitions : Polling(q)
  BY <1>5, <1>14 DEF Idle, vars, Polling, Poll, PollUndecodable
<1> QED BY <1>3, <1>4, <1>9, <1>10, <1>11, <1>12, <1>13, <1>14 DEF Next, Sender

-------------------------------------------------------------------------------
(* The last announcement of a trip.                                        *)

\* The driver was announced and no other after it, or the announcement was lost.
LastIs(s, e) == \E i \in 1 .. Len(s) : s[i] = e /\ IsLastAnnouncement(s, i)

Announced(t, d) ==
  TripAssigned(t, d) \in lost \/ LastIs(Sent(PartitionOf[t]), TripAssigned(t, d))

\* What the rows say of drivers is announced, and so is the driver of the open
\* assignment.
AnnouncedInv ==
  /\ AssignedIsAnnounced
  /\ \A t \in Trips : trips[t].status = "ASSIGNED" => trips[t].driver \in Drivers
  /\ pc = "assigned" => Announced(Record.trip, chosen)

\* Records of other trips, and requests, leave it the last one.
LEMMA AppendKeepsLast ==
  ASSUME NEW s \in Seq(Event), NEW e \in Event, LastIs(s, e), NEW f \in Event,
         ~(f.type = "TripAssigned" /\ f.trip = e.trip)
  PROVE  LastIs(Append(s, f), e)
<1>1. PICK i \in 1 .. Len(s) : s[i] = e /\ IsLastAnnouncement(s, i)
  BY DEF LastIs
<1>2. /\ Len(Append(s, f)) = Len(s) + 1 /\ Append(s, f)[Len(s) + 1] = f
      /\ \A j \in 1 .. Len(s) : Append(s, f)[j] = s[j]
      /\ Len(s) \in Nat
  OBVIOUS
<1>3. IsLastAnnouncement(Append(s, f), i)
  <2> SUFFICES ASSUME NEW j \in i + 1 .. Len(s) + 1,
                      Append(s, f)[j].type = "TripAssigned", Append(s, f)[j].trip = e.trip
               PROVE  FALSE
    BY <1>1, <1>2 DEF IsLastAnnouncement
  <2>1. CASE j = Len(s) + 1
    BY <1>2, <2>1
  <2>2. CASE j \in i + 1 .. Len(s)
    BY <1>1, <1>2, <2>2 DEF IsLastAnnouncement
  <2> QED BY <1>2, <2>1, <2>2
<1> QED BY <1>1, <1>2, <1>3 DEF LastIs

LEMMA AppendedIsLast ==
  ASSUME NEW s \in Seq(Event), NEW e \in Event
  PROVE  LastIs(Append(s, e), e)
<1>1. /\ Len(Append(s, e)) = Len(s) + 1 /\ Append(s, e)[Len(s) + 1] = e
      /\ Len(s) \in Nat
  OBVIOUS
<1>2. IsLastAnnouncement(Append(s, e), Len(s) + 1)
  BY <1>1 DEF IsLastAnnouncement
<1> QED BY <1>1, <1>2 DEF LastIs

\* Another record that goes leaves it the last one.
LEMMA WithoutKeepsLast ==
  ASSUME NEW r \in Seq(Event), NEW s \in Seq(Event), NEW k \in 1 .. Len(s), Without(r, s, k),
         NEW e, LastIs(s, e)
  PROVE  s[k] = e \/ LastIs(r, e)
<1>1. PICK i \in 1 .. Len(s) : s[i] = e /\ IsLastAnnouncement(s, i)
  BY DEF LastIs
<1>2. Len(r) \in Nat /\ Len(s) = Len(r) + 1
  BY DEF Without
<1> SUFFICES ASSUME s[k] # e PROVE LastIs(r, e)
  OBVIOUS
<1> DEFINE h == IF i < k THEN i ELSE i - 1
<1>3. h \in 1 .. Len(r) /\ r[h] = e
  <2>1. i # k
    BY <1>1
  <2>2. h \in 1 .. Len(r) /\ (IF h < k THEN h ELSE h + 1) = i
    BY <1>2, <2>1
  <2> QED BY <1>1, <2>2 DEF Without
<1>4. IsLastAnnouncement(r, h)
  <2> SUFFICES ASSUME NEW j \in h + 1 .. Len(r),
                      r[j].type = "TripAssigned", r[j].trip = e.trip
               PROVE  FALSE
    BY <1>3 DEF IsLastAnnouncement
  <2>1. PICK m \in i + 1 .. Len(s) : r[j] = s[m]
    <3> DEFINE m == IF j < k THEN j ELSE j + 1
    <3>1. i # k
      BY <1>1
    <3>2. m \in i + 1 .. Len(s) /\ j \in 1 .. Len(r)
      BY <1>2, <1>3, <3>1
    <3> QED BY <3>2 DEF Without
  <2> QED BY <1>1, <2>1 DEF IsLastAnnouncement
<1> QED BY <1>3, <1>4 DEF LastIs

\* Records that go from the end leave it the last one, unless it goes too.
LEMMA BeginsKeepsLast ==
  ASSUME NEW r \in Seq(Event), NEW s \in Seq(Event), Begins(r, s), NEW e, LastIs(s, e)
  PROVE  LastIs(r, e) \/ \E i \in 1 .. Len(s) : i \notin 1 .. Len(r) /\ s[i] = e
<1>1. PICK i \in 1 .. Len(s) : s[i] = e /\ IsLastAnnouncement(s, i)
  BY DEF LastIs
<1>2. ASSUME i \in 1 .. Len(r)
      PROVE  LastIs(r, e)
  <2>1. r[i] = e /\ IsLastAnnouncement(r, i)
    BY <1>1, <1>2 DEF Begins, IsLastAnnouncement
  <2> QED BY <1>2, <2>1 DEF LastIs
<1> QED BY <1>1, <1>2

\* A driver stays announced until another is announced for the trip.
LEMMA AnnouncedStays ==
  ASSUME TypeOK, [Next]_vars, NEW t \in Trips, NEW d \in Drivers, Announced(t, d),
         AssignDriver => Record.trip # t
  PROVE  Announced(t, d)'
<1> DEFINE p == PartitionOf[t]  e == TripAssigned(t, d)
<1>1. p \in Partitions /\ e \in Event /\ e.trip = t
  BY DispatchAssumption, EventTypesOK DEF TripAssigned
<1> SUFFICES ASSUME LastIs(Sent(p), e) PROVE Announced(t, d)'
  BY <1>1, StepOfSent DEF Announced
<1>2. Sent(p) \in Seq(Event) /\ Sent(p)' \in Seq(Event)
  BY <1>1, StepOfSent
<1>3. CASE SentKept(p)
  BY <1>3 DEF SentKept, Announced, LastIs, IsLastAnnouncement
<1>4. CASE SentExpires(p)
  <2>1. PICK k \in 1 .. Len(Sent(p)) : Without(Sent(p)', Sent(p), k) /\ Sent(p)[k] \in lost'
    BY <1>4 DEF SentExpires
  <2>2. Sent(p)[k] = e \/ LastIs(Sent(p)', e)
    BY <1>2, <2>1, WithoutKeepsLast
  <2> QED BY <2>1, <2>2 DEF Announced, LastIs, IsLastAnnouncement
<1>5. CASE SentCrashes(p)
  <2>1. LastIs(Sent(p)', e)
          \/ \E i \in 1 .. Len(Sent(p)) : i \notin 1 .. Len(Sent(p)') /\ Sent(p)[i] = e
    BY <1>2, <1>5, BeginsKeepsLast DEF SentCrashes
  <2> QED BY <1>5, <2>1 DEF SentCrashes, Announced, LastIs, IsLastAnnouncement
<1>6. ASSUME NEW f \in Event, SentGrows(p, f)
      PROVE  Announced(t, d)'
  <2>1. ~(f.type = "TripAssigned" /\ f.trip = e.trip)
    BY <1>1, <1>6 DEF SentGrows, TripRequested, TripAssigned
  <2>2. LastIs(Sent(p)', e)
    BY <1>1, <1>2, <1>6, <2>1, AppendKeepsLast DEF SentGrows
  <2> QED BY <2>2 DEF Announced, LastIs, IsLastAnnouncement
<1> QED BY <1>1, <1>3, <1>4, <1>5, <1>6, StepOfSent

\* A row that says ASSIGNED after a step said so before, or the open assignment
\* wrote it.
LEMMA AssignedComesFrom ==
  ASSUME RowInv, [Next]_vars, NEW t \in Trips, trips'[t].status = "ASSIGNED"
  PROVE  \/ trips'[t] = trips[t] /\ (AssignDriver => Record.trip # t)
         \/ pc = "assigned" /\ Record.trip = t /\ trips'[t].driver = chosen
<1> USE DEF producerVars, listenerVars, historyVars
<1>1. TypeOK /\ RowsFollowRequests
  BY DEF RowInv
<1>2. AssignDriver => trips'[t] = trips[t] /\ Record.trip # t
  BY DEF AssignDriver, Assignable, Table!CanTransitionTo, Table!ValidTransitions
<1>3. (pc = "assigned" /\ WriteAssignment)
        => \/ trips'[t] = trips[t] /\ ~AssignDriver
           \/ pc = "assigned" /\ Record.trip = t /\ trips'[t].driver = chosen
  BY <1>1 DEF WriteAssignment, TypeOK, AssignDriver
<1>4. UNCHANGED trips => trips'[t] = trips[t] /\ (AssignDriver => Record.trip # t)
  BY <1>2
<1>5. ASSUME NEW u \in Trips, InsertRow(u)
      PROVE  trips'[t] = trips[t]
  BY <1>1, <1>5 DEF InsertRow, TypeOK
<1>6. CASE \E u \in Trips : RequestThread(u)
  <2>1. UNCHANGED trips \/ \E u \in Trips : InsertRow(u)
    BY <1>6 DEF RequestThread, RequestRide, RequestRideThrows, CommitRequest,
                CommitRequestThrows, ReplyAccepted
  <2> QED BY <1>2, <1>5, <2>1
<1>7. CASE Handling
  BY <1>3, <1>4, <1>7
     DEF Handling, SkipOtherType, TripNotFound, InvalidTransition, AssignDriver,
         AssignDriverThrows, CommitAssignment, CommitAssignmentThrows, Ack, AckThrows
<1>8. CASE Crash \/ Idle \/ UNCHANGED vars \/ \E p \in Partitions : Sender(p) \/ Polling(p)
  BY <1>4, <1>8
     DEF Crash, Idle, vars, Sender, Polling, Deliver, LoseRecord, Poll, PollUndecodable
<1> QED BY <1>6, <1>7, <1>8 DEF Next

\* The listener's transaction is open because it was just opened, or it was
\* before, for the same trip and driver.
LEMMA OpenComesFrom ==
  ASSUME TypeOK, [Next]_vars, pc' = "assigned"
  PROVE  /\ Record' = Record /\ Record.trip \in Trips
         /\ \/ AssignDriver /\ chosen' = PickIndex(counter)
            \/ pc = "assigned" /\ chosen' = chosen
<1> USE DEF producerVars, listenerVars, historyVars
<1>1. /\ UNCHANGED <<current, committed>> /\ pc # "poll"
      /\ \/ AssignDriver /\ chosen' = PickIndex(counter)
         \/ pc = "assigned" /\ chosen' = chosen
  <2>1. CASE \E u \in Trips : RequestThread(u)
    BY <2>1 DEF RequestThread, RequestRide, RequestRideThrows, CommitRequest,
                CommitRequestThrows, ReplyAccepted
  <2>2. CASE Handling
    BY <2>2 DEF Handling, SkipOtherType, TripNotFound, InvalidTransition, AssignDriver,
                AssignDriverThrows, CommitAssignment, CommitAssignmentThrows, Ack,
                AckThrows, BackToPoll
  <2>3. CASE Crash \/ Idle \/ UNCHANGED vars \/ \E p \in Partitions : Sender(p) \/ Polling(p)
    BY <2>3 DEF Crash, BackToPoll, Idle, vars, Sender, Polling, Deliver, LoseRecord, Poll,
                PollUndecodable
  <2> QED BY <2>1, <2>2, <2>3 DEF Next
<1>2. Record' = Record /\ Record.trip \in Trips
  BY <1>1, StepKeepsRecord
<1> QED BY <1>1, <1>2

LEMMA StepAnnounced ==
  ASSUME RowInv, AnnouncedInv, [Next]_vars
  PROVE  AnnouncedInv'
<1>1. TypeOK /\ TypeOK'
  BY StepTypeOK DEF RowInv
<1>2. ASSUME NEW t \in Trips, trips[t].status = "ASSIGNED"
      PROVE  trips[t].driver \in Drivers /\ Announced(t, trips[t].driver)
  BY <1>1, <1>2 DEF TypeOK, Table!Row, AnnouncedInv, AssignedIsAnnounced, Announced, LastIs
<1>3. pc = "assigned" => /\ Record.trip \in Trips /\ chosen \in Drivers
                         /\ Announced(Record.trip, chosen)
                         /\ ~AssignDriver
  BY <1>1, RecordType DEF TypeOK, AnnouncedInv, AssignDriver
<1>4. ASSUME NEW t \in Trips, NEW d \in Drivers, trips'[t].status = "ASSIGNED",
             trips'[t].driver = d
      PROVE  Announced(t, d)'
  <2>1. CASE trips'[t] = trips[t] /\ (AssignDriver => Record.trip # t)
    BY <1>1, <1>2, <1>4, <2>1, AnnouncedStays
  <2>2. CASE pc = "assigned" /\ Record.trip = t /\ trips'[t].driver = chosen
    BY <1>1, <1>3, <1>4, <2>2, AnnouncedStays
  <2> QED BY <1>4, <2>1, <2>2, AssignedComesFrom
<1>5. ASSUME NEW t \in Trips, trips'[t].status = "ASSIGNED"
      PROVE  trips'[t].driver \in Drivers
  BY <1>3, <1>5, AssignedComesFrom DEF AnnouncedInv
<1>6. AssignedIsAnnounced'
  <2> SUFFICES ASSUME NEW t \in Trips, trips'[t].status = "ASSIGNED",
                      NEW d \in Drivers, trips'[t].driver = d
               PROVE  \/ TripAssigned(t, d) \in lost'
                      \/ \E i \in 1 .. Len(Sent(PartitionOf[t])') :
                           /\ Sent(PartitionOf[t])'[i] = TripAssigned(t, d)
                           /\ IsLastAnnouncement(Sent(PartitionOf[t])', i)
    BY <1>5 DEF AssignedIsAnnounced, IsLastAnnouncement
  <2>1. Announced(t, d)'
    BY <1>4
  <2> QED BY <2>1 DEF Announced, LastIs, IsLastAnnouncement
<1>7. ASSUME pc' = "assigned", NEW t \in Trips, t = Record.trip, NEW d \in Drivers,
             d = chosen'
      PROVE  Announced(t, d)'
  <2>1. CASE AssignDriver /\ chosen' = PickIndex(counter)
    <3> DEFINE p == PartitionOf[t]  e == TripAssigned(t, d)
    <3>1. p \in Partitions /\ e \in Event /\ e.trip = t
      BY DispatchAssumption, EventTypesOK DEF TripAssigned
    <3>2. log' = log /\ buffer'[p] = Append(buffer[p], e)
      BY <1>1, <1>7, <2>1, <3>1 DEF AssignDriver, Send, TypeOK
    <3>3. log[p] \in Seq(Event) /\ buffer[p] \in Seq(Event)
      BY <1>1, <3>1 DEF TypeOK
    <3>4. /\ log[p] \o Append(buffer[p], e) = Append(log[p] \o buffer[p], e)
          /\ log[p] \o buffer[p] \in Seq(Event)
      <4> HIDE DEF p, e
      <4>1. log[p] \o Append(buffer[p], e) = Append(log[p] \o buffer[p], e)
        BY <3>1, <3>3, ConcatAppend
      <4> QED BY <3>3, <4>1, ConcatFacts
    <3>6. Sent(p)' = Append(Sent(p), e) /\ Sent(p) \in Seq(Event)
      BY <3>2, <3>4 DEF Sent
    <3>5. LastIs(Sent(p)', e)
      BY <3>1, <3>6, AppendedIsLast
    <3> QED BY <3>5 DEF Announced, LastIs, IsLastAnnouncement
  <2>2. CASE pc = "assigned" /\ chosen' = chosen
    BY <1>1, <1>3, <1>7, <2>2, AnnouncedStays
  <2> QED BY <1>1, <1>7, <2>1, <2>2, OpenComesFrom
<1>8. ASSUME pc' = "assigned"
      PROVE  Announced(Record.trip, chosen)'
  <2>1. Record' = Record /\ Record.trip \in Trips
    BY <1>1, <1>8, OpenComesFrom
  <2>2. chosen' \in Drivers
    BY <1>1, <1>8 DEF TypeOK
  <2>3. PICK t \in Trips : t = Record.trip
    BY <2>1
  <2>4. PICK d \in Drivers : d = chosen'
    BY <2>2
  <2>5. Announced(t, d)'
    BY <1>7, <1>8, <2>3, <2>4
  <2>6. t = Record.trip'
    BY <2>1, <2>3
  <2> QED BY <2>4, <2>5, <2>6 DEF Announced
<1> QED BY <1>5, <1>6, <1>8 DEF AnnouncedInv

LEMMA InitAnnounced == Init => AnnouncedInv
BY DEF Init, AnnouncedInv, AssignedIsAnnounced, Table!NoRow

\* A row that says ASSIGNED has its driver announced last, or the announcement is
\* among the lost records.
THEOREM AssignedIsAnnouncedHolds == Spec => []AssignedIsAnnounced
<1>1. AnnouncedInv => AssignedIsAnnounced
  BY DEF AnnouncedInv
<1> QED BY <1>1, InitAnnounced, StepAnnounced, RowInvariant, PTL DEF Spec

-------------------------------------------------------------------------------
(* Counting announcements.                                                 *)

\* The places of s with an announcement of t.
AnnouncementsOf(s, t) == {i \in 1 .. Len(s) : s[i].type = "TripAssigned" /\ s[i].trip = t}

LEMMA FiniteAnnouncements ==
  ASSUME NEW s \in Seq(Event), NEW t
  PROVE  /\ IsFiniteSet(AnnouncementsOf(s, t))
         /\ Cardinality(AnnouncementsOf(s, t)) \in Nat
<1>1. IsFiniteSet(1 .. Len(s))
  BY FS_Interval
<1>2. AnnouncementsOf(s, t) \in SUBSET (1 .. Len(s))
  BY DEF AnnouncementsOf
<1> QED BY <1>1, <1>2, FS_Subset, FS_CardinalityType

\* One more record is at most one more announcement.
LEMMA AppendCount ==
  ASSUME NEW s \in Seq(Event), NEW t, NEW e \in Event
  PROVE  Cardinality(AnnouncementsOf(Append(s, e), t))
           <= Cardinality(AnnouncementsOf(s, t))
                + IF e.type = "TripAssigned" /\ e.trip = t THEN 1 ELSE 0
<1> DEFINE A == AnnouncementsOf(s, t)  n == Len(s) + 1
<1>1. Append(s, e) \in Seq(Event) /\ Len(Append(s, e)) = n /\ Append(s, e)[n] = e
      /\ n \in Nat /\ \A i \in 1 .. Len(s) : Append(s, e)[i] = s[i]
  OBVIOUS
<1>2. AnnouncementsOf(Append(s, e), t) \subseteq
        A \cup (IF e.type = "TripAssigned" /\ e.trip = t THEN {n} ELSE {})
  BY <1>1 DEF AnnouncementsOf
<1>3. IsFiniteSet(A) /\ Cardinality(A) \in Nat
  BY FiniteAnnouncements
<1>4. IsFiniteSet(A \cup {n}) /\ Cardinality(A \cup {n}) <= Cardinality(A) + 1
  <2> HIDE DEF A, n
  <2>1. IsFiniteSet(A \cup {n})
        /\ Cardinality(A \cup {n}) = IF n \in A THEN Cardinality(A) ELSE Cardinality(A) + 1
    BY <1>3, FS_AddElement
  <2> QED BY <1>3, <2>1
<1>5. CASE e.type = "TripAssigned" /\ e.trip = t
  <2>1. AnnouncementsOf(Append(s, e), t) \in SUBSET (A \cup {n})
    BY <1>2, <1>5
  <2>2. Cardinality(AnnouncementsOf(Append(s, e), t)) <= Cardinality(A \cup {n})
    BY <1>4, <2>1, FS_Subset
  <2>3. Cardinality(AnnouncementsOf(Append(s, e), t)) \in Nat
    BY <1>1, FiniteAnnouncements
  <2>4. Cardinality(A \cup {n}) \in Nat
    BY <1>4, FS_CardinalityType
  <2> QED BY <1>3, <1>4, <1>5, <2>2, <2>3, <2>4
<1>6. CASE ~(e.type = "TripAssigned" /\ e.trip = t)
  <2>1. AnnouncementsOf(Append(s, e), t) \in SUBSET A
    BY <1>2, <1>6
  <2>2. Cardinality(AnnouncementsOf(Append(s, e), t)) <= Cardinality(A)
    BY <1>3, <2>1, FS_Subset
  <2> QED BY <1>3, <1>6, <2>2
<1> QED BY <1>5, <1>6

\* Records that go are no more announcements.
LEMMA WithoutCount ==
  ASSUME NEW r \in Seq(Event), NEW s \in Seq(Event), NEW k \in 1 .. Len(s), Without(r, s, k),
         NEW t
  PROVE  Cardinality(AnnouncementsOf(r, t)) <= Cardinality(AnnouncementsOf(s, t))
<1> DEFINE R == AnnouncementsOf(r, t)  S == AnnouncementsOf(s, t)
           f == [i \in R |-> IF i < k THEN i ELSE i + 1]
<1>1. Len(r) \in Nat /\ Len(s) = Len(r) + 1
  BY DEF Without
<1>2. R \subseteq Int
  BY <1>1 DEF AnnouncementsOf
<1>3. f \in [R -> S]
  <2> SUFFICES ASSUME NEW i \in R PROVE f[i] \in S
    OBVIOUS
  <2>1. i \in 1 .. Len(r) /\ r[i] = s[f[i]] /\ f[i] \in 1 .. Len(s)
    BY <1>1 DEF AnnouncementsOf, Without
  <2> QED BY <2>1 DEF AnnouncementsOf
<1>4. \A i, j \in R : f[i] = f[j] => i = j
  BY <1>2
<1> HIDE DEF f
<1>5. f \in Injection(R, S)
  BY <1>3, <1>4 DEF Injection, IsInjective
<1>6. IsFiniteSet(S)
  BY FiniteAnnouncements
<1> QED BY <1>5, <1>6, FS_Injection

LEMMA BeginsCount ==
  ASSUME NEW r \in Seq(Event), NEW s \in Seq(Event), Begins(r, s), NEW t
  PROVE  Cardinality(AnnouncementsOf(r, t)) <= Cardinality(AnnouncementsOf(s, t))
<1>1. AnnouncementsOf(r, t) \in SUBSET AnnouncementsOf(s, t)
  BY DEF Begins, AnnouncementsOf
<1> QED BY <1>1, FiniteAnnouncements, FS_Subset

\* An open assignment is committed or rolled back, never forgotten.
LEMMA OpenGoesTo ==
  ASSUME TypeOK, [Next]_vars, pc = "assigned"
  PROVE  \/ pc' = "assigned"
         \/ trips'[Record.trip].status = "ASSIGNED"
         \/ aborted'[Record.trip] = aborted[Record.trip] + 1 /\ faults' = faults + 1
<1> USE DEF producerVars, listenerVars, historyVars
<1>1. Record.trip \in Trips
  BY RecordType
<1>2. CASE \E u \in Trips : RequestThread(u)
  BY <1>2 DEF RequestThread, RequestRide, RequestRideThrows, CommitRequest,
              CommitRequestThrows, ReplyAccepted
<1>3. WriteAssignment => trips'[Record.trip].status = "ASSIGNED"
  BY <1>1 DEF WriteAssignment, TypeOK
<1>4. Abort => aborted'[Record.trip] = aborted[Record.trip] + 1
  BY <1>1 DEF Abort, TypeOK
<1>5. CASE Handling
  BY <1>3, <1>4, <1>5
     DEF Handling, SkipOtherType, TripNotFound, InvalidTransition, AssignDriver,
         AssignDriverThrows, CommitAssignment, CommitAssignmentThrows, Ack, AckThrows, Fault
<1>6. CASE Crash
  BY <1>4, <1>6 DEF Crash, Fault
<1>7. CASE Idle \/ UNCHANGED vars \/ \E p \in Partitions : Sender(p) \/ Polling(p)
  BY <1>7 DEF Idle, vars, Sender, Polling, Deliver, LoseRecord, Poll, PollUndecodable
<1> QED BY <1>2, <1>5, <1>6, <1>7 DEF Next

\* Rolled-back attempts stay counted.
LEMMA AbortedGrows ==
  ASSUME TypeOK, [Next]_vars, NEW t \in Trips
  PROVE  aborted[t] \in Nat /\ aborted'[t] \in Nat /\ aborted'[t] >= aborted[t]
<1> USE DEF producerVars, listenerVars, historyVars
<1>1. aborted[t] \in Nat
  BY DEF TypeOK
<1>2. CASE UNCHANGED aborted
  BY <1>1, <1>2
<1>3. CASE Abort
  BY <1>1, <1>3 DEF Abort, TypeOK
<1>4. UNCHANGED aborted \/ Abort
  BY DEF Next, RequestThread, RequestRide, RequestRideThrows, CommitRequest,
         CommitRequestThrows, ReplyAccepted, Sender, Deliver, LoseRecord, Polling, Poll,
         PollUndecodable, Handling, SkipOtherType, TripNotFound, InvalidTransition,
         AssignDriver, AssignDriverThrows, CommitAssignment, CommitAssignmentThrows, Ack,
         AckThrows, Crash, Idle, vars
<1> QED BY <1>2, <1>3, <1>4

\* A trip's attempts are never fewer than before, and one more when one starts.
LEMMA StepBudget ==
  ASSUME RowInv, [Next]_vars, NEW t \in Trips
  PROVE  aborted'[t] + Standing(t)' >= aborted[t] + Standing(t)
           + IF AssignDriver /\ Record.trip = t THEN 1 ELSE 0
<1> DEFINE a == aborted[t]  b == aborted'[t]
<1>1. TypeOK /\ RowsFollowRequests /\ TypeOK'
  BY StepTypeOK DEF RowInv
<1>2. a \in Nat /\ b \in Nat /\ b >= a
  BY <1>1, AbortedGrows
<1>3. Standing(t) \in {0, 1} /\ Standing(t)' \in {0, 1}
  BY DEF Standing
<1>4. CASE AssignDriver /\ Record.trip = t
  <2>1. Standing(t) = 0
    BY <1>4 DEF AssignDriver, Assignable, Table!CanTransitionTo, Table!ValidTransitions,
                Standing
  <2>2. pc' = "assigned"
    BY <1>4 DEF AssignDriver
  <2>3. Record.trip' = t
    BY <1>1, <1>4, <2>2, OpenComesFrom
  <2>4. Standing(t)' = 1
    BY <2>2, <2>3 DEF Standing
  <2> QED BY <1>2, <1>4, <2>1, <2>4
<1>5. CASE ~(AssignDriver /\ Record.trip = t)
  <2>1. CASE Standing(t) = 0
    BY <1>2, <1>3, <1>5, <2>1
  <2>2. CASE trips[t].status = "ASSIGNED"
    <3>1. Standing(t)' = 1
      BY <1>1, <2>2, StepKeepsAssigned DEF Standing
    <3> QED BY <1>2, <1>3, <1>5, <3>1
  <2>3. CASE pc = "assigned" /\ Record.trip = t
    <3>1. CASE pc' = "assigned"
      <4>1. Record.trip' = t
        BY <1>1, <2>3, <3>1, OpenComesFrom
      <4>2. Standing(t)' = 1
        BY <3>1, <4>1 DEF Standing
      <4> QED BY <1>2, <1>3, <1>5, <4>2
    <3>2. CASE trips'[t].status = "ASSIGNED"
      <4>1. Standing(t)' = 1
        BY <3>2 DEF Standing
      <4> QED BY <1>2, <1>3, <1>5, <4>1
    <3>3. CASE b = a + 1
      BY <1>2, <1>3, <1>5, <3>3
    <3> QED BY <1>1, <2>3, <3>1, <3>2, <3>3, OpenGoesTo
  <2> QED BY <1>3, <2>1, <2>2, <2>3 DEF Standing
<1> QED BY <1>4, <1>5

LEMMA StepAttempts ==
  ASSUME RowInv, AnnouncementsAreAttempts, [Next]_vars
  PROVE  AnnouncementsAreAttempts'
<1>1. TypeOK /\ TypeOK'
  BY StepTypeOK DEF RowInv
<1> SUFFICES ASSUME NEW t \in Trips
             PROVE  Cardinality(AnnouncementsOf(Sent(PartitionOf[t])', t))
                      <= aborted'[t] + Standing(t)'
  BY DEF AnnouncementsAreAttempts, AnnouncementsOf
<1> DEFINE p == PartitionOf[t]
           was == Cardinality(AnnouncementsOf(Sent(p), t))
           is == Cardinality(AnnouncementsOf(Sent(p)', t))
           start == IF AssignDriver /\ Record.trip = t THEN 1 ELSE 0
<1>2. p \in Partitions
  BY DispatchAssumption
<1>3. Sent(p) \in Seq(Event) /\ Sent(p)' \in Seq(Event)
  BY <1>1, <1>2, StepOfSent
<1>4. was \in Nat /\ is \in Nat
  BY <1>3, FiniteAnnouncements
<1>5. was <= aborted[t] + Standing(t)
  BY DEF AnnouncementsAreAttempts, AnnouncementsOf
<1>6. aborted'[t] + Standing(t)' >= aborted[t] + Standing(t) + start
  BY StepBudget
<1>7. aborted[t] \in Nat /\ aborted'[t] \in Nat /\ Standing(t) \in {0, 1}
      /\ Standing(t)' \in {0, 1} /\ start \in {0, 1}
  BY <1>1, AbortedGrows DEF Standing
<1>8. is <= was + start
  <2>1. CASE SentKept(p)
    <3>1. is = was
      BY <2>1 DEF SentKept
    <3> HIDE DEF is, was, start
    <3> QED BY <1>4, <1>7, <3>1
  <2>2. CASE SentExpires(p) \/ SentCrashes(p)
    <3>1. is <= was
      BY <1>3, <2>2, WithoutCount, BeginsCount DEF SentExpires, SentCrashes
    <3> HIDE DEF is, was, start
    <3> QED BY <1>4, <1>7, <3>1
  <2>3. ASSUME NEW e \in Event, SentGrows(p, e)
        PROVE  is <= was + start
    <3>1. Sent(p)' = Append(Sent(p), e)
      BY <2>3 DEF SentGrows
    <3>2. e.type = "TripAssigned" /\ e.trip = t => AssignDriver /\ Record.trip = t
      BY <2>3 DEF SentGrows, TripRequested, TripAssigned
    <3>3. is <= was + IF e.type = "TripAssigned" /\ e.trip = t THEN 1 ELSE 0
      BY <1>3, <3>1, AppendCount
    <3> HIDE DEF is, was
    <3> QED BY <1>4, <3>2, <3>3
  <2> QED BY <1>1, <1>2, <2>1, <2>2, <2>3, StepOfSent
<1> HIDE DEF is, was, start
<1>9. is <= aborted'[t] + Standing(t)'
  BY <1>4, <1>5, <1>6, <1>7, <1>8
<1> QED BY <1>9 DEF is

LEMMA InitAttempts == Init => AnnouncementsAreAttempts
<1> SUFFICES ASSUME Init, NEW t \in Trips
             PROVE  Cardinality(AnnouncementsOf(Sent(PartitionOf[t]), t))
                      <= aborted[t] + Standing(t)
  BY DEF AnnouncementsAreAttempts, AnnouncementsOf
<1>1. Sent(PartitionOf[t]) = << >> \o << >>
  BY DispatchAssumption DEF Init, Sent
<1>2. AnnouncementsOf(Sent(PartitionOf[t]), t) = {}
  BY <1>1 DEF AnnouncementsOf
<1>3. aborted[t] = 0 /\ Standing(t) \in {0, 1}
  BY DEF Init, Standing
<1> QED BY <1>2, <1>3, FS_EmptySet

\* Every announcement of a trip beyond the one that stands belongs to an attempt
\* that rolled back, however often its request is delivered.
THEOREM AnnouncementsAreAttemptsHolds == Spec => []AnnouncementsAreAttempts
BY InitAttempts, StepAttempts, RowInvariant, PTL DEF Spec

-------------------------------------------------------------------------------
(* How much is ever handed to the producer.                                *)

\* The trips of partition p, those that were requested, those with an assignment
\* that stands.
RidesOn(p)     == {t \in Trips : PartitionOf[t] = p}
RequestedOn(p) == {t \in RidesOn(p) : request[t] # "idle"}
StandingOn(p)  == {t \in RidesOn(p) : Standing(t) = 1}

\* A request, an assignment, and one more for every failure: attempts that roll
\* back announce a driver each.
WithinCapacity ==
  \A p \in Partitions :
    Len(Sent(p)) <= Cardinality(RequestedOn(p)) + Cardinality(StandingOn(p)) + faults

LEMMA FiniteRides ==
  ASSUME IsFiniteSet(Trips), NEW p
  PROVE  /\ IsFiniteSet(RidesOn(p)) /\ Cardinality(RidesOn(p)) \in Nat
         /\ \A S \in SUBSET RidesOn(p) :
              IsFiniteSet(S) /\ Cardinality(S) \in Nat /\ Cardinality(S) <= Cardinality(RidesOn(p))
<1>1. IsFiniteSet(RidesOn(p))
  <2>1. RidesOn(p) \in SUBSET Trips
    BY DEF RidesOn
  <2> QED BY <2>1, FS_Subset
<1>2. \A S \in SUBSET RidesOn(p) :
        IsFiniteSet(S) /\ Cardinality(S) <= Cardinality(RidesOn(p))
  BY <1>1, FS_Subset
<1> QED BY <1>1, <1>2, FS_CardinalityType

LEMMA StepFaults ==
  ASSUME TypeOK, [Next]_vars
  PROVE  /\ faults \in Nat /\ faults' \in {faults, faults + 1}
         /\ AssignDriver => faults' = faults
         /\ \A t \in Trips : RequestRide(t) => faults' = faults
<1>1. faults \in Nat
  BY DispatchAssumption DEF TypeOK
<1>2. faults' \in {faults, faults + 1}
  BY DEF Next, RequestThread, RequestRide, RequestRideThrows, CommitRequest,
         CommitRequestThrows, ReplyAccepted, Sender, Deliver, LoseRecord, Polling, Poll,
         PollUndecodable, Handling, SkipOtherType, TripNotFound, InvalidTransition,
         AssignDriver, AssignDriverThrows, CommitAssignment, CommitAssignmentThrows, Ack,
         AckThrows, Crash, Idle, vars, Fault, NoFault
<1> QED BY <1>1, <1>2 DEF AssignDriver, RequestRide, NoFault

\* No request thread goes back to the start.
LEMMA StepRequested ==
  ASSUME TypeOK, [Next]_vars, NEW t \in Trips, request[t] # "idle"
  PROVE  request'[t] # "idle"
BY DEF Next, RequestThread, RequestRide, RequestRideThrows, CommitRequest,
       CommitRequestThrows, ReplyAccepted, Sender, Deliver, LoseRecord, Polling, Poll,
       PollUndecodable, Handling, SkipOtherType, TripNotFound, InvalidTransition,
       AssignDriver, AssignDriverThrows, CommitAssignment, CommitAssignmentThrows, Ack,
       AckThrows, Crash, Idle, vars, SetRequest, producerVars, listenerVars, historyVars,
       TypeOK

\* An assignment that stops standing costs a failure.
LEMMA StepStanding ==
  ASSUME RowInv, [Next]_vars, NEW t \in Trips, Standing(t) = 1
  PROVE  Standing(t)' = 1 \/ (t = Record.trip /\ faults' = faults + 1)
<1>1. TypeOK /\ RowsFollowRequests
  BY DEF RowInv
<1>2. CASE trips[t].status = "ASSIGNED"
  BY <1>1, <1>2, StepKeepsAssigned DEF Standing
<1>3. CASE pc = "assigned" /\ Record.trip = t
  <2>1. CASE pc' = "assigned"
    <3>1. Record.trip' = t
      BY <1>1, <1>3, <2>1, OpenComesFrom
    <3> QED BY <2>1, <3>1 DEF Standing
  <2>2. CASE trips'[t].status = "ASSIGNED"
    BY <2>2 DEF Standing
  <2> QED BY <1>1, <1>3, <2>1, <2>2, OpenGoesTo
<1> QED BY <1>2, <1>3 DEF Standing

LEMMA StepCapacity ==
  ASSUME IsFiniteSet(Trips), RowInv, WithinCapacity, [Next]_vars
  PROVE  WithinCapacity'
<1>1. TypeOK /\ TypeOK'
  BY StepTypeOK DEF RowInv
<1> SUFFICES ASSUME NEW p \in Partitions
             PROVE  Len(Sent(p)') <= Cardinality(RequestedOn(p)')
                                       + Cardinality(StandingOn(p)') + faults'
  BY DEF WithinCapacity
<1> DEFINE Q == RequestedOn(p)  Q1 == RequestedOn(p)'
           A == StandingOn(p)   A1 == StandingOn(p)'
           n == Len(Sent(p))    n1 == Len(Sent(p)')
<1>2. /\ Q \in SUBSET RidesOn(p) /\ Q1 \in SUBSET RidesOn(p)
      /\ A \in SUBSET RidesOn(p) /\ A1 \in SUBSET RidesOn(p)
  BY DEF RequestedOn, StandingOn, RidesOn
<1>3. Q \subseteq Q1
  BY <1>1, StepRequested DEF RequestedOn, RidesOn
<1>4. faults \in Nat /\ faults' \in {faults, faults + 1}
  BY <1>1, StepFaults
<1>5. /\ IsFiniteSet(Q) /\ IsFiniteSet(Q1) /\ IsFiniteSet(A) /\ IsFiniteSet(A1)
      /\ Cardinality(Q) \in Nat /\ Cardinality(Q1) \in Nat
      /\ Cardinality(A) \in Nat /\ Cardinality(A1) \in Nat
  BY <1>2, FiniteRides
<1>6. /\ n \in Nat /\ n1 \in Nat
      /\ n <= Cardinality(Q) + Cardinality(A) + faults
  BY <1>1, StepOfSent DEF WithinCapacity
<1>7. Cardinality(Q) <= Cardinality(Q1)
  BY <1>3, <1>5, FS_Subset
<1>8. faults' = faults => Cardinality(A) <= Cardinality(A1)
  <2> SUFFICES ASSUME faults' = faults PROVE Cardinality(A) <= Cardinality(A1)
    OBVIOUS
  <2>1. A \subseteq A1
    BY <1>4, StepStanding DEF StandingOn, RidesOn
  <2> QED BY <1>5, <2>1, FS_Subset
<1>9. Cardinality(A) <= Cardinality(A1) + 1
  <2> DEFINE B == A \ {Record.trip}
  <2>1. B \subseteq A1
    BY StepStanding DEF StandingOn, RidesOn
  <2>2. Cardinality(B) <= Cardinality(A1)
    BY <1>5, <2>1, FS_Subset
  <2>3. /\ IsFiniteSet(B) /\ Cardinality(B) \in Nat
        /\ Cardinality(B) = IF Record.trip \in A THEN Cardinality(A) - 1 ELSE Cardinality(A)
    <3> HIDE DEF A
    <3> QED BY <1>5, FS_RemoveElement, FS_CardinalityType
  <2> HIDE DEF A, A1, B
  <2> QED BY <1>5, <2>2, <2>3
<1>10. Cardinality(A) + faults <= Cardinality(A1) + faults'
  <2> HIDE DEF A, A1
  <2> QED BY <1>4, <1>5, <1>8, <1>9
<1>11. CASE n1 <= n
  <2> HIDE DEF Q, Q1, A, A1, n, n1
  <2>1. n1 <= Cardinality(Q1) + Cardinality(A1) + faults'
    BY <1>4, <1>5, <1>6, <1>7, <1>10, <1>11
  <2> QED BY <2>1 DEF Q1, A1, n1
<1>12. ASSUME NEW e \in Event, SentGrows(p, e)
       PROVE  n1 <= Cardinality(Q1) + Cardinality(A1) + faults'
  <2>1. n1 = n + 1
    BY <1>1, <1>12, StepOfSent DEF SentGrows
  <2>2. ASSUME NEW t \in Trips, RequestRide(t), e = TripRequested(t)
        PROVE  n1 <= Cardinality(Q1) + Cardinality(A1) + faults'
    <3>1. faults' = faults
      BY <1>1, <2>2, StepFaults
    <3>2. t \notin Q /\ t \in RidesOn(p)
      BY <1>12, <2>2 DEF SentGrows, RequestRide, RequestedOn, RidesOn, TripRequested
    <3>3. request'[t] # "idle"
      BY <1>1, <2>2 DEF RequestRide, SetRequest, TypeOK
    <3>4. Q \cup {t} \subseteq Q1
      BY <1>3, <3>2, <3>3 DEF RequestedOn
    <3>5. /\ Cardinality(Q \cup {t}) = Cardinality(Q) + 1
          /\ IsFiniteSet(Q \cup {t})
      BY <1>5, <3>2, FS_AddElement
    <3>6. Cardinality(Q \cup {t}) <= Cardinality(Q1)
      BY <1>5, <3>4, FS_Subset
    <3> HIDE DEF Q, Q1, A, A1, n, n1
    <3> QED BY <1>4, <1>5, <1>6, <1>8, <2>1, <3>1, <3>5, <3>6
  <2>3. ASSUME AssignDriver, e = TripAssigned(Record.trip, PickIndex(counter))
        PROVE  n1 <= Cardinality(Q1) + Cardinality(A1) + faults'
    <3>1. faults' = faults
      BY <1>1, <2>3, StepFaults
    <3>2. pc # "poll" /\ pc' = "assigned"
      BY <2>3 DEF AssignDriver
    <3>3. PICK t \in Trips : t = Record.trip
      BY <1>1, <3>2, RecordType
    <3>4. t \in RidesOn(p)
      BY <1>12, <2>3, <3>3 DEF SentGrows, RidesOn, TripAssigned
    <3>5. t \notin A
      BY <2>3, <3>3 DEF AssignDriver, Assignable, Table!CanTransitionTo,
                        Table!ValidTransitions, StandingOn, Standing
    <3>6. Record.trip' = t
      BY <1>1, <3>2, <3>3, OpenComesFrom
    <3>7. t \in A1
      BY <3>2, <3>4, <3>6 DEF StandingOn, Standing, RidesOn
    <3>8. A \subseteq A1
      BY <1>4, <3>1, StepStanding DEF StandingOn, RidesOn
    <3>9. A \cup {t} \subseteq A1
      BY <3>7, <3>8
    <3>10. /\ Cardinality(A \cup {t}) = Cardinality(A) + 1
           /\ IsFiniteSet(A \cup {t})
      BY <1>5, <3>5, FS_AddElement
    <3>11. Cardinality(A \cup {t}) <= Cardinality(A1)
      BY <1>5, <3>9, FS_Subset
    <3> HIDE DEF Q, Q1, A, A1, n, n1
    <3> QED BY <1>4, <1>5, <1>6, <1>7, <2>1, <3>1, <3>10, <3>11
  <2> QED BY <1>12, <2>2, <2>3 DEF SentGrows
<1>13. SentKept(p) \/ SentExpires(p) \/ SentCrashes(p) => n1 <= n
  BY <1>6 DEF SentKept, SentExpires, SentCrashes, Without, Begins
<1> QED BY <1>1, <1>11, <1>12, <1>13, StepOfSent

LEMMA InitCapacity ==
  ASSUME IsFiniteSet(Trips), Init
  PROVE  WithinCapacity
<1> SUFFICES ASSUME NEW p \in Partitions
             PROVE  Len(Sent(p)) <= Cardinality(RequestedOn(p)) + Cardinality(StandingOn(p)) + faults
  BY DEF WithinCapacity
<1>1. Len(Sent(p)) = 0 /\ faults = 0
  BY DEF Init, Sent
<1>2. Cardinality(RequestedOn(p)) \in Nat /\ Cardinality(StandingOn(p)) \in Nat
  BY FiniteRides DEF RequestedOn, StandingOn
<1> QED BY <1>1, <1>2

\* No partition ever holds more than two records per ride and one per failure.
LEMMA LogWithinCapacity ==
  ASSUME IsFiniteSet(Trips), TypeOK, WithinCapacity, NEW p \in Partitions
  PROVE  Len(log[p]) + Len(buffer[p]) <= 2 * Cardinality(RidesOn(p)) + MaxFaults
<1>1. /\ Len(Sent(p)) \in Nat /\ Len(log[p]) \in Nat /\ Len(buffer[p]) \in Nat
      /\ Len(Sent(p)) = Len(log[p]) + Len(buffer[p])
  BY DEF TypeOK, Sent
<1>2. /\ Cardinality(RequestedOn(p)) <= Cardinality(RidesOn(p))
      /\ Cardinality(StandingOn(p)) <= Cardinality(RidesOn(p))
      /\ Cardinality(RequestedOn(p)) \in Nat /\ Cardinality(StandingOn(p)) \in Nat
      /\ Cardinality(RidesOn(p)) \in Nat
  BY FiniteRides DEF RequestedOn, StandingOn
<1>3. faults \in 0 .. MaxFaults /\ MaxFaults \in Nat
  BY DispatchAssumption DEF TypeOK
<1>4. Len(Sent(p)) <= Cardinality(RequestedOn(p)) + Cardinality(StandingOn(p)) + faults
  BY DEF WithinCapacity
<1> DEFINE a == Cardinality(RequestedOn(p))  b == Cardinality(StandingOn(p))
           c == Cardinality(RidesOn(p))  n == Len(Sent(p))
<1>5. /\ a \in Nat /\ b \in Nat /\ c \in Nat /\ n \in Nat /\ faults \in Nat
      /\ a <= c /\ b <= c /\ n <= a + b + faults /\ faults <= MaxFaults
  <2>1. n <= a + b + faults
    BY <1>4
  <2>2. faults \in Nat /\ faults <= MaxFaults
    BY <1>3
  <2>3. a \in Nat /\ b \in Nat /\ c \in Nat /\ a <= c /\ b <= c
    BY <1>2
  <2> HIDE DEF a, b, c
  <2> QED BY <1>1, <2>1, <2>2, <2>3
<1> HIDE DEF a, b, c, n
<1>6. n <= 2 * c + MaxFaults
  BY <1>3, <1>5
<1>7. Len(Sent(p)) <= 2 * Cardinality(RidesOn(p)) + MaxFaults
  BY <1>6 DEF n, c
<1> QED BY <1>1, <1>7
===============================================================================
