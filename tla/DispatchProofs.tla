---------------------------- MODULE DispatchProofs ----------------------------
(***************************************************************************)
(* Safety of Dispatch for any set of trips, any partitioning, any width of *)
(* the counter and any number of failures of every kind: types first, then *)
(* what a client relies on, which is the durability of a 202, the order of *)
(* a trip's records, the meaning of a committed offset, and the life cycle *)
(* of the rows.                                                            *)
(***************************************************************************)
EXTENDS Dispatch, JavaRoundRobinProofs

\* The counter's next value and the driver picked from it have their types.
LEMMA CounterType ==
  ASSUME counter \in JavaInts
  PROVE  /\ Incremented(counter) \in JavaInts
         /\ PickIndex(counter) \in Drivers
         /\ PickIndex(counter) # NoDriver
         /\ 0 \in JavaInts
<1>1. counter \in Int
  BY MaxIntAssumption DEF JavaInts, MinInt
<1>2. PickIndex(counter) \in DriverIndexes
  BY <1>1, PickIndexInRange
<1>3. 0 \in JavaInts
  BY MaxIntAssumption DEF JavaInts, MinInt
<1> QED
  BY <1>2, <1>3, IncrementedInRange DEF Drivers, NoDriver, DriverIndexes, NumDrivers

\* The rows a transaction writes are rows of the table.
LEMMA RowTypes ==
  /\ Table!NoRow \in Table!Row
  /\ [status |-> "REQUESTED", driver |-> NoDriver] \in Table!Row
  /\ \A d \in Drivers : [status |-> "ASSIGNED", driver |-> d] \in Table!Row
BY DEF Table!NoRow, Table!Row, Table!Statuses

\* The records the service sends are events.
LEMMA EventTypesOK ==
  /\ \A t \in Trips : TripRequested(t) \in Event
  /\ \A t \in Trips, d \in Drivers : TripAssigned(t, d) \in Event
BY DEF TripRequested, TripAssigned, Event, EventTypes

\* Send keeps the accumulator well typed.
LEMMA SendType ==
  ASSUME TypeOK, NEW e \in Event, Send(e)
  PROVE  buffer' \in [Partitions -> Seq(Event)]
<1>1. PartitionOf[e.trip] \in Partitions
  BY DispatchAssumption DEF Event
<1>2. buffer \in [Partitions -> Seq(Event)]
  BY DEF TypeOK
<1>3. Append(buffer[PartitionOf[e.trip]], e) \in Seq(Event)
  BY <1>1, <1>2
<1> QED BY <1>1, <1>2, <1>3 DEF Send

\* The record a busy listener holds is in the log.
LEMMA RecordType ==
  ASSUME TypeOK, pc # "poll"
  PROVE  /\ current \in Partitions
         /\ committed[current] + 1 \in 1 .. Len(log[current])
         /\ Record \in Event
         /\ Record.trip \in Trips
<1>1. current \in Partitions
  BY DEF TypeOK
<1>2. committed[current] \in Nat /\ log[current] \in Seq(Event)
  BY <1>1 DEF TypeOK
<1>3. committed[current] + 1 \in 1 .. Len(log[current])
  BY <1>1, <1>2, DispatchAssumption DEF TypeOK, Unread
<1>4. Record \in Event
  BY <1>2, <1>3 DEF Record, NextOf
<1> QED BY <1>1, <1>3, <1>4 DEF Event

LEMMA InitTypeOK == Init => TypeOK
BY RowTypes, CounterType, DispatchAssumption, MaxIntAssumption
   DEF Init, TypeOK, RequestStates, ListenerStates, NoDriver, Drivers, DriverIndexes,
       NumDrivers, JavaInts, MinInt, Unread

\* The facts about Crash's history variable.
LEMMA LostAccumulator ==
  ASSUME TypeOK
  PROVE  UNION {{buffer[p][i] : i \in 1 .. Len(buffer[p])} : p \in Partitions} \subseteq Event
<1> SUFFICES ASSUME NEW p \in Partitions, NEW i \in 1 .. Len(buffer[p])
             PROVE  buffer[p][i] \in Event
  OBVIOUS
<1>1. buffer[p] \in Seq(Event)
  BY DEF TypeOK
<1> QED BY <1>1

LEMMA StepTypeOK ==
  ASSUME TypeOK, [Next]_vars
  PROVE  TypeOK'
<1> USE DispatchAssumption
<1> USE DEF NoFault, Fault, SetRequest, producerVars, listenerVars, historyVars
<1>1. ASSUME NEW t \in Trips, RequestRide(t)
      PROVE  TypeOK'
  <2>1. buffer' \in [Partitions -> Seq(Event)]
    BY <1>1, SendType, EventTypesOK DEF RequestRide
  <2> QED BY <1>1, <2>1 DEF RequestRide, TypeOK, RequestStates, Unread
<1>2. ASSUME NEW t \in Trips, RequestRideThrows(t)
      PROVE  TypeOK'
  BY <1>2 DEF RequestRideThrows, TypeOK, RequestStates, Unread
<1>3. ASSUME NEW t \in Trips, CommitRequest(t)
      PROVE  TypeOK'
  BY <1>3, RowTypes DEF CommitRequest, InsertRow, TypeOK, RequestStates, Unread
<1>4. ASSUME NEW t \in Trips, CommitRequestThrows(t)
      PROVE  TypeOK'
  <2>1. trips' \in [Trips -> Table!Row]
    BY <1>4, RowTypes DEF CommitRequestThrows, InsertRow, TypeOK
  <2>2. request' \in [Trips -> RequestStates]
    BY <1>4 DEF CommitRequestThrows, TypeOK, RequestStates
  <2>3. faults' \in 0 .. MaxFaults
    BY <1>4 DEF CommitRequestThrows, TypeOK
  <2> QED BY <1>4, <2>1, <2>2, <2>3 DEF CommitRequestThrows, TypeOK, Unread
<1>5. ASSUME NEW t \in Trips, ReplyAccepted(t)
      PROVE  TypeOK'
  BY <1>5 DEF ReplyAccepted, TypeOK, RequestStates, Unread
<1>6. ASSUME NEW p \in Partitions, Deliver(p)
      PROVE  TypeOK'
  <2>1. /\ buffer[p] \in Seq(Event) /\ buffer[p] # <<>> /\ log[p] \in Seq(Event)
        /\ Head(buffer[p]) \in Event /\ Tail(buffer[p]) \in Seq(Event)
    BY <1>6 DEF Deliver, TypeOK
  <2>2. /\ Append(log[p], Head(buffer[p])) \in Seq(Event)
        /\ Len(Append(log[p], Head(buffer[p]))) = Len(log[p]) + 1
    BY <2>1
  <2>3. buffer' \in [Partitions -> Seq(Event)] /\ log' \in [Partitions -> Seq(Event)]
    BY <1>6, <2>1, <2>2 DEF Deliver, TypeOK
  <2>4. \A q \in Partitions : Len(log'[q]) >= Len(log[q])
    BY <1>6, <2>2, <2>3 DEF Deliver, TypeOK
  <2>5. (\A q \in Partitions : committed[q] <= Len(log[q]))'
    BY <1>6, <2>3, <2>4 DEF Deliver, TypeOK
  <2>6. (current # NoPartition => Unread(current))'
    BY <1>6, <2>3, <2>4 DEF Deliver, TypeOK, Unread
  <2> QED BY <1>6, <2>3, <2>5, <2>6 DEF Deliver, TypeOK
<1>7. ASSUME NEW p \in Partitions, LoseRecord(p)
      PROVE  TypeOK'
  <2>1. /\ buffer[p] \in Seq(Event) /\ buffer[p] # <<>>
        /\ Head(buffer[p]) \in Event /\ Tail(buffer[p]) \in Seq(Event)
    BY <1>7 DEF LoseRecord, TypeOK
  <2> QED BY <1>7, <2>1 DEF LoseRecord, TypeOK, Unread
<1>8. ASSUME NEW p \in Partitions, Poll(p)
      PROVE  TypeOK'
  <2>1. NextOf(p) \in Event
    BY <1>8 DEF Poll, Unread, NextOf, TypeOK
  <2>2. NextOf(p).type \in EventTypes
    BY <2>1 DEF Event
  <2> QED BY <1>8, <2>2 DEF Poll, TypeOK, ListenerStates, Unread
<1>9. ASSUME NEW p \in Partitions, PollUndecodable(p)
      PROVE  TypeOK'
  <2>1. committed' \in [Partitions -> Nat]
    BY <1>9 DEF PollUndecodable, TypeOK
  <2>2. (\A q \in Partitions : committed[q] <= Len(log[q]))'
    BY <1>9, <2>1 DEF PollUndecodable, TypeOK, Unread
  <2>3. skipped' \subseteq Partitions \X (Nat \ {0})
    BY <1>9 DEF PollUndecodable, TypeOK
  <2> QED BY <1>9, <2>1, <2>2, <2>3 DEF PollUndecodable, TypeOK, Unread
<1>10. CASE SkipOtherType
  BY <1>10 DEF SkipOtherType, TypeOK, ListenerStates, Unread
<1>11. CASE TripNotFound
  BY <1>11 DEF TripNotFound, BackToPoll, TypeOK, ListenerStates, Unread
<1>12. CASE InvalidTransition
  BY <1>12 DEF InvalidTransition, BackToPoll, TypeOK, ListenerStates, Unread
<1>13. CASE AssignDriver
  <2>1. PickIndex(counter) \in Drivers /\ PickIndex(counter) # NoDriver
        /\ Incremented(counter) \in JavaInts
    BY CounterType DEF TypeOK
  <2>2. TripAssigned(Record.trip, PickIndex(counter)) \in Event
    BY <1>13, <2>1, RecordType, EventTypesOK DEF AssignDriver
  <2>3. buffer' \in [Partitions -> Seq(Event)]
    BY <1>13, <2>2, SendType DEF AssignDriver
  <2> QED BY <1>13, <2>1, <2>3 DEF AssignDriver, TypeOK, ListenerStates, Unread
<1>14. CASE AssignDriverThrows
  BY <1>14, CounterType DEF AssignDriverThrows, BackToPoll, TypeOK, ListenerStates, Unread
<1>15. CASE CommitAssignment
  <2>1. trips' \in [Trips -> Table!Row]
    <3>1. trips' = trips \/ WriteAssignment
      BY <1>15 DEF CommitAssignment
    <3>2. trips \in [Trips -> Table!Row] /\ [status |-> "ASSIGNED", driver |-> chosen] \in Table!Row
      BY <1>15, RowTypes DEF CommitAssignment, TypeOK
    <3> QED BY <3>1, <3>2 DEF WriteAssignment
  <2> QED BY <1>15, <2>1 DEF CommitAssignment, TypeOK, ListenerStates, Unread
<1>16. CASE CommitAssignmentThrows
  <2>1. trips' \in [Trips -> Table!Row]
    <3>1. trips' = trips \/ WriteAssignment
      BY <1>16 DEF CommitAssignmentThrows
    <3>2. trips \in [Trips -> Table!Row] /\ [status |-> "ASSIGNED", driver |-> chosen] \in Table!Row
      BY <1>16, RowTypes DEF CommitAssignmentThrows, TypeOK
    <3> QED BY <3>1, <3>2 DEF WriteAssignment
  <2>2. aborted' \in [Trips -> Nat] /\ faults' \in 0 .. MaxFaults
    <3>1. Abort \/ UNCHANGED aborted
      BY <1>16 DEF CommitAssignmentThrows
    <3>2. faults' \in 0 .. MaxFaults
      BY <1>16 DEF CommitAssignmentThrows, TypeOK
    <3>3. aborted \in [Trips -> Nat] /\ Record.trip \in Trips
      BY <1>16, RecordType DEF CommitAssignmentThrows, TypeOK
    <3>4. aborted' \in [Trips -> Nat]
      BY <3>1, <3>3 DEF Abort
    <3> QED BY <3>2, <3>4
  <2>3. /\ BackToPoll
        /\ UNCHANGED <<request, buffer, log, committed, counter, schemas, lost, skipped>>
    BY <1>16 DEF CommitAssignmentThrows
  <2> QED BY <2>1, <2>2, <2>3 DEF BackToPoll, TypeOK, ListenerStates, Unread
<1>17. CASE Ack
  <2>1. current \in Partitions /\ committed[current] + 1 <= Len(log[current])
    BY <1>17, RecordType DEF Ack
  <2>2. committed' \in [Partitions -> Nat]
    BY <1>17 DEF Ack, TypeOK
  <2>3. (\A q \in Partitions : committed[q] <= Len(log[q]))'
    BY <1>17, <2>1, <2>2 DEF Ack, TypeOK
  <2> QED BY <1>17, <2>2, <2>3 DEF Ack, BackToPoll, TypeOK, ListenerStates, Unread
<1>18. CASE AckThrows
  BY <1>18 DEF AckThrows, BackToPoll, TypeOK, ListenerStates, Unread
<1>19. CASE Crash
  <2>1. lost' \subseteq Event
    BY <1>19, LostAccumulator DEF Crash, TypeOK
  <2>2. request' \in [Trips -> RequestStates]
    BY <1>19 DEF Crash, TypeOK, RequestStates
  <2>3. buffer' \in [Partitions -> Seq(Event)]
    BY <1>19 DEF Crash
  <2>4. aborted' \in [Trips -> Nat]
    <3>1. aborted' = aborted \/ aborted' = [aborted EXCEPT ![Record.trip] = @ + 1]
      BY <1>19 DEF Crash, Abort
    <3>2. aborted \in [Trips -> Nat]
      BY DEF TypeOK
    <3> QED BY <3>1, <3>2
  <2> QED
    BY <1>19, <2>1, <2>2, <2>3, <2>4, CounterType
       DEF Crash, BackToPoll, TypeOK, ListenerStates, Unread
<1>20. CASE UNCHANGED vars
  BY <1>20 DEF vars, TypeOK, Unread
<1> QED
  BY <1>1, <1>2, <1>3, <1>4, <1>5, <1>6, <1>7, <1>8, <1>9, <1>10, <1>11, <1>12, <1>13, <1>14,
     <1>15, <1>16, <1>17, <1>18, <1>19, <1>20
     DEF Next, RequestThread, Sender, Polling, Handling, Idle

-------------------------------------------------------------------------------

\* Every variable keeps its type, and the listener's control state fits the log.
THEOREM TypeOKHolds == Spec => []TypeOK
BY InitTypeOK, StepTypeOK, PTL DEF Spec

-------------------------------------------------------------------------------
(* What a client relies on.                                                *)


\* A row is there from the commit of its request on, never before, and no row
\* is ever anything but REQUESTED without a driver or ASSIGNED with one.
RowsFollowRequests ==
  \A t \in Trips :
    /\ request[t] \in {"idle", "sent"} => trips[t] = Table!NoRow
    /\ request[t] \in {"committed", "accepted"} => trips[t].status # "NONE"

\* The listener's open transaction is about a REQUESTED row, and it only goes on
\* to acknowledge a TripRequested whose row is ASSIGNED.
ListenerKnowsRow ==
  /\ pc = "assigned" => /\ Record.type = "TripRequested"
                        /\ trips[Record.trip].status = "REQUESTED"
  /\ pc = "ack" => (Record.type = "TripRequested"
                      => trips[Record.trip].status = "ASSIGNED")

\* A record of partition p is about a trip of p, and a TripRequested carries no
\* driver.
WellPlaced(e, p) ==
  /\ PartitionOf[e.trip] = p
  /\ e.type = "TripRequested" => e = TripRequested(e.trip)

RecordsWellPlaced ==
  \A p \in Partitions :
    /\ \A i \in 1 .. Len(log[p]) : WellPlaced(log[p][i], p)
    /\ \A i \in 1 .. Len(buffer[p]) : WellPlaced(buffer[p][i], p)

\* What waits in the accumulator was caused by a record already in the log.
BufferedWasRequested ==
  \A p \in Partitions : \A i \in 1 .. Len(buffer[p]) :
    buffer[p][i].type = "TripAssigned" =>
      \E k \in 1 .. Len(log[p]) : log[p][k] = TripRequested(buffer[p][i].trip)

RowInv == TypeOK /\ RowsFollowRequests /\ ListenerKnowsRow /\ AckedIsAssigned

OrderFacts == RecordsWellPlaced /\ BufferedWasRequested /\ RequestedBeforeAssigned

-------------------------------------------------------------------------------
(* Rows.                                                                   *)

\* No step takes a row out of ASSIGNED or makes it disappear.
LEMMA StepKeepsAssigned ==
  ASSUME TypeOK, RowsFollowRequests, [Next]_vars
  PROVE  \A t \in Trips :
           /\ trips[t].status # "NONE" => trips'[t].status # "NONE"
           /\ trips[t].status = "ASSIGNED" => trips'[t].status = "ASSIGNED"
<1> USE DEF producerVars, listenerVars, historyVars
<1>1. ASSUME NEW u \in Trips, request[u] = "sent", InsertRow(u)
      PROVE  \A t \in Trips :
               /\ trips[t].status # "NONE" => trips'[t].status # "NONE"
               /\ trips[t].status = "ASSIGNED" => trips'[t].status = "ASSIGNED"
  <2>1. trips[u].status = "NONE"
    BY <1>1 DEF RowsFollowRequests, Table!NoRow
  <2> QED BY <1>1, <2>1 DEF InsertRow, TypeOK
<1>2. ASSUME WriteAssignment
      PROVE  \A t \in Trips :
               /\ trips[t].status # "NONE" => trips'[t].status # "NONE"
               /\ trips[t].status = "ASSIGNED" => trips'[t].status = "ASSIGNED"
  BY <1>2 DEF WriteAssignment, TypeOK
<1>3. CASE UNCHANGED trips
  BY <1>3
<1>4. CASE \E t \in Trips : RequestThread(t)
  BY <1>1, <1>3, <1>4
     DEF RequestThread, RequestRide, RequestRideThrows, CommitRequest, CommitRequestThrows,
         ReplyAccepted
<1>5. CASE Handling
  BY <1>2, <1>3, <1>5
     DEF Handling, SkipOtherType, TripNotFound, InvalidTransition, AssignDriver,
         AssignDriverThrows, CommitAssignment, CommitAssignmentThrows, Ack, AckThrows
<1>6. CASE Crash \/ Idle \/ UNCHANGED vars \/ \E p \in Partitions : Sender(p) \/ Polling(p)
  BY <1>3, <1>6
     DEF Crash, Idle, vars, Sender, Polling, Deliver, LoseRecord, Poll, PollUndecodable
<1> QED BY <1>4, <1>5, <1>6 DEF Next

\* No step changes what is in the log.
LEMMA StepKeepsLog ==
  ASSUME TypeOK, [Next]_vars
  PROVE  \A p \in Partitions :
           /\ Len(log[p]) <= Len(log'[p])
           /\ \A i \in 1 .. Len(log[p]) : log'[p][i] = log[p][i]
<1> USE DEF producerVars, listenerVars, historyVars
<1>1. CASE UNCHANGED log
  BY <1>1 DEF TypeOK
<1>2. ASSUME NEW q \in Partitions, Deliver(q)
      PROVE  \A p \in Partitions :
               /\ Len(log[p]) <= Len(log'[p])
               /\ \A i \in 1 .. Len(log[p]) : log'[p][i] = log[p][i]
  <2>1. log[q] \in Seq(Event) /\ Head(buffer[q]) \in Event
    BY <1>2 DEF Deliver, TypeOK
  <2>2. log'[q] = Append(log[q], Head(buffer[q]))
    BY <1>2 DEF Deliver, TypeOK
  <2>3. \A p \in Partitions : p # q => log'[p] = log[p]
    BY <1>2 DEF Deliver, TypeOK
  <2>4. /\ Len(log'[q]) = Len(log[q]) + 1
        /\ \A i \in 1 .. Len(log[q]) : log'[q][i] = log[q][i]
    BY <2>1, <2>2
  <2>5. \A p \in Partitions : Len(log[p]) \in Nat
    BY DEF TypeOK
  <2> QED BY <2>3, <2>4, <2>5
<1>3. CASE Handling
  BY <1>1, <1>3
     DEF Handling, SkipOtherType, TripNotFound, InvalidTransition, AssignDriver,
         AssignDriverThrows, CommitAssignment, CommitAssignmentThrows, Ack, AckThrows
<1>4. CASE \E t \in Trips : RequestThread(t)
  BY <1>1, <1>4
     DEF RequestThread, RequestRide, RequestRideThrows, CommitRequest, CommitRequestThrows,
         ReplyAccepted
<1>5. CASE Crash \/ Idle \/ UNCHANGED vars
  BY <1>1, <1>5 DEF Crash, Idle, vars
<1>6. CASE \E p \in Partitions : LoseRecord(p) \/ Polling(p)
  BY <1>1, <1>6 DEF LoseRecord, Polling, Poll, PollUndecodable
<1> QED BY <1>2, <1>3, <1>4, <1>5, <1>6 DEF Next, Sender

\* The row invariant is inductive in two parts; first the requests.
LEMMA StepRowsFollowRequests ==
  ASSUME TypeOK, RowsFollowRequests, ListenerKnowsRow, [Next]_vars
  PROVE  RowsFollowRequests'
<1> USE DEF producerVars, listenerVars, historyVars, RowsFollowRequests
<1>1. CASE UNCHANGED <<trips, request>>
  BY <1>1
<1>2. ASSUME NEW u \in Trips, RequestThread(u)
      PROVE  RowsFollowRequests'
  BY <1>2 DEF RequestThread, RequestRide, RequestRideThrows, CommitRequest,
              CommitRequestThrows, ReplyAccepted, SetRequest, InsertRow, TypeOK
<1>3. CASE pc = "assigned" /\ WriteAssignment /\ UNCHANGED request
  <2>1. Record.trip \in Trips /\ trips[Record.trip].status = "REQUESTED"
    BY <1>3, RecordType DEF ListenerKnowsRow
  <2>2. request[Record.trip] \notin {"idle", "sent"}
    BY <2>1 DEF Table!NoRow
  <2> QED BY <1>3, <2>1, <2>2 DEF WriteAssignment, TypeOK
<1>4. CASE Handling
  BY <1>1, <1>3, <1>4
     DEF Handling, SkipOtherType, TripNotFound, InvalidTransition, AssignDriver,
         AssignDriverThrows, CommitAssignment, CommitAssignmentThrows, Ack, AckThrows
<1>5. CASE Crash
  BY <1>5 DEF Crash
<1>6. CASE Idle \/ UNCHANGED vars \/ \E p \in Partitions : Sender(p) \/ Polling(p)
  BY <1>1, <1>6 DEF Idle, vars, Sender, Polling, Deliver, LoseRecord, Poll, PollUndecodable
<1> QED BY <1>2, <1>4, <1>5, <1>6 DEF Next

\* While the listener works on a record, other threads leave the record alone.
LEMMA StepKeepsRecord ==
  ASSUME TypeOK, [Next]_vars, pc # "poll", pc' # "poll",
         UNCHANGED <<current, committed>>
  PROVE  Record' = Record /\ Record.trip \in Trips
<1>1. /\ current \in Partitions
      /\ committed[current] + 1 \in 1 .. Len(log[current])
      /\ Record.trip \in Trips
  BY RecordType
<1>2. log'[current][committed[current] + 1] = log[current][committed[current] + 1]
  BY <1>1, StepKeepsLog
<1> QED BY <1>1, <1>2 DEF Record, NextOf

\* What a step of another thread leaves of the listener's knowledge.
LEMMA OthersKeepListener ==
  ASSUME TypeOK, RowsFollowRequests, ListenerKnowsRow, [Next]_vars,
         UNCHANGED <<pc, current, committed>>,
         \A t \in Trips : trips[t].status = "REQUESTED" => trips'[t] = trips[t]
  PROVE  ListenerKnowsRow'
<1>1. CASE pc = "poll"
  BY <1>1 DEF ListenerKnowsRow
<1>2. CASE pc # "poll"
  <2>1. Record' = Record /\ Record.trip \in Trips
    BY <1>2, StepKeepsRecord
  <2>2. trips[Record.trip].status = "ASSIGNED" => trips'[Record.trip].status = "ASSIGNED"
    BY <2>1, StepKeepsAssigned
  <2> QED BY <2>1, <2>2 DEF ListenerKnowsRow
<1> QED BY <1>1, <1>2

LEMMA StepListenerKnowsRow ==
  ASSUME TypeOK, RowsFollowRequests, ListenerKnowsRow, [Next]_vars
  PROVE  ListenerKnowsRow'
<1> USE DEF producerVars, listenerVars, historyVars
<1>1. CASE pc' \in {"poll", "handle"}
  BY <1>1 DEF ListenerKnowsRow
<1>2. ASSUME NEW u \in Trips, RequestThread(u)
      PROVE  ListenerKnowsRow'
  <2>1. UNCHANGED <<pc, current, committed>>
    BY <1>2 DEF RequestThread, RequestRide, RequestRideThrows, CommitRequest,
                CommitRequestThrows, ReplyAccepted
  <2>2. UNCHANGED trips \/ (request[u] = "sent" /\ InsertRow(u))
    BY <1>2 DEF RequestThread, RequestRide, RequestRideThrows, CommitRequest,
                CommitRequestThrows, ReplyAccepted
  <2>3. request[u] = "sent" => trips[u].status = "NONE"
    BY DEF RowsFollowRequests, Table!NoRow
  <2>4. \A t \in Trips : trips[t].status = "REQUESTED" => trips'[t] = trips[t]
    BY <2>2, <2>3 DEF InsertRow, TypeOK
  <2> QED BY <2>1, <2>4, OthersKeepListener
<1>3. CASE \/ \E p \in Partitions : Sender(p)
           \/ Idle
           \/ UNCHANGED vars
  <2>1. UNCHANGED <<pc, current, committed, trips>>
    BY <1>3 DEF Sender, Deliver, LoseRecord, Idle, vars
  <2> QED BY <2>1, OthersKeepListener
<1>4. ASSUME NEW p \in Partitions, Polling(p)
      PROVE  ListenerKnowsRow'
  BY <1>4, <1>1 DEF Polling, Poll, PollUndecodable
<1>5. CASE SkipOtherType
  <2>1. Record' = Record
    BY <1>5 DEF SkipOtherType, Record, NextOf
  <2> QED BY <1>5, <2>1 DEF SkipOtherType, ListenerKnowsRow
<1>6. CASE AssignDriver
  <2>1. Record' = Record
    BY <1>6 DEF AssignDriver, Record, NextOf
  <2>2. Record.trip \in Trips /\ trips[Record.trip] \in Table!Row
    BY <1>6, RecordType DEF AssignDriver, TypeOK
  <2>3. trips[Record.trip].status = "REQUESTED"
    BY <1>6, <2>2
       DEF AssignDriver, Assignable, Table!CanTransitionTo, Table!ValidTransitions,
           Table!Row, Table!Statuses
  <2> QED BY <1>6, <2>1, <2>3 DEF AssignDriver, ListenerKnowsRow
<1>7. CASE CommitAssignment
  <2>1. Record' = Record
    BY <1>7 DEF CommitAssignment, Record, NextOf
  <2>2. Record.trip \in Trips
    BY <1>7, RecordType DEF CommitAssignment
  <2>3. trips'[Record.trip].status = "ASSIGNED"
    BY <1>7, <2>2 DEF CommitAssignment, WriteAssignment, TypeOK
  <2> QED BY <1>7, <2>1, <2>3 DEF CommitAssignment, ListenerKnowsRow
<1>8. CASE Handling
  BY <1>1, <1>5, <1>6, <1>7, <1>8
     DEF Handling, TripNotFound, InvalidTransition, AssignDriverThrows,
         CommitAssignmentThrows, Ack, AckThrows, BackToPoll
<1>9. CASE Crash
  BY <1>1, <1>9 DEF Crash, BackToPoll
<1> QED BY <1>2, <1>3, <1>4, <1>8, <1>9 DEF Next

\* A committed offset keeps its meaning, and gets it only from the two places
\* that advance it.
LEMMA StepAckedIsAssigned ==
  ASSUME RowInv, [Next]_vars
  PROVE  AckedIsAssigned'
<1> USE DEF RowInv, producerVars, listenerVars, historyVars
<1>1. \A p \in Partitions : committed[p] \in Nat /\ committed[p] <= Len(log[p])
  BY DEF TypeOK
<1>2. \A p \in Partitions : \A i \in 1 .. committed[p] :
        /\ log'[p][i] = log[p][i]
        /\ log[p][i] \in Event /\ log[p][i].trip \in Trips
  <2> SUFFICES ASSUME NEW p \in Partitions, NEW i \in 1 .. committed[p]
               PROVE  /\ log'[p][i] = log[p][i]
                      /\ log[p][i] \in Event /\ log[p][i].trip \in Trips
    OBVIOUS
  <2>1. log[p] \in Seq(Event) /\ i \in 1 .. Len(log[p])
    BY <1>1 DEF TypeOK
  <2>2. log[p][i] \in Event
    BY <2>1
  <2> QED BY <2>1, <2>2, StepKeepsLog DEF Event
<1>3. skipped \subseteq skipped'
  BY DEF Next, RequestThread, RequestRide, RequestRideThrows, CommitRequest,
         CommitRequestThrows, ReplyAccepted, Sender, Deliver, LoseRecord, Polling, Poll,
         PollUndecodable, Handling, SkipOtherType, TripNotFound, InvalidTransition,
         AssignDriver, AssignDriverThrows, CommitAssignment, CommitAssignmentThrows, Ack,
         AckThrows, Crash, Idle, vars
<1>4. \A p \in Partitions : \A i \in 1 .. committed[p] :
        log'[p][i].type = "TripRequested" =>
          \/ trips'[log'[p][i].trip].status = "ASSIGNED"
          \/ <<p, i>> \in skipped'
  BY <1>2, <1>3, StepKeepsAssigned DEF AckedIsAssigned
<1>5. CASE UNCHANGED committed
  BY <1>4, <1>5 DEF AckedIsAssigned
<1>6. ASSUME NEW q \in Partitions, PollUndecodable(q)
      PROVE  AckedIsAssigned'
  <2>1. \A p \in Partitions : p # q => committed'[p] = committed[p]
    BY <1>6 DEF PollUndecodable, TypeOK
  <2>2. committed'[q] = committed[q] + 1 /\ <<q, committed[q] + 1>> \in skipped'
    BY <1>6 DEF PollUndecodable, TypeOK
  <2>3. \A i \in 1 .. committed'[q] : i \in 1 .. committed[q] \/ i = committed[q] + 1
    BY <1>1, <2>2
  <2> QED BY <1>4, <2>1, <2>2, <2>3 DEF AckedIsAssigned
<1>7. CASE Ack
  <2>1. current \in Partitions
    BY <1>7, RecordType DEF Ack
  <2>2. \A p \in Partitions : p # current => committed'[p] = committed[p]
    BY <1>7 DEF Ack, TypeOK
  <2>3. committed'[current] = committed[current] + 1
    BY <1>7, <2>1 DEF Ack, TypeOK
  <2>4. \A i \in 1 .. committed'[current] :
          i \in 1 .. committed[current] \/ i = committed[current] + 1
    BY <1>1, <2>1, <2>3
  <2>5. Record.type = "TripRequested" => trips[Record.trip].status = "ASSIGNED"
    BY <1>7 DEF Ack, ListenerKnowsRow
  <2>6. UNCHANGED <<log, trips>>
    BY <1>7 DEF Ack
  <2> QED BY <1>4, <2>1, <2>2, <2>3, <2>4, <2>5, <2>6 DEF AckedIsAssigned, Record, NextOf
<1>8. CASE Handling
  BY <1>5, <1>7, <1>8
     DEF Handling, SkipOtherType, TripNotFound, InvalidTransition, AssignDriver,
         AssignDriverThrows, CommitAssignment, CommitAssignmentThrows, AckThrows
<1>9. CASE \E t \in Trips : RequestThread(t)
  BY <1>5, <1>9
     DEF RequestThread, RequestRide, RequestRideThrows, CommitRequest, CommitRequestThrows,
         ReplyAccepted
<1>10. CASE Crash \/ Idle \/ UNCHANGED vars \/ \E p \in Partitions : Sender(p) \/ Poll(p)
  BY <1>5, <1>10 DEF Crash, Idle, vars, Sender, Deliver, LoseRecord, Poll
<1> QED BY <1>6, <1>8, <1>9, <1>10 DEF Next, Polling

LEMMA RowInvariant == Spec => []RowInv
<1>1. Init => RowInv
  <2>1. Init => RowsFollowRequests /\ ListenerKnowsRow
    BY DEF Init, RowsFollowRequests, ListenerKnowsRow
  <2>2. Init => AckedIsAssigned
    BY DEF Init, AckedIsAssigned
  <2> QED BY <2>1, <2>2, InitTypeOK DEF RowInv
<1>2. RowInv /\ [Next]_vars => RowInv'
  BY StepTypeOK, StepRowsFollowRequests, StepListenerKnowsRow, StepAckedIsAssigned DEF RowInv
<1> QED BY <1>1, <1>2, PTL DEF Spec

\* Whatever fails or crashes, a trip id answered with 202 has its row.
THEOREM AcceptedIsDurableHolds == Spec => []AcceptedIsDurable
<1>1. RowInv => AcceptedIsDurable
  BY DEF RowInv, RowsFollowRequests, AcceptedIsDurable
<1> QED BY <1>1, RowInvariant, PTL

\* The offset of a TripRequested is committed only once its trip is assigned,
\* or the record could not be decoded.
THEOREM AckedIsAssignedHolds == Spec => []AckedIsAssigned
<1>1. RowInv => AckedIsAssigned
  BY DEF RowInv
<1> QED BY <1>1, RowInvariant, PTL

\* Dispatch implements the table's life cycle: every step inserts or assigns one
\* row as the abstract specification allows, or leaves the table alone.
THEOREM LifecycleRefinement == Spec => TripsFollowLifecycle
<1> USE DEF producerVars, listenerVars, historyVars
<1>1. Init => Table!Init
  BY DEF Init, Table!Init
<1>2. RowInv /\ [Next]_vars => [Table!Next]_trips
  <2> SUFFICES ASSUME RowInv, [Next]_vars
               PROVE  Table!Next \/ UNCHANGED trips
    OBVIOUS
  <2>1. ASSUME NEW t \in Trips, request[t] = "sent", InsertRow(t)
        PROVE  Table!Next
    <3>1. Table!Insert(t)
      BY <2>1 DEF RowInv, RowsFollowRequests, InsertRow, Table!Insert
    <3> QED BY <3>1 DEF Table!Next
  <2>2. ASSUME pc = "assigned", WriteAssignment
        PROVE  Table!Next
    <3>1. Record.trip \in Trips /\ trips[Record.trip].status = "REQUESTED"
      BY <2>2, RecordType DEF RowInv, ListenerKnowsRow
    <3>2. chosen \in Drivers
      BY <2>2 DEF RowInv, TypeOK
    <3>3. Table!CanTransitionTo(trips[Record.trip].status, "ASSIGNED")
      BY <3>1 DEF Table!CanTransitionTo, Table!ValidTransitions
    <3>4. Table!Assign(Record.trip, chosen)
      BY <2>2, <3>3 DEF WriteAssignment, Table!Assign
    <3> QED BY <3>1, <3>2, <3>4 DEF Table!Next
  <2>3. CASE \E t \in Trips : RequestThread(t)
    BY <2>1, <2>3
       DEF RequestThread, RequestRide, RequestRideThrows, CommitRequest, CommitRequestThrows,
           ReplyAccepted
  <2>4. CASE Handling
    BY <2>2, <2>4
       DEF Handling, SkipOtherType, TripNotFound, InvalidTransition, AssignDriver,
           AssignDriverThrows, CommitAssignment, CommitAssignmentThrows, Ack, AckThrows
  <2>5. CASE Crash \/ Idle \/ UNCHANGED vars \/ \E p \in Partitions : Sender(p) \/ Polling(p)
    BY <2>5 DEF Crash, Idle, vars, Sender, Deliver, LoseRecord, Polling, Poll, PollUndecodable
  <2> QED BY <2>3, <2>4, <2>5 DEF Next
<1> QED BY <1>1, <1>2, RowInvariant, PTL DEF Spec, TripsFollowLifecycle, Table!Spec

-------------------------------------------------------------------------------
(* The order of the records.                                               *)

\* A record sent with a cause in the log keeps the order.
LEMMA SendKeepsOrder ==
  ASSUME TypeOK, OrderFacts, NEW e \in Event, Send(e), log' = log,
         WellPlaced(e, PartitionOf[e.trip]),
         e.type = "TripAssigned" =>
           \E k \in 1 .. Len(log[PartitionOf[e.trip]]) :
             log[PartitionOf[e.trip]][k] = TripRequested(e.trip)
  PROVE  OrderFacts'
<1> DEFINE q == PartitionOf[e.trip]
<1>1. q \in Partitions
  BY DispatchAssumption DEF Event
<1>2. \A p \in Partitions : buffer[p] \in Seq(Event)
  BY DEF TypeOK
<1>3. buffer'[q] = Append(buffer[q], e) /\ \A p \in Partitions : p # q => buffer'[p] = buffer[p]
  BY <1>1 DEF Send, TypeOK
<1>4. \A i \in 1 .. Len(buffer'[q]) :
        \/ i \in 1 .. Len(buffer[q]) /\ buffer'[q][i] = buffer[q][i]
        \/ buffer'[q][i] = e
  BY <1>1, <1>2, <1>3
<1>5. RecordsWellPlaced'
  <2>1. ASSUME NEW p \in Partitions, NEW i \in 1 .. Len(buffer'[p])
        PROVE  WellPlaced(buffer'[p][i], p)
    <3>1. CASE p = q
      BY <1>4, <2>1, <3>1 DEF OrderFacts, RecordsWellPlaced
    <3>2. CASE p # q
      BY <1>3, <2>1, <3>2 DEF OrderFacts, RecordsWellPlaced
    <3> QED BY <3>1, <3>2
  <2>2. \A p \in Partitions : \A i \in 1 .. Len(log'[p]) : WellPlaced(log'[p][i], p)
    BY DEF OrderFacts, RecordsWellPlaced
  <2> QED BY <2>1, <2>2 DEF RecordsWellPlaced, WellPlaced
<1>6. BufferedWasRequested'
  <2>1. ASSUME NEW p \in Partitions, NEW i \in 1 .. Len(buffer'[p]),
               buffer'[p][i].type = "TripAssigned"
        PROVE  \E k \in 1 .. Len(log[p]) : log[p][k] = TripRequested(buffer'[p][i].trip)
    <3>1. CASE p = q
      BY <1>4, <2>1, <3>1 DEF OrderFacts, BufferedWasRequested
    <3>2. CASE p # q
      BY <1>3, <2>1, <3>2 DEF OrderFacts, BufferedWasRequested
    <3> QED BY <3>1, <3>2
  <2> QED BY <2>1 DEF BufferedWasRequested, TripRequested
<1>7. RequestedBeforeAssigned'
  BY DEF OrderFacts, RequestedBeforeAssigned, TripRequested
<1> QED BY <1>5, <1>6, <1>7 DEF OrderFacts

\* Storing the head of an accumulator keeps the order: its cause is stored.
LEMMA DeliverKeepsOrder ==
  ASSUME TypeOK, OrderFacts, NEW q \in Partitions, Deliver(q)
  PROVE  OrderFacts'
<1> DEFINE e == Head(buffer[q])
<1>1. /\ log[q] \in Seq(Event) /\ buffer[q] \in Seq(Event) /\ buffer[q] # <<>>
      /\ Len(log[q]) \in Nat
  BY DEF TypeOK, Deliver
<1>2. /\ log'[q] = Append(log[q], e) /\ buffer'[q] = Tail(buffer[q])
      /\ \A p \in Partitions : p # q => log'[p] = log[p] /\ buffer'[p] = buffer[p]
  BY DEF Deliver, TypeOK
<1>3. 1 \in 1 .. Len(buffer[q]) /\ e = buffer[q][1]
  BY <1>1
<1>4. \A i \in 1 .. Len(buffer'[q]) :
        i + 1 \in 1 .. Len(buffer[q]) /\ buffer'[q][i] = buffer[q][i + 1]
  BY <1>1, <1>2
<1>5. /\ Len(log'[q]) = Len(log[q]) + 1 /\ log'[q][Len(log[q]) + 1] = e
      /\ \A i \in 1 .. Len(log[q]) : log'[q][i] = log[q][i]
  BY <1>1, <1>2
<1>6. \A i \in 1 .. Len(log'[q]) : i \in 1 .. Len(log[q]) \/ i = Len(log[q]) + 1
  BY <1>1, <1>5
<1>7. WellPlaced(e, q)
  BY <1>3 DEF OrderFacts, RecordsWellPlaced
<1>8. \A i \in 1 .. Len(log'[q]) : WellPlaced(log'[q][i], q)
  BY <1>5, <1>6, <1>7 DEF OrderFacts, RecordsWellPlaced
<1>9. \A i \in 1 .. Len(buffer'[q]) : WellPlaced(buffer'[q][i], q)
  BY <1>4 DEF OrderFacts, RecordsWellPlaced
<1>10. \A p \in Partitions :
         /\ \A i \in 1 .. Len(log'[p]) : WellPlaced(log'[p][i], p)
         /\ \A i \in 1 .. Len(buffer'[p]) : WellPlaced(buffer'[p][i], p)
  BY <1>2, <1>8, <1>9 DEF OrderFacts, RecordsWellPlaced
<1>11. RecordsWellPlaced'
  BY <1>10 DEF RecordsWellPlaced, WellPlaced, TripRequested
<1>12. ASSUME NEW i \in 1 .. Len(buffer'[q]), buffer'[q][i].type = "TripAssigned"
       PROVE  \E k \in 1 .. Len(log'[q]) : log'[q][k] = TripRequested(buffer'[q][i].trip)
  <2>1. PICK k \in 1 .. Len(log[q]) : log[q][k] = TripRequested(buffer[q][i + 1].trip)
    BY <1>4, <1>12 DEF OrderFacts, BufferedWasRequested
  <2>2. k \in 1 .. Len(log'[q]) /\ log'[q][k] = TripRequested(buffer'[q][i].trip)
    BY <1>1, <1>4, <1>5, <2>1
  <2> QED BY <2>2
<1>13. BufferedWasRequested'
  <2> SUFFICES ASSUME NEW p \in Partitions, NEW i \in 1 .. Len(buffer'[p]),
                      buffer'[p][i].type = "TripAssigned"
               PROVE  \E k \in 1 .. Len(log'[p]) : log'[p][k] = TripRequested(buffer'[p][i].trip)
    BY DEF BufferedWasRequested, TripRequested
  <2>1. CASE p = q
    BY <1>12, <2>1
  <2>2. CASE p # q
    BY <1>2, <2>2 DEF OrderFacts, BufferedWasRequested
  <2> QED BY <2>1, <2>2
<1>14. ASSUME NEW j \in 1 .. Len(log'[q]), log'[q][j].type = "TripAssigned"
       PROVE  \E i \in 1 .. j - 1 : log'[q][i] = TripRequested(log'[q][j].trip)
  <2>1. CASE j \in 1 .. Len(log[q])
    <3>1. PICK i \in 1 .. j - 1 : log[q][i] = TripRequested(log[q][j].trip)
      BY <1>5, <1>14, <2>1 DEF OrderFacts, RequestedBeforeAssigned
    <3>2. log'[q][j] = log[q][j]
      BY <1>5, <2>1
    <3>3. i \in 1 .. Len(log[q]) /\ log'[q][i] = log[q][i]
      <4>1. i \in 1 .. Len(log[q])
        BY <1>1, <2>1
      <4> QED BY <1>5, <4>1
    <3> QED BY <3>1, <3>2, <3>3
  <2>2. CASE j = Len(log[q]) + 1
    <3>1. PICK k \in 1 .. Len(log[q]) : log[q][k] = TripRequested(e.trip)
      BY <1>3, <1>5, <1>14, <2>2 DEF OrderFacts, BufferedWasRequested
    <3> QED BY <1>1, <1>5, <2>2, <3>1
  <2> QED BY <1>6, <2>1, <2>2
<1>15. RequestedBeforeAssigned'
  <2> SUFFICES ASSUME NEW p \in Partitions, NEW j \in 1 .. Len(log'[p]),
                      log'[p][j].type = "TripAssigned"
               PROVE  \E i \in 1 .. j - 1 : log'[p][i] = TripRequested(log'[p][j].trip)
    BY DEF RequestedBeforeAssigned, TripRequested
  <2>1. CASE p = q
    BY <1>14, <2>1
  <2>2. CASE p # q
    BY <1>2, <2>2 DEF OrderFacts, RequestedBeforeAssigned
  <2> QED BY <2>1, <2>2
<1> QED BY <1>11, <1>13, <1>15 DEF OrderFacts

\* Dropping records from the accumulators keeps the order of the rest.
LEMMA DroppingKeepsOrder ==
  ASSUME TypeOK, OrderFacts, log' = log,
         \A p \in Partitions :
           buffer'[p] = buffer[p] \/ buffer'[p] = <<>>
             \/ (buffer[p] # <<>> /\ buffer'[p] = Tail(buffer[p]))
  PROVE  OrderFacts'
<1>1. \A p \in Partitions : \A i \in 1 .. Len(buffer'[p]) :
        \E n \in 1 .. Len(buffer[p]) : buffer'[p][i] = buffer[p][n]
  <2> SUFFICES ASSUME NEW p \in Partitions, NEW i \in 1 .. Len(buffer'[p])
               PROVE  \E n \in 1 .. Len(buffer[p]) : buffer'[p][i] = buffer[p][n]
    OBVIOUS
  <2>1. buffer[p] \in Seq(Event)
    BY DEF TypeOK
  <2>2. CASE buffer[p] # <<>> /\ buffer'[p] = Tail(buffer[p])
    <3>1. i + 1 \in 1 .. Len(buffer[p]) /\ buffer'[p][i] = buffer[p][i + 1]
      BY <2>1, <2>2
    <3> QED BY <3>1
  <2> QED BY <2>1, <2>2
<1>2. RecordsWellPlaced'
  <2>1. \A p \in Partitions : \A i \in 1 .. Len(buffer'[p]) : WellPlaced(buffer'[p][i], p)
    BY <1>1 DEF OrderFacts, RecordsWellPlaced
  <2>2. \A p \in Partitions : \A i \in 1 .. Len(log'[p]) : WellPlaced(log'[p][i], p)
    BY DEF OrderFacts, RecordsWellPlaced
  <2> QED BY <2>1, <2>2 DEF RecordsWellPlaced, WellPlaced, TripRequested
<1>3. BufferedWasRequested'
  <2> SUFFICES ASSUME NEW p \in Partitions, NEW i \in 1 .. Len(buffer'[p]),
                      buffer'[p][i].type = "TripAssigned"
               PROVE  \E k \in 1 .. Len(log[p]) : log[p][k] = TripRequested(buffer'[p][i].trip)
    BY DEF BufferedWasRequested, TripRequested
  <2>1. PICK n \in 1 .. Len(buffer[p]) : buffer'[p][i] = buffer[p][n]
    BY <1>1
  <2> QED BY <2>1 DEF OrderFacts, BufferedWasRequested
<1>4. RequestedBeforeAssigned'
  BY DEF OrderFacts, RequestedBeforeAssigned, TripRequested
<1> QED BY <1>2, <1>3, <1>4 DEF OrderFacts

LEMMA StepKeepsOrder ==
  ASSUME TypeOK, OrderFacts, [Next]_vars
  PROVE  OrderFacts'
<1> USE DEF producerVars, listenerVars, historyVars
<1>1. CASE UNCHANGED <<buffer, log>>
  BY <1>1 DEF OrderFacts, RecordsWellPlaced, BufferedWasRequested, RequestedBeforeAssigned,
              WellPlaced, TripRequested
<1>2. ASSUME NEW t \in Trips, RequestRide(t)
      PROVE  OrderFacts'
  <2>1. TripRequested(t) \in Event /\ WellPlaced(TripRequested(t), PartitionOf[t])
    BY EventTypesOK DEF WellPlaced, TripRequested
  <2> QED BY <1>2, <2>1, SendKeepsOrder DEF RequestRide, TripRequested
<1>3. CASE AssignDriver
  <2> DEFINE e == TripAssigned(Record.trip, PickIndex(counter))
  <2>1. /\ current \in Partitions /\ Record.trip \in Trips
        /\ committed[current] + 1 \in 1 .. Len(log[current])
    BY <1>3, RecordType DEF AssignDriver
  <2>2. e \in Event
    BY <2>1, CounterType, EventTypesOK DEF TypeOK
  <2>3. e.trip = Record.trip /\ e.type = "TripAssigned"
    BY DEF TripAssigned
  <2>4. WellPlaced(Record, current) /\ Record = log[current][committed[current] + 1]
    BY <2>1 DEF OrderFacts, RecordsWellPlaced, Record, NextOf
  <2>5. PartitionOf[e.trip] = current /\ Record = TripRequested(e.trip)
    BY <1>3, <2>3, <2>4 DEF AssignDriver, WellPlaced
  <2>6. WellPlaced(e, PartitionOf[e.trip])
    BY <2>3 DEF WellPlaced
  <2>7. \E k \in 1 .. Len(log[PartitionOf[e.trip]]) :
          log[PartitionOf[e.trip]][k] = TripRequested(e.trip)
    BY <2>1, <2>4, <2>5
  <2>8. Send(e) /\ log' = log
    BY <1>3 DEF AssignDriver
  <2> HIDE DEF e
  <2> QED BY <2>2, <2>6, <2>7, <2>8, SendKeepsOrder
<1>4. ASSUME NEW p \in Partitions, LoseRecord(p)
      PROVE  OrderFacts'
  BY <1>4, DroppingKeepsOrder DEF LoseRecord, TypeOK
<1>5. CASE Crash
  <2>1. log' = log /\ \A p \in Partitions : buffer'[p] = <<>>
    BY <1>5 DEF Crash
  <2> QED BY <2>1, DroppingKeepsOrder
<1>6. CASE \E t \in Trips : RequestThread(t)
  BY <1>1, <1>2, <1>6
     DEF RequestThread, RequestRideThrows, CommitRequest, CommitRequestThrows, ReplyAccepted
<1>7. CASE Handling
  BY <1>1, <1>3, <1>7
     DEF Handling, SkipOtherType, TripNotFound, InvalidTransition, AssignDriverThrows,
         CommitAssignment, CommitAssignmentThrows, Ack, AckThrows
<1>8. CASE Idle \/ UNCHANGED vars \/ \E p \in Partitions : Polling(p)
  BY <1>1, <1>8 DEF Idle, vars, Polling, Poll, PollUndecodable
<1> QED BY <1>4, <1>5, <1>6, <1>7, <1>8, DeliverKeepsOrder DEF Next, Sender

\* For every partitioning of the trips, a topic reader sees a trip's
\* TripRequested before any TripAssigned of it.
THEOREM RequestedBeforeAssignedHolds == Spec => []RequestedBeforeAssigned
<1>1. Init => OrderFacts
  BY DEF Init, OrderFacts, RecordsWellPlaced, BufferedWasRequested, RequestedBeforeAssigned
<1>2. OrderFacts => RequestedBeforeAssigned
  BY DEF OrderFacts
<1> QED BY <1>1, <1>2, StepKeepsOrder, TypeOKHolds, PTL DEF Spec
===============================================================================
