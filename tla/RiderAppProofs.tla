---------------------------- MODULE RiderAppProofs ----------------------------
(***************************************************************************)
(* What the rider's page may rely on, for any number of presses, any       *)
(* partitioning and any failures of the page, Dispatch and the worker; and *)
(* that the worker behind the page is the worker of EventWorker.           *)
(***************************************************************************)
EXTENDS RiderApp, RideEventsProofs

\* The request thread is over: it never does anything again.
Answered(t) == request[t] \in {"accepted", "failed", "dropped"}

\* An id on the screen came with a 202.
ShownIsAccepted ==
  /\ shown \subseteq Trips
  /\ \A t \in shown : request[t] = "accepted"

\* Every press but the one the page awaits is answered or given up.
OthersAreSettled ==
  /\ presses \in 0 .. Len(TripIds)
  /\ screen = "loading" => presses # 0
  /\ \A i \in 1 .. presses :
       (i = presses => screen # "loading") => Answered(TripIds[i]) \/ TripIds[i] \in abandoned

\* What the page knows is true because of what Dispatch does.
PageInv == RowInv /\ ShownIsAccepted /\ OthersAreSettled

-------------------------------------------------------------------------------
(* The steps behind the page.                                              *)

\* An answer is final.
LEMMA AnswersAreFinal ==
  ASSUME TypeOK, [Next]_vars, NEW t \in Trips, Answered(t)
  PROVE  request'[t] = request[t]
<1> USE DEF producerVars, listenerVars, historyVars, Answered
<1>1. CASE UNCHANGED request
  BY <1>1
<1>2. CASE \E u \in Trips : RequestThread(u)
  BY <1>2 DEF RequestThread, RequestRide, RequestRideThrows, CommitRequest,
              CommitRequestThrows, ReplyAccepted, SetRequest, TypeOK
<1>3. CASE Crash
  BY <1>3 DEF Crash
<1>4. CASE Handling
  BY <1>1, <1>4
     DEF Handling, SkipOtherType, TripNotFound, InvalidTransition, AssignDriver,
         AssignDriverThrows, CommitAssignment, CommitAssignmentThrows, Ack, AckThrows
<1>5. CASE Idle \/ UNCHANGED vars \/ \E p \in Partitions : Sender(p) \/ Polling(p)
  BY <1>1, <1>5 DEF Idle, vars, Sender, Deliver, LoseRecord, Polling, Poll, PollUndecodable
<1> QED BY <1>2, <1>3, <1>4, <1>5 DEF Next

\* Whatever the services do keeps what the page knows.
LEMMA RideStepKeepsPage ==
  ASSUME PageInv, [Next]_vars, UNCHANGED appVars
  PROVE  PageInv'
<1>1. RowInv'
  BY StepTypeOK, StepRowsFollowRequests, StepListenerKnowsRow, StepAckedIsAssigned
     DEF PageInv, RowInv
<1>2. \A t \in Trips : Answered(t) => request'[t] = request[t]
  BY AnswersAreFinal DEF PageInv, RowInv
<1>3. ShownIsAccepted'
  BY <1>2 DEF PageInv, ShownIsAccepted, Answered, appVars
<1>4. OthersAreSettled'
  <2>1. \A i \in 1 .. presses : TripIds[i] \in Trips
    BY AppAssumption DEF PageInv, OthersAreSettled
  <2> QED BY <1>2, <2>1 DEF PageInv, OthersAreSettled, Answered, appVars
<1> QED BY <1>1, <1>3, <1>4 DEF PageInv

\* A failure of the page's own connection is one of no service.
LEMMA FetchFaultKeepsRows ==
  ASSUME RowInv, FetchFault
  PROVE  RowInv'
<1> USE DEF FetchFault, producerVars, listenerVars, historyVars
<1>1. faults' \in 0 .. MaxFaults
  BY DispatchAssumption DEF RowInv, TypeOK
<1>2. TypeOK'
  BY <1>1 DEF RowInv, TypeOK, Unread
<1>3. RowsFollowRequests' /\ AckedIsAssigned'
  BY DEF RowInv, RowsFollowRequests, AckedIsAssigned
<1>4. ListenerKnowsRow'
  BY DEF RowInv, ListenerKnowsRow, Record, NextOf
<1> QED BY <1>2, <1>3, <1>4 DEF RowInv

-------------------------------------------------------------------------------
(* The page.                                                               *)

\* The button works only when everything before is settled.
LEMMA PressKeepsPage ==
  ASSUME PageInv, Press
  PROVE  PageInv'
<1>1. UNCHANGED vars
  BY DEF Press, pipelineVars
<1>2. RowInv'
  BY <1>1, StepTypeOK, StepRowsFollowRequests, StepListenerKnowsRow, StepAckedIsAssigned
     DEF PageInv, RowInv
<1>3. UNCHANGED <<request, shown, abandoned>>
  BY <1>1 DEF Press, vars
<1>4. ShownIsAccepted'
  BY <1>3 DEF PageInv, ShownIsAccepted
<1>5. /\ presses \in 0 .. Len(TripIds) /\ presses < Len(TripIds) /\ Len(TripIds) \in Nat
      /\ presses' = presses + 1 /\ screen # "loading" /\ screen' = "loading"
  BY AppAssumption DEF PageInv, OthersAreSettled, Press
<1>6. \A i \in 1 .. presses' : i # presses' => i \in 1 .. presses
  BY <1>5
<1>7. OthersAreSettled'
  BY <1>3, <1>5, <1>6 DEF PageInv, OthersAreSettled, Answered
<1> QED BY <1>2, <1>4, <1>7 DEF PageInv

\* The awaited request is answered, or it is given up.
LEMMA SettleKeepsPage ==
  ASSUME PageInv, Settle
  PROVE  PageInv'
<1>1. /\ screen = "loading" /\ screen' \in {"success", "error"} /\ presses' = presses
      /\ request' = request
  BY DEF Settle, ShowTrip, ShowError, Abandon, FetchFault, SettleAs, pipelineVars, vars
<1>2. presses \in 1 .. Len(TripIds) /\ Trip \in Trips
  BY <1>1, AppAssumption DEF PageInv, OthersAreSettled, Trip
<1>3. RowInv'
  <2>1. CASE UNCHANGED vars
    BY <2>1, StepTypeOK, StepRowsFollowRequests, StepListenerKnowsRow, StepAckedIsAssigned
       DEF PageInv, RowInv
  <2>2. CASE FetchFault
    BY <2>2, FetchFaultKeepsRows DEF PageInv
  <2> QED BY <2>1, <2>2 DEF Settle, ShowTrip, ShowError, Abandon, pipelineVars
<1>4. ShownIsAccepted'
  BY <1>1, <1>2 DEF Settle, ShowTrip, ShowError, Abandon, FetchFault, PageInv, ShownIsAccepted
<1>5. /\ abandoned \subseteq abandoned'
      /\ Answered(Trip) \/ Trip \in abandoned'
  BY DEF Settle, ShowTrip, ShowError, Abandon, FetchFault, Answered
<1>6. OthersAreSettled'
  BY <1>1, <1>2, <1>5 DEF PageInv, OthersAreSettled, Answered, Trip
<1> QED BY <1>3, <1>4, <1>6 DEF PageInv

LEMMA PageInvariant == AppSpec => []PageInv
<1>1. AppInit => PageInv
  <2> SUFFICES ASSUME AppInit PROVE PageInv
    OBVIOUS
  <2>1. TypeOK
    BY InitTypeOK DEF AppInit, PipelineInit
  <2>2. RowsFollowRequests /\ ListenerKnowsRow /\ AckedIsAssigned
    BY DEF AppInit, PipelineInit, Init, RowsFollowRequests, ListenerKnowsRow, AckedIsAssigned
  <2>3. ShownIsAccepted /\ OthersAreSettled
    BY AppAssumption DEF AppInit, ShownIsAccepted, OthersAreSettled
  <2> QED BY <2>1, <2>2, <2>3 DEF PageInv, RowInv
<1>2. PageInv /\ [AppNext]_rideVars => PageInv'
  <2> SUFFICES ASSUME PageInv, [AppNext]_rideVars PROVE PageInv'
    OBVIOUS
  <2>1. CASE RideStep \/ UNCHANGED rideVars
    <3>1. [Next]_vars /\ UNCHANGED appVars
      BY <2>1 DEF RideStep, PipelineNext, DispatchStep, WorkerStep, rideVars, pipelineVars
    <3> QED BY <3>1, RideStepKeepsPage
  <2> QED BY <2>1, PressKeepsPage, SettleKeepsPage DEF AppNext
<1> QED BY <1>1, <1>2, PTL DEF AppSpec

\* A trip id that was ever on the screen has its row, for any number of rides
\* and failures.
THEOREM ShownIsDurableHolds == AppSpec => []ShownIsDurable
<1>1. PageInv => ShownIsDurable
  BY DEF PageInv, RowInv, RowsFollowRequests, ShownIsAccepted, ShownIsDurable
<1> QED BY <1>1, PageInvariant, PTL

\* Dispatch never handles two requests of one page at once unless the page gave
\* one of them up.
THEOREM OneAtATimeHolds == AppSpec => []OneAtATime
<1>1. PageInv => OneAtATime
  <2> SUFFICES ASSUME PageInv,
                      NEW i \in 1 .. presses, NEW j \in 1 .. presses,
                      request[TripIds[i]] \in {"sent", "committed"},
                      request[TripIds[j]] \in {"sent", "committed"},
                      TripIds[i] \notin abandoned, TripIds[j] \notin abandoned
               PROVE  TripIds[i] = TripIds[j]
    BY DEF OneAtATime, Posted
  <2>1. i = presses /\ j = presses
    BY DEF PageInv, OthersAreSettled, Answered
  <2> QED BY <2>1
<1> QED BY <1>1, PageInvariant, PTL

-------------------------------------------------------------------------------
(* Dispatch behind the page.                                               *)

\* What Dispatch keeps up, whoever calls it: its rows, the order of a trip's
\* records, what its announcements say and how many there are.
BackInv == RowInv /\ OrderFacts /\ AnnouncedInv /\ WithinCapacity

\* A step behind the page is one of Dispatch, one of the worker, or a failure of
\* the page's connection.
LEMMA AppStepIs ==
  ASSUME [AppNext]_rideVars
  PROVE  \/ [Next]_vars /\ UNCHANGED <<workerVars, told>>
         \/ WorkerStep
         \/ FetchFault
<1>1. CASE Press \/ UNCHANGED rideVars
  BY <1>1 DEF Press, rideVars, pipelineVars
<1>2. CASE Settle
  BY <1>2 DEF Settle, ShowTrip, ShowError, Abandon, pipelineVars
<1>3. CASE RideStep
  BY <1>3 DEF RideStep, PipelineNext, DispatchStep
<1> QED BY <1>1, <1>2, <1>3 DEF AppNext

\* A failure more is room for a record more.
LEMMA FetchFaultKeepsBack ==
  ASSUME BackInv, FetchFault
  PROVE  BackInv'
<1> USE DEF FetchFault, producerVars, listenerVars, historyVars
<1>1. RowInv'
  BY FetchFaultKeepsRows DEF BackInv
<1>2. OrderFacts'
  BY DEF BackInv, OrderFacts, RecordsWellPlaced, BufferedWasRequested,
         RequestedBeforeAssigned, WellPlaced
<1>3. AnnouncedInv'
  <2>1. UNCHANGED <<trips, lost, log, buffer, pc, current, committed, chosen>>
    OBVIOUS
  <2>2. AssignedIsAnnounced'
    <3>1. AssignedIsAnnounced
      BY DEF BackInv, AnnouncedInv
    <3>2. ASSUME NEW t \in Trips
          PROVE  Sent(PartitionOf[t])' = Sent(PartitionOf[t])
      BY <2>1 DEF Sent
    <3> HIDE DEF FetchFault
    <3> QED BY <2>1, <3>1, <3>2 DEF AssignedIsAnnounced, IsLastAnnouncement
  <2>3. Announced(Record.trip, chosen)' <=> Announced(Record.trip, chosen)
    BY <2>1 DEF Announced, LastIs, IsLastAnnouncement, Sent, Record, NextOf
  <2> HIDE DEF FetchFault
  <2> QED BY <2>1, <2>2, <2>3 DEF BackInv, AnnouncedInv
<1>4. WithinCapacity'
  <2> SUFFICES ASSUME NEW p \in Partitions
               PROVE  Len(Sent(p)') <= Cardinality(RequestedOn(p)')
                                         + Cardinality(StandingOn(p)') + faults'
    BY DEF WithinCapacity
  <2> DEFINE a == Cardinality(RequestedOn(p))  b == Cardinality(StandingOn(p))
             n == Len(Sent(p))
  <2>1. Len(Sent(p)') = n
    BY DEF Sent
  <2>2. RequestedOn(p)' = RequestedOn(p) /\ StandingOn(p)' = StandingOn(p)
    BY DEF RequestedOn, StandingOn, RidesOn, Standing, Record, NextOf
  <2>3. n <= a + b + faults
    BY DEF BackInv, WithinCapacity
  <2>4. n \in Nat
    BY DEF BackInv, RowInv, TypeOK, Sent
  <2>5. a \in Nat /\ b \in Nat
    BY PipelineAssumption, FiniteRides DEF RequestedOn, StandingOn
  <2>6. faults \in Nat /\ faults' = faults + 1
    BY DispatchAssumption DEF BackInv, RowInv, TypeOK
  <2> HIDE DEF a, b, n, FetchFault
  <2>7. n <= a + b + faults'
    BY <2>3, <2>4, <2>5, <2>6
  <2> QED BY <2>1, <2>2, <2>7 DEF a, b
<1> QED BY <1>1, <1>2, <1>3, <1>4 DEF BackInv

LEMMA StepKeepsBack ==
  ASSUME BackInv, [AppNext]_rideVars
  PROVE  BackInv'
<1>1. CASE [Next]_vars
  <2>1. RowInv'
    BY <1>1, StepTypeOK, StepRowsFollowRequests, StepListenerKnowsRow, StepAckedIsAssigned
       DEF BackInv, RowInv
  <2>2. OrderFacts'
    BY <1>1, StepKeepsOrder DEF BackInv, RowInv
  <2> QED BY <1>1, <2>1, <2>2, PipelineAssumption, StepAnnounced, StepCapacity DEF BackInv
<1>2. CASE FetchFault
  BY <1>2, FetchFaultKeepsBack
<1> QED BY <1>1, <1>2, AppStepIs DEF WorkerStep

LEMMA BackInvariant == AppSpec => []BackInv
<1>1. AppInit => BackInv
  <2> SUFFICES ASSUME Init PROVE BackInv
    BY DEF AppInit, PipelineInit
  <2>1. RowInv
    BY InitTypeOK DEF Init, RowInv, RowsFollowRequests, ListenerKnowsRow, AckedIsAssigned
  <2>2. OrderFacts
    BY DEF Init, OrderFacts, RecordsWellPlaced, BufferedWasRequested, RequestedBeforeAssigned
  <2> QED BY <2>1, <2>2, PipelineAssumption, InitAnnounced, InitCapacity DEF BackInv
<1> QED BY <1>1, StepKeepsBack, PTL DEF AppSpec

-------------------------------------------------------------------------------
(* The worker of the pipeline.                                             *)

\* The worker's theorems, as its instance here has them.
P == INSTANCE EventWorkerProofs
       WITH Records <- Event, committed <- offset, current <- held,
            FaultKinds <- WorkerFaultKinds, MaxFaults <- MaxWorkerFaults,
            faults <- workerFaults

\* Every partition can take what Dispatch writes to it.
LEMMA CapacityIs ==
  ASSUME NEW p \in Partitions
  PROVE  Capacity[p] = 2 * Cardinality(RidesOn(p)) + MaxFaults /\ Capacity[p] \in Nat
<1>1. Cardinality(RidesOn(p)) \in Nat
  BY PipelineAssumption, FiniteRides
<1>2. Capacity[p] = 2 * Cardinality(RidesOn(p)) + MaxFaults
  BY DEF Capacity, RidesOn
<1> QED BY <1>1, <1>2, DispatchAssumption

LEMMA PipelineIsWorkerAssumption == P!WorkerAssumption
<1>1. Capacity \in [Partitions -> Nat]
  BY CapacityIs DEF Capacity
<1>2. KindOf \in [Event -> P!RecordKinds]
  BY DEF KindOf, P!RecordKinds
<1> QED BY <1>1, <1>2, DispatchAssumption, PipelineAssumption
        DEF P!WorkerAssumption, P!AllFaultKinds

LEMMA SameWorker ==
  /\ Worker!Init <=> P!Init
  /\ [Worker!Next]_Worker!vars <=> [P!Next]_P!vars
<1>1. Worker!Init <=> P!Init
  BY DEF Worker!Init, P!Init, Worker!Places, P!Places, Worker!Indexes, P!Indexes
<1>2. [Worker!Next]_Worker!vars <=> [P!Next]_P!vars
  BY DEF
      Worker!Run, Worker!Start, Worker!StartFails, Worker!Publish, Worker!LoopTop,
      Worker!ReadMessage, Worker!ReadReturnsNothing, Worker!Notify, Worker!Skip, Worker!Drop,
      Worker!LogNotification, Worker!LogWarning, Worker!CommitMessage,
      Worker!CommitMessageFails, Worker!Rewind, Worker!Rebalance, Worker!NewProcess,
      Worker!Crash, Worker!Stop, Worker!StartAgain, Worker!Fault, Worker!NoFault,
      Worker!Index, Worker!Held, Worker!Record, Worker!Kind, Worker!End, Worker!offsets,
      Worker!history, Worker!vars, Worker!Next,
      P!Run, P!Start, P!StartFails, P!Publish, P!LoopTop, P!ReadMessage, P!ReadReturnsNothing,
      P!Notify, P!Skip, P!Drop, P!LogNotification, P!LogWarning, P!CommitMessage,
      P!CommitMessageFails, P!Rewind, P!Rebalance, P!NewProcess, P!Crash, P!Stop,
      P!StartAgain, P!Fault, P!NoFault, P!Index, P!Held, P!Record, P!Kind, P!End, P!offsets,
      P!history, P!vars, P!Next
<1> QED BY <1>1, <1>2

\* To the worker, a step of Dispatch is a record published, or nothing.
LEMMA DispatchPublishes ==
  ASSUME BackInv, BackInv', [Next]_vars, UNCHANGED <<workerVars, told>>
  PROVE  [Worker!Next]_Worker!vars
<1>1. CASE UNCHANGED log
  BY <1>1 DEF workerVars, Worker!vars, Worker!offsets, Worker!history
<1>2. ASSUME NEW p \in Partitions, Deliver(p)
      PROVE  [Worker!Next]_Worker!vars
  <2>1. TypeOK /\ TypeOK' /\ WithinCapacity'
    BY DEF BackInv, RowInv
  <2>2. buffer[p] \in Seq(Event) /\ log[p] \in Seq(Event) /\ buffer[p] # <<>>
    BY <1>2, <2>1 DEF Deliver, TypeOK
  <2>3. PICK e \in Event : e = Head(buffer[p])
    BY <2>2
  <2>4. log' = [log EXCEPT ![p] = Append(@, e)]
    BY <1>2, <2>3 DEF Deliver
  <2>5. Len(log'[p]) = Len(log[p]) + 1
    BY <2>1, <2>2, <2>4 DEF TypeOK
  <2>6. Len(log'[p]) + Len(buffer'[p]) <= Capacity[p]
    <3>1. (Len(log[p]) + Len(buffer[p]) <= 2 * Cardinality(RidesOn(p)) + MaxFaults)'
      BY <2>1, PipelineAssumption, LogWithinCapacity, PTL
    <3> QED BY <3>1, CapacityIs DEF RidesOn
  <2>7. Len(log[p]) < Capacity[p]
    <3>1. PICK n \in Nat : n = Len(log[p])
      BY <2>2
    <3>2. PICK b \in Nat : b = Len(buffer'[p])
      BY <2>1 DEF TypeOK
    <3>3. PICK c \in Nat : c = Capacity[p]
      BY CapacityIs
    <3>4. n + 1 + b <= c
      BY <2>5, <2>6, <3>1, <3>2, <3>3
    <3> QED BY <3>1, <3>3, <3>4
  <2>8. Worker!Publish(p, e)
    BY <2>4, <2>7
       DEF Worker!Publish, Worker!End, Worker!NoFault, Worker!offsets, Worker!history, workerVars
  <2> QED BY <2>8 DEF Worker!Next
<1>3. CASE \E t \in Trips : RequestThread(t)
  BY <1>1, <1>3 DEF RequestThread, RequestRide, RequestRideThrows, CommitRequest,
                    CommitRequestThrows, ReplyAccepted, producerVars
<1>4. CASE Handling
  BY <1>1, <1>4
     DEF Handling, SkipOtherType, TripNotFound, InvalidTransition, AssignDriver,
         AssignDriverThrows, CommitAssignment, CommitAssignmentThrows, Ack, AckThrows,
         producerVars
<1>5. CASE Crash \/ Idle \/ UNCHANGED vars \/ \E p \in Partitions : LoseRecord(p) \/ Polling(p)
  BY <1>1, <1>5
     DEF Crash, Idle, vars, LoseRecord, Polling, Poll, PollUndecodable, producerVars
<1> QED BY <1>2, <1>3, <1>4, <1>5 DEF Next, Sender

LEMMA StepIsWorkerStep ==
  ASSUME BackInv, BackInv', [AppNext]_rideVars
  PROVE  [Worker!Next]_Worker!vars
<1>1. CASE WorkerStep
  BY <1>1 DEF WorkerStep, Notify, WorkerElse, Worker!Next, Worker!Run
<1>2. CASE FetchFault
  BY <1>2 DEF FetchFault, producerVars, workerVars, Worker!vars, Worker!offsets, Worker!history
<1> QED BY <1>1, <1>2, DispatchPublishes, AppStepIs

\* Behind the page, whatever fails on either side, the notification worker is the
\* worker of EventWorker, with Dispatch as its publisher.
ImplementsWorker == Worker!Spec

\* Every step of page, Dispatch or worker is a step of that worker or leaves it
\* alone, and the topic never outgrows its capacity.
THEOREM WorkerRefinement == AppSpec => ImplementsWorker
<1>1. AppInit => Worker!Init
  BY DEF AppInit, PipelineInit
<1> QED BY <1>1, BackInvariant, StepIsWorkerStep, PTL DEF AppSpec, ImplementsWorker, Worker!Spec

LEMMA WorkerInvariant == AppSpec => []P!IInv
<1>1. P!Spec => []P!IInv
  BY P!IInvHolds, PipelineIsWorkerAssumption
<1>2. Worker!Spec => P!Spec
  BY SameWorker, PTL DEF Worker!Spec, P!Spec
<1> QED BY <1>1, <1>2, WorkerRefinement, PTL DEF ImplementsWorker

\* The worker settles what it commits behind the page, too.
THEOREM CommittedIsNotified == AppSpec => []Worker!CommittedIsSettled
<1>1. P!Spec => []P!CommittedIsSettled
  BY P!CommittedIsSettledHolds, PipelineIsWorkerAssumption
<1>2. Worker!Spec => P!Spec
  BY SameWorker, PTL DEF Worker!Spec, P!Spec
<1>3. P!CommittedIsSettled <=> Worker!CommittedIsSettled
  BY DEF P!CommittedIsSettled, Worker!CommittedIsSettled, P!Settled, Worker!Settled,
         P!End, Worker!End
<1> QED BY <1>1, <1>2, <1>3, WorkerRefinement, PTL DEF ImplementsWorker

-------------------------------------------------------------------------------
(* What riders know.                                                       *)

ToldOK == told \in [Trips -> Drivers \cup {NoDriver}]

\* Record i of the partition of t is the last announcement of t, and the worker is
\* done with it and did not drop it.
Heard(t, i) ==
  LET p == PartitionOf[t]
  IN  /\ i \in 1 .. Len(log[p])
      /\ log[p][i].type = "TripAssigned" /\ log[p][i].trip = t
      /\ IsLastAnnouncement(log[p], i)
      /\ i <= position[p] /\ ~(stage = "process" /\ held = p /\ i = position[p])
      /\ <<p, i>> \notin dropped

\* A rider believes the last announcement, although rewinds may have repeated
\* older ones in between: the worker has not come to the last one again then.
LastIsBelieved ==
  \A t \in Trips : \A i \in Nat : Heard(t, i) => told[t] = log[PartitionOf[t]][i].driver

ToldInv == ToldOK /\ LastIsBelieved

\* What the proofs of the worker know of the message in hand.
LEMMA HandFacts ==
  ASSUME BackInv, P!IInv
  PROVE  /\ \A p \in Partitions :
              /\ offset[p] \in Nat /\ position[p] \in Nat /\ offset[p] <= position[p]
              /\ position[p] <= Len(log[p]) /\ Len(log[p]) \in Nat
         /\ stage \in {"process", "commit"} =>
              /\ held \in Partitions /\ offset[held] < position[held]
              /\ position[held] \in 1 .. Len(log[held])
              /\ log[held][position[held]] \in Event
              /\ PartitionOf[log[held][position[held]].trip] = held
<1>1. \A p \in Partitions :
        /\ offset[p] \in Nat /\ position[p] \in Nat /\ offset[p] <= position[p]
        /\ position[p] <= Len(log[p]) /\ Len(log[p]) \in Nat
  BY DEF P!IInv, P!TypeOK, P!End, BackInv, RowInv, TypeOK
<1>2. ASSUME stage \in {"process", "commit"}
      PROVE  /\ held \in Partitions /\ offset[held] < position[held]
             /\ position[held] \in 1 .. Len(log[held])
             /\ log[held][position[held]] \in Event
             /\ PartitionOf[log[held][position[held]].trip] = held
  <2>1. held \in Partitions
    BY <1>2 DEF P!IInv, P!TypeOK
  <2>2. offset[held] < position[held]
    BY <1>2 DEF P!IInv, P!HeldIsUncommitted
  <2>3. position[held] \in 1 .. Len(log[held])
    BY <1>1, <2>1, <2>2
  <2>4. log[held][position[held]] \in Event
    BY <2>1, <2>3 DEF BackInv, RowInv, TypeOK
  <2>5. PartitionOf[log[held][position[held]].trip] = held
    BY <2>1, <2>3 DEF BackInv, OrderFacts, RecordsWellPlaced, WellPlaced
  <2> QED BY <2>1, <2>2, <2>3, <2>4, <2>5
<1> QED BY <1>1, <1>2

\* What was heard after a step of Dispatch was heard before.
LEMMA PublishingKeepsTold ==
  ASSUME BackInv, P!IInv, ToldInv, [Next]_vars, UNCHANGED <<workerVars, told>>
  PROVE  ToldInv'
<1> USE DEF workerVars
<1>1. TypeOK
  BY DEF BackInv, RowInv
<1>2. ASSUME NEW t \in Trips, NEW i \in Nat, Heard(t, i)'
      PROVE  told'[t] = log'[PartitionOf[t]][i].driver
  <2> DEFINE p == PartitionOf[t]
  <2>1. p \in Partitions
    BY DispatchAssumption
  <2>2. i \in 1 .. Len(log[p])
    BY <1>2, <2>1, HandFacts DEF Heard
  <2>3. /\ Len(log[p]) <= Len(log'[p]) /\ Len(log[p]) \in Nat /\ Len(log'[p]) \in Nat
        /\ \A j \in 1 .. Len(log[p]) : log'[p][j] = log[p][j]
    <3>1. TypeOK'
      BY <1>1, StepTypeOK
    <3>2. Len(log[p]) \in Nat /\ Len(log'[p]) \in Nat
      BY <1>1, <2>1, <3>1 DEF TypeOK
    <3>3. /\ Len(log[p]) <= Len(log'[p])
          /\ \A j \in 1 .. Len(log[p]) : log'[p][j] = log[p][j]
      BY <1>1, <2>1, StepKeepsLog
    <3> QED BY <3>2, <3>3
  <2>4. IsLastAnnouncement(log[p], i)
    <3>1. \A j \in i + 1 .. Len(log[p]) : j \in i + 1 .. Len(log'[p]) /\ log'[p][j] = log[p][j]
      BY <2>2, <2>3
    <3>2. IsLastAnnouncement(log'[p], i)
      BY <1>2 DEF Heard, IsLastAnnouncement
    <3> QED BY <2>2, <2>3, <3>1, <3>2 DEF IsLastAnnouncement
  <2>5. Heard(t, i)
    BY <1>2, <2>2, <2>3, <2>4 DEF Heard
  <2> QED BY <2>2, <2>3, <2>5 DEF ToldInv, LastIsBelieved
<1> QED BY <1>2 DEF ToldInv, ToldOK, LastIsBelieved

\* A notification is the last word on its trip among everything read so far.
LEMMA NotifyKeepsTold ==
  ASSUME BackInv, P!IInv, ToldInv, Notify, UNCHANGED vars
  PROVE  ToldInv'
<1> DEFINE k == position[held]  e == log[held][k]
<1>1. /\ stage = "process" /\ stage' = "commit" /\ e.type = "TripAssigned"
      /\ UNCHANGED <<log, position, held, dropped>>
      /\ told' = [told EXCEPT ![e.trip] = e.driver]
  <2>1. stage = "process" /\ KindOf[e] = "TripAssigned"
    BY DEF Notify, Worker!Notify, Worker!Kind, Worker!Record, Worker!Index
  <2>2. e \in Event
    BY <2>1, HandFacts
  <2>3. e.type = "TripAssigned"
    BY <2>1, <2>2 DEF KindOf
  <2> QED BY <2>1, <2>3 DEF Notify, Worker!Notify, Worker!Record, Worker!Index,
                            Worker!offsets, vars, producerVars
<1>2. held \in Partitions /\ e \in Event /\ PartitionOf[e.trip] = held /\ k \in 1 .. Len(log[held])
  BY <1>1, HandFacts
<1>3. e.trip \in Trips /\ e.driver \in Drivers \cup {NoDriver}
  BY <1>2 DEF Event
<1>4. ToldOK'
  BY <1>1, <1>3 DEF ToldInv, ToldOK
<1>5. ASSUME NEW t \in Trips, NEW i \in Nat, Heard(t, i)'
      PROVE  told'[t] = log'[PartitionOf[t]][i].driver
  <2> DEFINE p == PartitionOf[t]
  <2> HIDE DEF e, k
  <2>1. CASE t = e.trip
    <3>1. held = p /\ i \in 1 .. Len(log[p]) /\ i <= k /\ IsLastAnnouncement(log[p], i)
          /\ log[p][i].trip = t
      BY <1>1, <1>2, <1>5, <2>1 DEF Heard, IsLastAnnouncement, k
    <3>2. i = k
      <4>1. ~ (k \in i + 1 .. Len(log[p]))
        BY <1>1, <2>1, <3>1 DEF IsLastAnnouncement, e
      <4> QED BY <1>2, <3>1, <4>1
    <3>3. told'[t] = e.driver
      BY <1>1, <2>1 DEF ToldInv, ToldOK
    <3> QED BY <1>1, <3>1, <3>2, <3>3 DEF e
  <2>2. CASE t # e.trip
    <3>1. ~(held = p /\ i = k)
      BY <1>1, <1>5, <2>2 DEF Heard, e, k
    <3>2. Heard(t, i)
      BY <1>1, <1>5, <3>1 DEF Heard, IsLastAnnouncement, k
    <3>3. told'[t] = told[t]
      BY <1>1, <2>2 DEF ToldInv, ToldOK
    <3> QED BY <1>1, <3>2, <3>3 DEF ToldInv, LastIsBelieved
  <2> QED BY <2>1, <2>2
<1> QED BY <1>4, <1>5 DEF ToldInv, LastIsBelieved

\* Nothing else the worker does settles an announcement but by dropping it; a
\* rewind goes back behind the message in hand.
LEMMA WorkingKeepsTold ==
  ASSUME BackInv, P!IInv, ToldInv, WorkerElse, UNCHANGED vars
  PROVE  ToldInv'
<1>1. UNCHANGED <<log, told>>
  BY DEF WorkerElse, vars, producerVars
<1>2. ASSUME NEW t \in Trips, NEW i \in Nat, Heard(t, i)'
      PROVE  Heard(t, i)
  <2> DEFINE p == PartitionOf[t]
  <2>1. p \in Partitions
    BY DispatchAssumption
  <2>2. /\ i \in 1 .. Len(log[p]) /\ log[p][i].type = "TripAssigned" /\ log[p][i].trip = t
        /\ IsLastAnnouncement(log[p], i) /\ i <= position'[p]
        /\ ~(stage' = "process" /\ held' = p /\ i = position'[p])
        /\ <<p, i>> \notin dropped'
    BY <1>1, <1>2 DEF Heard, IsLastAnnouncement
  <2>3. /\ \A q \in Partitions : offset[q] \in Nat /\ position[q] \in Nat
                                 /\ offset[q] <= position[q]
        /\ stage = "process" => /\ held \in Partitions /\ offset[held] < position[held]
                                /\ log[held][position[held]] \in Event
        /\ position \in [Partitions -> Nat]
    BY HandFacts DEF P!IInv, P!TypeOK
  <2> SUFFICES /\ i <= position[p] /\ ~(stage = "process" /\ held = p /\ i = position[p])
               /\ <<p, i>> \notin dropped
    BY <2>2 DEF Heard
  <2>4. CASE Worker!Start \/ Worker!LoopTop \/ Worker!ReadReturnsNothing
               \/ Worker!CommitMessage \/ Worker!CommitMessageFails
    BY <2>2, <2>4 DEF Worker!Start, Worker!LoopTop, Worker!ReadReturnsNothing,
                      Worker!CommitMessage, Worker!CommitMessageFails, Worker!offsets,
                      Worker!history
  <2>5. ASSUME NEW q \in Partitions, Worker!ReadMessage(q)
        PROVE  /\ i <= position[p] /\ ~(stage = "process" /\ held = p /\ i = position[p])
               /\ <<p, i>> \notin dropped
    <3>1. /\ stage = "read" /\ stage' = "process" /\ held' = q /\ dropped' = dropped
          /\ position' = [position EXCEPT ![q] = @ + 1]
      BY <2>5 DEF Worker!ReadMessage, Worker!history
    <3>2. CASE p = q
      <4>1. position'[p] = position[p] + 1 /\ i # position'[p]
        BY <2>1, <2>2, <2>3, <3>1, <3>2
      <4> QED BY <2>1, <2>2, <2>3, <3>1, <4>1
    <3>3. CASE p # q
      BY <2>1, <2>2, <2>3, <3>1, <3>3
    <3> QED BY <3>2, <3>3
  <2>6. CASE Worker!Skip
    <3>1. /\ stage = "process" /\ UNCHANGED <<position, dropped>>
          /\ KindOf[log[held][position[held]]] = "other"
      BY <2>6 DEF Worker!Skip, Worker!Kind, Worker!Record, Worker!Index, Worker!offsets,
                  Worker!history
    <3>2. log[held][position[held]].type # "TripAssigned"
      BY <2>3, <3>1 DEF KindOf
    <3> QED BY <2>2, <3>1, <3>2
  <2>7. CASE Worker!Drop
    BY <2>2, <2>7 DEF Worker!Drop, Worker!LogWarning, Worker!Held, Worker!Index, Worker!offsets
  <2>8. CASE Worker!Rebalance \/ Worker!Crash
    <3>1. position' = offset /\ dropped' = dropped
          /\ (stage = "process" => Worker!Crash)
      BY <2>8 DEF Worker!Rebalance, Worker!Crash, Worker!NewProcess, Worker!Rewind
    <3>2. i <= offset[p]
      BY <2>2, <3>1
    <3> QED BY <2>1, <2>2, <2>3, <3>1, <3>2
  <2> QED BY <2>4, <2>5, <2>6, <2>7, <2>8 DEF WorkerElse
<1>3. LastIsBelieved'
  BY <1>1, <1>2 DEF ToldInv, LastIsBelieved
<1> QED BY <1>1, <1>3 DEF ToldInv, ToldOK

LEMMA StepKeepsTold ==
  ASSUME BackInv, P!IInv, ToldInv, [AppNext]_rideVars
  PROVE  ToldInv'
<1>1. CASE FetchFault
  BY <1>1 DEF FetchFault, producerVars, workerVars, ToldInv, ToldOK, LastIsBelieved, Heard,
              IsLastAnnouncement
<1>2. CASE WorkerStep
  BY <1>2, NotifyKeepsTold, WorkingKeepsTold DEF WorkerStep
<1> QED BY <1>1, <1>2, AppStepIs, PublishingKeepsTold

LEMMA ToldInvariant == AppSpec => []ToldInv
<1>1. AppInit => ToldInv
  <2> SUFFICES ASSUME AppInit PROVE ToldInv
    OBVIOUS
  <2>1. ToldOK
    BY DEF AppInit, PipelineInit, ToldOK
  <2>2. LastIsBelieved
    BY DispatchAssumption DEF AppInit, PipelineInit, Worker!Init, LastIsBelieved, Heard
  <2> QED BY <2>1, <2>2 DEF ToldInv
<1> QED BY <1>1, BackInvariant, WorkerInvariant, StepKeepsTold, PTL DEF AppSpec

\* Once the worker has caught up, a rider believes what the table says, however
\* many announcements were rolled back, lost in a rewind or repeated before.
THEOREM RiderKnowsDriverHolds == AppSpec => []RiderKnowsDriver
<1>1. ASSUME BackInv, P!IInv, ToldInv
      PROVE  RiderKnowsDriver
  <2> SUFFICES ASSUME NEW t \in Trips, trips[t].status = "ASSIGNED",
                      CaughtUp(PartitionOf[t]), ~Unheard(t)
               PROVE  told[t] = trips[t].driver
    BY DEF RiderKnowsDriver
  <2> DEFINE p == PartitionOf[t]  e == TripAssigned(t, trips[t].driver)
  <2>1. p \in Partitions
    BY DispatchAssumption
  <2>2. Sent(p) = log[p]
    <3>1. log[p] \in Seq(Event) /\ buffer[p] = <<>>
      BY <1>1, <2>1 DEF BackInv, RowInv, TypeOK, CaughtUp
    <3> QED BY <3>1, ConcatFacts DEF Sent
  <2>3. PICK i \in 1 .. Len(log[p]) : log[p][i] = e /\ IsLastAnnouncement(log[p], i)
    BY <1>1, <2>2 DEF BackInv, AnnouncedInv, AssignedIsAnnounced, Unheard
  <2>4. /\ i <= position[p] /\ ~(stage = "process" /\ held = p /\ i = position[p])
        /\ i \in Nat
    BY <1>1, <2>1, <2>3, HandFacts DEF CaughtUp
  <2>5. <<p, i>> \notin dropped
    BY <2>3 DEF Unheard
  <2>6. e.type = "TripAssigned" /\ e.trip = t /\ e.driver = trips[t].driver
    BY DEF TripAssigned
  <2>7. Heard(t, i)
    BY <2>3, <2>4, <2>5, <2>6 DEF Heard
  <2> QED BY <1>1, <2>3, <2>4, <2>6, <2>7 DEF ToldInv, LastIsBelieved
<1> QED BY <1>1, BackInvariant, WorkerInvariant, ToldInvariant, PTL

-------------------------------------------------------------------------------
(* Types, from the page to the worker.                                     *)

\* The page's own part of the type invariant.
ScreenOK ==
  /\ screen \in {"idle", "loading", "success", "error"}
  /\ presses \in 0 .. Len(TripIds) /\ (screen = "idle" <=> presses = 0)
  /\ shown \subseteq Posted /\ abandoned \subseteq Posted
  /\ \A t \in Trips \ Posted : request[t] = "idle"

LEMMA StepScreenOK ==
  ASSUME ScreenOK, [AppNext]_rideVars
  PROVE  ScreenOK'
<1>0. Len(TripIds) \in Nat /\ presses \in Nat
  BY AppAssumption DEF ScreenOK
<1>1. CASE Press
  <2>1. presses' = presses + 1 /\ presses < Len(TripIds) /\ screen' = "loading"
        /\ UNCHANGED <<shown, abandoned, request>>
    BY <1>1 DEF Press, pipelineVars, vars
  <2>2. Posted \subseteq Posted'
    BY <1>0, <2>1 DEF Posted
  <2> QED BY <1>0, <2>1, <2>2 DEF ScreenOK
<1>2. CASE Settle
  <2>1. /\ screen = "loading" /\ screen' \in {"success", "error"} /\ UNCHANGED <<presses, request>>
        /\ shown' \subseteq shown \cup {Trip} /\ abandoned' \subseteq abandoned \cup {Trip}
    BY <1>2 DEF Settle, ShowTrip, ShowError, Abandon, FetchFault, SettleAs, pipelineVars, vars
  <2>2. Posted' = Posted
    BY <2>1 DEF Posted
  <2>3. Trip \in Posted
    BY <1>0, <2>1 DEF ScreenOK, Posted, Trip
  <2> QED BY <2>1, <2>2, <2>3 DEF ScreenOK
<1>3. CASE RideStep \/ UNCHANGED rideVars
  <2>1. UNCHANGED appVars /\ \A t \in Trips \ Posted : UNCHANGED request[t]
    BY <1>3 DEF RideStep, rideVars, pipelineVars, vars
  <2>2. Posted' = Posted
    BY <2>1 DEF Posted, appVars
  <2> QED BY <2>1, <2>2 DEF ScreenOK, appVars
<1> QED BY <1>1, <1>2, <1>3 DEF AppNext

\* Page, services and worker keep their types together, and no trip exists that
\* was not asked for; in particular no partition outgrows its capacity.
THEOREM AppTypeOKHolds == AppSpec => []AppTypeOK
<1>1. AppInit => ScreenOK
  BY AppAssumption DEF AppInit, PipelineInit, Init, ScreenOK, Posted
<1>2. P!TypeOK => Worker!TypeOK
  BY DEF P!TypeOK, Worker!TypeOK, P!Places, Worker!Places, P!Indexes, Worker!Indexes,
         P!Stages, Worker!Stages, P!End, Worker!End
<1>3. BackInv /\ P!IInv /\ ToldInv /\ ScreenOK => AppTypeOK
  BY <1>2 DEF BackInv, RowInv, P!IInv, ToldInv, ToldOK, ScreenOK, AppTypeOK, PipelineTypeOK
<1> QED BY <1>1, <1>3, StepScreenOK, BackInvariant, WorkerInvariant, ToldInvariant, PTL DEF AppSpec
===============================================================================
