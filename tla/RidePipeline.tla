----------------------------- MODULE RidePipeline -----------------------------
(***************************************************************************)
(* A ride from the request to the notification: the Dispatch service as    *)
(* the writer and the notification service as a reader of one ride-events  *)
(* topic. Each side keeps its own faults and offsets (the two consumer     *)
(* groups do not know of each other); the log is all they share.           *)
(***************************************************************************)
EXTENDS Dispatch

CONSTANTS
  WorkerFaultKinds,   \* the worker's failures
  MaxWorkerFaults

ASSUME PipelineAssumption ==
  /\ IsFiniteSet(Trips)
  /\ WorkerFaultKinds \subseteq {"registry", "commit", "rebalance", "crash"}
  /\ MaxWorkerFaults \in Nat

VARIABLES
  position, offset, stage, held, cached, stopping,   \* the worker, as EventWorker has it
  logged, dropped, rewinds, workerFaults,
  told                \* the driver each trip's rider was last notified of

workerVars   == <<position, offset, stage, held, cached, stopping, logged, dropped,
                  rewinds, workerFaults>>
pipelineVars == <<vars, workerVars, told>>

\* Not a limit: a request, an assignment, and one more for every rollback.
Capacity ==
  [p \in Partitions |-> 2 * Cardinality({t \in Trips : PartitionOf[t] = p}) + MaxFaults]

KindOf == [e \in Event |-> IF e.type = "TripAssigned" THEN "TripAssigned" ELSE "other"]

Worker == INSTANCE EventWorker
            WITH Records <- Event, committed <- offset, current <- held,
                 FaultKinds <- WorkerFaultKinds, MaxFaults <- MaxWorkerFaults,
                 faults <- workerFaults

PipelineInit ==
  /\ Init
  /\ Worker!Init
  /\ told = [t \in Trips |-> NoDriver]

DispatchStep ==
  /\ Next
  /\ UNCHANGED <<workerVars, told>>

\* Mutant of Notify: the worker tells a rider of the first assignment only.
NotifyOnce ==
  /\ Worker!Notify
  /\ told' = [told EXCEPT ![Worker!Record.trip] = IF @ = NoDriver THEN Worker!Record.driver ELSE @]

\* HandleTripAssigned names the trip and the driver of the record.
Notify ==
  /\ Worker!Notify
  /\ told' = [told EXCEPT ![Worker!Record.trip] = Worker!Record.driver]

\* Every other step of the worker leaves what riders know alone. Its orderly stop
\* is left out: it ends in the rewind of a crash, with less in hand.
WorkerElse ==
  /\ \/ Worker!Start \/ Worker!LoopTop \/ (\E p \in Partitions : Worker!ReadMessage(p))
     \/ Worker!ReadReturnsNothing \/ Worker!Skip \/ Worker!Drop
     \/ Worker!CommitMessage \/ Worker!CommitMessageFails
     \/ Worker!Rebalance \/ Worker!Crash
  /\ UNCHANGED told

WorkerStep == (Notify \/ WorkerElse) /\ UNCHANGED vars

PipelineNext == DispatchStep \/ WorkerStep

PipelineSpec     == PipelineInit /\ [][PipelineNext]_pipelineVars
FairPipelineSpec == PipelineSpec /\ Fairness /\ Worker!Fairness

-------------------------------------------------------------------------------
(* Correctness.                                                            *)

\* The type invariant: both sides keep theirs on the log they share, and no
\* sequence of failures publishes more than the capacity says.
PipelineTypeOK ==
  /\ TypeOK
  /\ Worker!TypeOK
  /\ told \in [Trips -> Drivers \cup {NoDriver}]

\* The driver's announcement of an assigned trip that no reader will ever see:
\* lost by the producer, or dropped by the worker.
Unheard(t) ==
  LET e == TripAssigned(t, trips[t].driver)
      p == PartitionOf[t]
  IN  e \in lost \/ \E i \in 1 .. Len(log[p]) : log[p][i] = e /\ <<p, i>> \in dropped

\* Nothing of the trip's partition is on its way to the rider any more.
CaughtUp(p) == buffer[p] = <<>> /\ offset[p] = Len(log[p])

\* A rider whose worker has caught up believes what the table says, although
\* attempts that rolled back have announced other drivers, and both sides may
\* have failed, restarted and repeated themselves in between.
RiderKnowsDriver ==
  \A t \in Trips :
    (trips[t].status = "ASSIGNED" /\ CaughtUp(PartitionOf[t]) /\ ~Unheard(t))
      => told[t] = trips[t].driver

\* A ride from end to end: whoever was answered 202 ends up knowing the driver in
\* the table, for good, unless a record was lost or given up on the way, or the
\* ride waits behind a record that blocks its partition. The record may be read
\* before its row is visible, attempts may fail and be retried with another
\* driver, and both services may fail, restart and repeat themselves.
AcceptedIsTold ==
  \A t \in Trips :
    <>[](request[t] = "accepted" =>
           \/ GivenUp(t)
           \/ Unheard(t)
           \/ trips[t].status = "ASSIGNED" /\ told[t] = trips[t].driver
           \/ trips[t].status = "REQUESTED" /\ Blocked(PartitionOf[t]))
===============================================================================
