------------------------------ MODULE EventWorker ------------------------------
(***************************************************************************)
(* The run loop of the ride-events workers written in Go: one goroutine    *)
(* that reads a message, processes it and commits its offset, with manual  *)
(* commits and a stop channel looked at between two messages. The          *)
(* notification service's worker, which logs each TripAssigned; the        *)
(* gateway's has the same loop.                                            *)
(*                                                                         *)
(* librdkafka keeps the position of the next read apart from the committed *)
(* offset: a failed commit leaves the position where it is, only a restart *)
(* or a rebalance goes back.                                               *)
(***************************************************************************)
EXTENDS Integers, Sequences

CONSTANTS
  Partitions,
  NoPartition,
  Records,      \* what can be published on ride-events
  KindOf,       \* what the worker makes of a record: one of RecordKinds
  Capacity,     \* how many records each partition takes in one behaviour
  FaultKinds,   \* the kinds of failure a run allows
  MaxFaults     \* how many failures happen in one behaviour

RecordKinds == {"TripAssigned", "other", "unreadable"}

AllFaultKinds ==
  { "startup",     \* the tracer, the consumer or srclient cannot be set up
    "registry",    \* GetSchema fails and the schema is not cached
    "commit",      \* CommitMessage returns an error
    "rebalance",   \* the group takes the partitions away and gives them back
    "crash",       \* the process dies; the container is started again
    "stop" }       \* SIGTERM; a new process is started afterwards

ASSUME WorkerAssumption ==
  /\ KindOf \in [Records -> RecordKinds]
  /\ Capacity \in [Partitions -> Nat]
  /\ NoPartition \notin Partitions
  /\ FaultKinds \subseteq AllFaultKinds
  /\ MaxFaults \in Nat

VARIABLES
  log,         \* ride-events: what has been published, per partition
  position,    \* how much the consumer has read, per partition
  committed,   \* the group's committed offset, per partition
  stage,       \* main before Start: starting; then the goroutine: top, read,
               \* process, commit, stopped
  current,     \* the partition of the message it holds
  cached,      \* whether srclient has the TripAssigned schema
  stopping,    \* stopCh is closed
  logged,      \* history: how often each place has been notified
  dropped,     \* history: the places given up with a warning
  rewinds,     \* history: how often the position went back to the committed offset
  faults       \* history: how many failures have happened

offsets == <<position, committed>>
history == <<logged, dropped, rewinds>>
vars == <<log, offsets, stage, current, cached, stopping, history, faults>>

Stages  == {"starting", "top", "read", "process", "commit", "stopped"}

\* The places a record can take, as <<partition, index>>.
Indexes(p) == 1 .. Capacity[p]
Places     == UNION {{p} \X Indexes(p) : p \in Partitions}

End(p) == Len(log[p])

Fault(k) ==
  /\ k \in FaultKinds
  /\ faults < MaxFaults
  /\ faults' = faults + 1

NoFault == UNCHANGED faults

Init ==
  /\ log = [p \in Partitions |-> <<>>]
  /\ position = [p \in Partitions |-> 0]
  /\ committed = [p \in Partitions |-> 0]
  /\ stage = "starting"
  /\ current = NoPartition
  /\ cached = FALSE
  /\ stopping = FALSE
  /\ logged = [r \in Places |-> 0]
  /\ dropped = {}
  /\ rewinds = 0
  /\ faults = 0

-------------------------------------------------------------------------------

\* Dispatch publishes on ride-events.
Publish(p, e) ==
  /\ End(p) < Capacity[p]
  /\ log' = [log EXCEPT ![p] = Append(@, e)]
  /\ NoFault
  /\ UNCHANGED <<offsets, stage, current, cached, stopping, history>>

\* main has its tracer and its consumer, and starts the loop.
Start ==
  /\ stage = "starting"
  /\ stage' = "top"
  /\ NoFault
  /\ UNCHANGED <<log, offsets, current, cached, stopping, history>>

\* log.Fatalf: the container is started again, as often as it takes. The collector
\* of the traces alone can cause this, five seconds after it was not reached.
StartFails ==
  /\ stage = "starting"
  /\ Fault("startup")
  /\ UNCHANGED <<log, offsets, stage, current, cached, stopping, history>>

\* Mutant of LoopTop: the loop never looks at stopCh.
LoopTopIgnoresStop ==
  /\ stage = "top"
  /\ stage' = "read"
  /\ NoFault
  /\ UNCHANGED <<log, offsets, current, cached, stopping, history>>

\* The select at the top: the only place where the worker stops.
LoopTop ==
  /\ stage = "top"
  /\ stage' = IF stopping THEN "stopped" ELSE "read"
  /\ NoFault
  /\ UNCHANGED <<log, offsets, current, cached, stopping, history>>

\* Mutant of ReadMessage: stopCh is looked at with the message in hand.
ReadMessageStops(p) ==
  /\ stage = "read"
  /\ position[p] < End(p)
  /\ position' = [position EXCEPT ![p] = @ + 1]
  /\ current' = p
  /\ stage' = IF stopping THEN "stopped" ELSE "process"
  /\ NoFault
  /\ UNCHANGED <<log, committed, cached, stopping, history>>

ReadMessage(p) ==
  /\ stage = "read"
  /\ position[p] < End(p)
  /\ position' = [position EXCEPT ![p] = @ + 1]
  /\ current' = p
  /\ stage' = "process"
  /\ NoFault
  /\ UNCHANGED <<log, committed, cached, stopping, history>>

\* Nothing to read before the timeout, or an error from the consumer: continue.
ReadReturnsNothing ==
  /\ stage = "read"
  /\ stage' = "top"
  /\ NoFault
  /\ UNCHANGED <<log, offsets, current, cached, stopping, history>>

\* The message in hand.
Index  == position[current]
Held   == <<current, Index>>
Record == log[current][Index]
Kind   == KindOf[Record]

LogNotification == logged' = [logged EXCEPT ![Held] = @ + 1]
LogWarning      == dropped' = dropped \cup {Held}

\* processMessage with a TripAssigned whose schema is there: the notification
\* is logged.
Notify ==
  /\ stage = "process"
  /\ Kind = "TripAssigned"
  /\ cached' = TRUE
  /\ LogNotification
  /\ stage' = "commit"
  /\ NoFault
  /\ UNCHANGED <<log, offsets, current, stopping, dropped, rewinds>>

\* NoOpHandler.
Skip ==
  /\ stage = "process"
  /\ Kind = "other"
  /\ stage' = "commit"
  /\ NoFault
  /\ UNCHANGED <<log, offsets, current, cached, stopping, history>>

\* deserializeAvro or ParseTripAssigned fails: a warning, and on to the commit.
\* A registry that does not answer counts as a record that cannot be read.
Drop ==
  /\ stage = "process"
  /\ \/ Kind = "unreadable" /\ NoFault
     \/ Kind = "TripAssigned" /\ ~cached /\ Fault("registry")
  /\ LogWarning
  /\ stage' = "commit"
  /\ UNCHANGED <<log, offsets, current, cached, stopping, logged, rewinds>>

\* Mutant of CommitMessage: the offset of everything that can be read.
CommitMessageEnd ==
  /\ stage = "commit"
  /\ committed' = [committed EXCEPT ![current] = End(current)]
  /\ stage' = "top"
  /\ current' = NoPartition
  /\ NoFault
  /\ UNCHANGED <<log, position, cached, stopping, history>>

\* Synchronous commit of the message's offset + 1.
CommitMessage ==
  /\ stage = "commit"
  /\ committed' = [committed EXCEPT ![current] = Index]
  /\ stage' = "top"
  /\ current' = NoPartition
  /\ NoFault
  /\ UNCHANGED <<log, position, cached, stopping, history>>

\* Mutant of CommitMessageFails: the message is read again.
CommitMessageFailsSeeks ==
  /\ stage = "commit"
  /\ Fault("commit")
  /\ position' = [position EXCEPT ![current] = committed[current]]
  /\ stage' = "top"
  /\ current' = NoPartition
  /\ UNCHANGED <<log, committed, cached, stopping, history>>

\* The error is logged and the loop goes on: the next commit of the partition
\* covers this message too.
CommitMessageFails ==
  /\ stage = "commit"
  /\ Fault("commit")
  /\ stage' = "top"
  /\ current' = NoPartition
  /\ UNCHANGED <<log, offsets, cached, stopping, history>>

-------------------------------------------------------------------------------

\* Mutant of Rewind: the reset policy is latest, for every partition.
RewindToEnd ==
  /\ position' = [p \in Partitions |-> End(p)]
  /\ rewinds' = rewinds + 1

\* Reading starts from the committed offsets (earliest where there is none).
Rewind ==
  /\ position' = committed
  /\ rewinds' = rewinds + 1

\* Served inside ReadMessage, so never with a message in hand.
Rebalance ==
  /\ stage = "read"
  /\ Fault("rebalance")
  /\ Rewind
  /\ UNCHANGED <<log, committed, stage, current, cached, stopping, logged, dropped>>

NewProcess ==
  /\ Rewind
  /\ stage' = "starting"
  /\ current' = NoPartition
  /\ cached' = FALSE
  /\ stopping' = FALSE
  /\ UNCHANGED <<log, committed, logged, dropped>>

Crash == Fault("crash") /\ NewProcess

\* Stop: SIGTERM closes stopCh and then waits for the goroutine. Before main has
\* asked for the signal, SIGTERM just ends the process.
Stop ==
  /\ ~stopping
  /\ stage # "starting"
  /\ Fault("stop")
  /\ stopping' = TRUE
  /\ UNCHANGED <<log, offsets, stage, current, cached, history>>

\* A stopped service is deployed again.
StartAgain ==
  /\ stage = "stopped"
  /\ NewProcess
  /\ NoFault

Run == \/ Start \/ StartFails
       \/ LoopTop \/ (\E p \in Partitions : ReadMessage(p)) \/ ReadReturnsNothing
       \/ Notify \/ Skip \/ Drop \/ CommitMessage \/ CommitMessageFails

Next ==
  \/ \E p \in Partitions, e \in Records : Publish(p, e)
  \/ Run
  \/ Rebalance \/ Crash \/ Stop \/ StartAgain

Spec == Init /\ [][Next]_vars

\* A process that dies is started again, the goroutine runs, and a read that finds
\* a message returns it: librdkafka serves the partitions it fetched in turn.
Fairness ==
  /\ WF_vars(Run)
  /\ \A p \in Partitions : SF_vars(ReadMessage(p))

FairSpec == Spec /\ Fairness

-------------------------------------------------------------------------------
(* Correctness.                                                            *)

\* The type invariant; the offsets never run ahead of each other, and a message
\* is in hand exactly while it is processed and committed.
TypeOK ==
  /\ log \in [Partitions -> Seq(Records)]
  /\ position \in [Partitions -> Nat]
  /\ committed \in [Partitions -> Nat]
  /\ \A p \in Partitions : /\ committed[p] <= position[p]
                           /\ position[p] <= End(p)
                           /\ End(p) <= Capacity[p]
  /\ current # NoPartition => position[current] > 0
  /\ stage \in Stages
  /\ current \in Partitions \cup {NoPartition}
  /\ (stage \in {"process", "commit"}) <=> (current # NoPartition)
  /\ cached \in BOOLEAN /\ stopping \in BOOLEAN
  /\ logged \in [Places -> Nat]
  /\ dropped \subseteq Places
  /\ rewinds \in Nat /\ faults \in 0 .. MaxFaults

\* Record i of partition p needs no more work.
Settled(p, i) ==
  \/ logged[<<p, i>>] > 0
  \/ <<p, i>> \in dropped
  \/ i <= End(p) /\ KindOf[log[p][i]] = "other"

\* At least once: whatever crashes or fails, no committed offset covers an
\* assignment that was neither notified nor given up with a warning (ADR 002,
\* constraint 3).
CommittedIsSettled ==
  \A p \in Partitions : \A i \in 1 .. committed[p] : Settled(p, i)

\* In the order of the topic: a record is touched only after every earlier one
\* of its partition is settled, also after rewinds and failed commits.
NoOvertaking ==
  \A p \in Partitions : \A i, j \in Indexes(p) :
    (i < j /\ (logged[<<p, j>>] > 0 \/ <<p, j>> \in dropped)) => Settled(p, i)

\* A repeated notification has its cause in a rewind: failed commits alone, any
\* number of them, never notify a rider twice.
RepeatsAreRewinds ==
  \A r \in Places : logged[r] <= 1 + rewinds

\* Stop waits for the message in hand: a stopped worker has settled all it read.
StoppedIsSettled ==
  stage = "stopped" => \A p \in Partitions : \A i \in 1 .. position[p] : Settled(p, i)

\* Stop returns: the goroutine sees stopCh although messages keep coming or none
\* comes any more.
StopReturns == stopping ~> (stage = "stopped" \/ ~stopping)

\* Every published record is settled in the end, whatever failed on the way,
\* unless the service is being stopped.
PublishedIsSettled ==
  \A p \in Partitions : \A i \in Indexes(p) :
    End(p) >= i ~> (Settled(p, i) \/ stopping)
===============================================================================
