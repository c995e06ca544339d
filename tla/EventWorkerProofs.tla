--------------------------- MODULE EventWorkerProofs ---------------------------
(***************************************************************************)
(* At-least-once processing by the run loop, for any topic, any number of  *)
(* partitions and any number of failures, restarts and rebalances.         *)
(***************************************************************************)
EXTENDS EventWorker, TLAPS

\* Everything read is settled, but for the message that is being processed.
ReadIsSettled ==
  \A p \in Partitions : \A i \in 1 .. position[p] :
    Settled(p, i) \/ (stage = "process" /\ p = current /\ i = position[p])

\* The message in hand lies beyond the committed offset: it was read after the
\* last rewind.
HeldIsUncommitted ==
  stage \in {"process", "commit"} => committed[current] < position[current]

\* What is still to be notified since the last rewind has been notified at most
\* once per rewind, everything else once more.
RepeatBound ==
  \A p \in Partitions : \A i \in Indexes(p) :
    /\ logged[<<p, i>>] <= 1 + rewinds
    /\ (i > position[p] \/ (stage = "process" /\ p = current /\ i = position[p]))
         => logged[<<p, i>>] <= rewinds

IInv == TypeOK /\ ReadIsSettled /\ HeldIsUncommitted /\ NoOvertaking /\ RepeatBound

\* Places a record can take.
LEMMA PlacesAre ==
  ASSUME NEW p \in Partitions
  PROVE  /\ Capacity[p] \in Nat
         /\ \A i \in Indexes(p) : i \in Nat /\ i >= 1 /\ <<p, i>> \in Places
BY WorkerAssumption DEF Indexes, Places

\* The message in hand is a place of the topic.
LEMMA HeldPlace ==
  ASSUME TypeOK, stage \in {"process", "commit"}
  PROVE  /\ current \in Partitions
         /\ Index \in Indexes(current) /\ Index = position[current]
         /\ Held \in Places
<1>1. current \in Partitions
  BY DEF TypeOK
<1>2. Index \in Indexes(current)
  BY <1>1, PlacesAre, WorkerAssumption DEF TypeOK, Index, Indexes, End
<1> QED BY <1>1, <1>2, PlacesAre DEF Held, Index

LEMMA InitIInv == Init => IInv
<1> SUFFICES ASSUME Init
             PROVE  IInv
  OBVIOUS
<1>1. TypeOK
  <2>1. \A p \in Partitions : Capacity[p] \in Nat /\ End(p) = 0
    BY WorkerAssumption DEF Init, End
  <2>2. cached \in BOOLEAN /\ stopping \in BOOLEAN
    BY Zenon DEF Init
  <2>3. logged \in [Places -> Nat] /\ faults \in 0 .. MaxFaults
    BY WorkerAssumption DEF Init
  <2>4. /\ log \in [Partitions -> Seq(Records)] /\ position \in [Partitions -> Nat]
        /\ committed \in [Partitions -> Nat]
        /\ \A p \in Partitions : /\ committed[p] <= position[p]
                                 /\ position[p] <= End(p)
                                 /\ End(p) <= Capacity[p]
    BY <2>1 DEF Init
  <2>5. stage \in Stages /\ current = NoPartition /\ stage = "starting" /\ dropped = {} /\ rewinds = 0
    BY DEF Init, Stages
  <2> QED BY <2>2, <2>3, <2>4, <2>5 DEF TypeOK
<1>2. ReadIsSettled
  BY DEF Init, ReadIsSettled
<1>3. NoOvertaking
  BY PlacesAre DEF Init, NoOvertaking
<1>4. HeldIsUncommitted
  BY DEF Init, HeldIsUncommitted
<1>5. RepeatBound
  <2>1. rewinds = 0 /\ logged = [r \in Places |-> 0]
    BY Zenon DEF Init
  <2>2. ASSUME NEW p \in Partitions, NEW i \in Indexes(p)
        PROVE  logged[<<p, i>>] = 0
    <3>1. <<p, i>> \in Places
      BY PlacesAre
    <3> QED BY <2>1, <3>1
  <2>3. ASSUME NEW p \in Partitions, NEW i \in Indexes(p)
        PROVE  logged[<<p, i>>] <= rewinds /\ logged[<<p, i>>] <= 1 + rewinds
    BY <2>1, <2>2
  <2> QED BY <2>3, Zenon DEF RepeatBound
<1> QED BY <1>1, <1>2, <1>3, <1>4, <1>5 DEF IInv

\* A partition only grows at its end.
LEMMA PublishAppends ==
  ASSUME TypeOK, NEW q \in Partitions, NEW e \in Records, Publish(q, e), NEW p \in Partitions
  PROVE  /\ log' \in [Partitions -> Seq(Records)]
         /\ End(p) <= End(p)' /\ End(p)' <= Capacity[p]
         /\ \A i \in 1 .. End(p) : log'[p][i] = log[p][i]
<1>1. /\ log \in [Partitions -> Seq(Records)] /\ log' = [log EXCEPT ![q] = Append(log[q], e)]
      /\ Len(log[q]) < Capacity[q] /\ Len(log[p]) <= Capacity[p]
      /\ Capacity[p] \in Nat /\ Capacity[q] \in Nat
  BY WorkerAssumption DEF Publish, End, TypeOK
<1>2. /\ log[q] \in Seq(Records) /\ log[p] \in Seq(Records)
      /\ Append(log[q], e) \in Seq(Records) /\ Len(Append(log[q], e)) = Len(log[q]) + 1
      /\ \A i \in 1 .. Len(log[q]) : Append(log[q], e)[i] = log[q][i]
  BY <1>1
<1>3. log'[p] = IF p = q THEN Append(log[q], e) ELSE log[p]
  BY <1>1
<1> QED BY <1>1, <1>2, <1>3 DEF End

LEMMA StepTypeOK ==
  ASSUME TypeOK, [Next]_vars
  PROVE  TypeOK'
<1> USE WorkerAssumption
<1> USE DEF NoFault, Fault, offsets, history, Stages, End
<1>1. ASSUME NEW p \in Partitions, NEW e \in Records, Publish(p, e)
      PROVE  TypeOK'
  <2>1. /\ log' \in [Partitions -> Seq(Records)]
        /\ \A q \in Partitions : /\ Len(log[q]) <= Len(log'[q])
                                 /\ Len(log'[q]) <= Capacity[q]
    BY <1>1, PublishAppends
  <2>2. \A q \in Partitions : position[q] \in Nat /\ Len(log[q]) \in Nat /\ Len(log'[q]) \in Nat
    BY <2>1 DEF TypeOK
  <2> QED BY <1>1, <2>1, <2>2 DEF Publish, TypeOK
<1>2. CASE Start \/ StartFails \/ LoopTop
  BY <1>2 DEF Start, StartFails, LoopTop, TypeOK
<1>3. ASSUME NEW p \in Partitions, ReadMessage(p)
      PROVE  TypeOK'
  BY <1>3, PlacesAre DEF ReadMessage, TypeOK
<1>4. CASE ReadReturnsNothing
  BY <1>4 DEF ReadReturnsNothing, TypeOK
<1>5. CASE Notify
  BY <1>5, HeldPlace DEF Notify, LogNotification, TypeOK
<1>6. CASE Skip
  BY <1>6 DEF Skip, TypeOK
<1>7. CASE Drop
  <2>1. Held \in Places
    BY <1>7, HeldPlace DEF Drop, LogWarning
  <2>2. faults' \in 0 .. MaxFaults
    BY <1>7 DEF Drop, LogWarning, TypeOK
  <2> QED BY <1>7, <2>1, <2>2 DEF Drop, LogWarning, TypeOK
<1>8. CASE CommitMessage
  BY <1>8, HeldPlace DEF CommitMessage, TypeOK
<1>9. CASE CommitMessageFails
  BY <1>9 DEF CommitMessageFails, TypeOK
<1>10. CASE Rebalance
  BY <1>10 DEF Rebalance, Rewind, TypeOK
<1>11. ASSUME NewProcess, faults' \in 0 .. MaxFaults
       PROVE  TypeOK'
  <2>1. \A p \in Partitions : committed[p] \in Nat /\ position[p] \in Nat /\ End(p) \in Nat
                            /\ committed[p] <= End(p)
    BY DEF TypeOK
  <2>2. /\ position' = committed /\ committed' = committed /\ log' = log
        /\ stage' = "starting" /\ current' = NoPartition
    BY <1>11 DEF NewProcess, Rewind
  <2>3. cached' \in BOOLEAN /\ stopping' \in BOOLEAN
    BY <1>11, Zenon DEF NewProcess
  <2>5. rewinds' \in Nat
    BY <1>11 DEF NewProcess, Rewind, TypeOK
  <2>4. UNCHANGED <<logged, dropped>>
    BY <1>11 DEF NewProcess
  <2> QED BY <1>11, <2>1, <2>2, <2>3, <2>4, <2>5 DEF TypeOK
<1>12. CASE Stop
  BY <1>12 DEF Stop, TypeOK
<1>13. CASE Crash \/ StartAgain
  <2>1. faults' \in 0 .. MaxFaults
    BY <1>13 DEF Crash, StartAgain, TypeOK
  <2> QED BY <1>11, <1>13, <2>1 DEF Crash, StartAgain
<1>14. CASE UNCHANGED vars
  BY <1>14 DEF vars, TypeOK
<1> QED
  BY <1>1, <1>2, <1>3, <1>4, <1>5, <1>6, <1>7, <1>8, <1>9, <1>10, <1>12, <1>13, <1>14
     DEF Next, Run

\* What is settled stays settled: the histories only grow.
LEMMA SettledIsStable ==
  ASSUME TypeOK, [Next]_vars, NEW p \in Partitions, NEW i \in Indexes(p), Settled(p, i)
  PROVE  Settled(p, i)'
<1>1. <<p, i>> \in Places /\ logged[<<p, i>>] \in Nat
  BY PlacesAre DEF TypeOK
<1>2. CASE Notify
  <2>1. Held \in Places /\ logged[Held] \in Nat
    BY <1>2, HeldPlace DEF Notify, LogNotification, TypeOK
  <2>2. logged' = [logged EXCEPT ![Held] = logged[Held] + 1] /\ dropped' = dropped
    BY <1>2 DEF Notify, LogNotification
  <2>4. log' = log
    BY <1>2 DEF Notify, LogNotification
  <2>3. logged'[<<p, i>>] \in {logged[<<p, i>>], logged[<<p, i>>] + 1}
    <3>1. CASE Held = <<p, i>>
      BY <1>1, <2>1, <2>2, <3>1 DEF TypeOK
    <3>2. CASE Held # <<p, i>>
      BY <1>1, <2>1, <2>2, <3>2 DEF TypeOK
    <3> QED BY <3>1, <3>2
  <2> QED BY <1>1, <2>2, <2>3, <2>4 DEF Settled, End
<1>3. CASE Drop
  BY <1>3 DEF Drop, LogWarning, Settled, End
<1>4. CASE ~Notify /\ ~Drop
  <2>1. logged' = logged /\ dropped' = dropped
    BY <1>4 DEF Next, Run, vars, history, Publish, Start, StartFails, LoopTop, ReadMessage, ReadReturnsNothing, Skip,
       CommitMessage, CommitMessageFails, Rebalance, Crash, Stop, StartAgain, NewProcess
  <2>2. i \in Nat /\ i >= 1
    BY PlacesAre
  <2>3. CASE \E q \in Partitions, e \in Records : Publish(q, e)
    <3> PICK q \in Partitions, e \in Records : Publish(q, e)
      BY <2>3
    <3>1. /\ End(p) \in Nat /\ End(p)' \in Nat /\ End(p) <= End(p)'
          /\ \A k \in 1 .. End(p) : log'[p][k] = log[p][k]
      BY PublishAppends DEF TypeOK, End
    <3> QED BY <2>1, <2>2, <3>1 DEF Settled
  <2>4. CASE log' = log
    BY <2>1, <2>4 DEF Settled, End
  <2> QED
    BY <1>4, <2>3, <2>4 DEF Next, Run, vars, offsets, history, Start, StartFails, LoopTop, ReadMessage,
       ReadReturnsNothing, Skip, CommitMessage, CommitMessageFails, Rebalance, Crash, Stop,
       StartAgain, NewProcess
<1> QED BY <1>2, <1>3, <1>4

LEMMA StepReadIsSettled ==
  ASSUME IInv, [Next]_vars
  PROVE  ReadIsSettled'
<1> USE DEF IInv
<1> TypeOK'
  BY StepTypeOK
<1> SUFFICES ASSUME NEW p \in Partitions, NEW i \in 1 .. position'[p],
                    ~(stage' = "process" /\ p = current' /\ i = position'[p])
             PROVE  Settled(p, i)'
  BY DEF ReadIsSettled
<1>1. i \in Indexes(p) /\ i \in Nat /\ position[p] \in Nat /\ committed[p] \in Nat
      /\ committed[p] <= position[p]
  BY PlacesAre DEF TypeOK, Indexes, End
<1>2. ASSUME i \in 1 .. position[p], ~(stage = "process" /\ p = current /\ i = position[p])
      PROVE  Settled(p, i)'
  BY <1>1, <1>2, SettledIsStable DEF ReadIsSettled
<1>3. CASE \E q \in Partitions : ReadMessage(q)
  <2> PICK q \in Partitions : ReadMessage(q)
    BY <1>3
  <2>1. i \in 1 .. position[p]
    BY <1>1 DEF ReadMessage, TypeOK
  <2> QED BY <1>2, <2>1 DEF ReadMessage
<1>4. CASE Notify
  BY <1>1, <1>2, <1>4, HeldPlace, PlacesAre DEF Notify, LogNotification, Settled, Held, Index, offsets, TypeOK
<1>5. CASE Skip
  BY <1>1, <1>2, <1>5 DEF Skip, Settled, Kind, Record, Index, offsets, End, TypeOK
<1>6. CASE Drop
  BY <1>1, <1>2, <1>6 DEF Drop, LogWarning, Settled, Held, Index, offsets
<1>7. CASE Rebalance \/ Crash \/ StartAgain
  <2>1. position' = committed
    BY <1>7 DEF Rebalance, Crash, StartAgain, NewProcess, Rewind
  <2>2. i \in 1 .. position[p] /\ (i = position[p] => committed[p] = position[p])
    BY <1>1, <2>1
  <2> QED BY <1>1, <1>2, <2>1, <2>2 DEF HeldIsUncommitted
<1>8. CASE UNCHANGED vars \/ Stop \/ Start \/ StartFails \/ LoopTop \/ ReadReturnsNothing \/ \E q \in Partitions, e \in Records : Publish(q, e)
  BY <1>2, <1>8 DEF vars, offsets, Stop, Start, StartFails, LoopTop, ReadReturnsNothing, Publish
<1>9. CASE CommitMessage \/ CommitMessageFails
  BY <1>2, <1>9 DEF offsets, CommitMessage, CommitMessageFails
<1> QED BY <1>3, <1>4, <1>5, <1>6, <1>7, <1>8, <1>9 DEF Next, Run

LEMMA StepHeldIsUncommitted ==
  ASSUME IInv, [Next]_vars
  PROVE  HeldIsUncommitted'
<1> USE DEF IInv, HeldIsUncommitted
<1>1. CASE \E q \in Partitions : ReadMessage(q)
  BY <1>1 DEF ReadMessage, TypeOK
<1>2. CASE Notify \/ Skip \/ Drop
  BY <1>2 DEF Notify, LogNotification, Skip, Drop, LogWarning, offsets
<1>3. CASE UNCHANGED vars \/ Stop \/ \E q \in Partitions, e \in Records : Publish(q, e)
  BY <1>3 DEF vars, offsets, Stop, Publish
<1>4. CASE Rebalance
  BY <1>4 DEF Rebalance
<1>5. CASE Start \/ StartFails \/ LoopTop \/ ReadReturnsNothing \/ CommitMessage \/ CommitMessageFails
  BY <1>5 DEF Start, StartFails, LoopTop, ReadReturnsNothing, CommitMessage, CommitMessageFails
<1>6. CASE Crash \/ StartAgain
  BY <1>6 DEF Crash, StartAgain, NewProcess
<1> QED BY <1>1, <1>2, <1>3, <1>4, <1>5, <1>6 DEF Next, Run

LEMMA StepNoOvertaking ==
  ASSUME IInv, [Next]_vars
  PROVE  NoOvertaking'
<1> USE DEF IInv
<1> SUFFICES ASSUME NEW p \in Partitions, NEW i \in Indexes(p), NEW j \in Indexes(p), i < j,
                    logged'[<<p, j>>] > 0 \/ <<p, j>> \in dropped'
             PROVE  Settled(p, i)'
  BY DEF NoOvertaking, Indexes
<1>1. i \in Nat /\ j \in Nat /\ i >= 1 /\ <<p, j>> \in Places
  BY PlacesAre
<1>2. CASE logged[<<p, j>>] > 0 \/ <<p, j>> \in dropped
  BY <1>2, SettledIsStable DEF NoOvertaking
<1>3. CASE (Notify \/ Drop) /\ Held = <<p, j>>
  <2>1. p = current /\ j = position[p] /\ position[p] \in Nat
    BY <1>3, HeldPlace DEF Held, Index, Notify, LogNotification, Drop, LogWarning, TypeOK
  <2>2. Settled(p, i)
    BY <1>1, <2>1 DEF ReadIsSettled
  <2> QED BY <2>2, SettledIsStable
<1>4. CASE ~(logged[<<p, j>>] > 0 \/ <<p, j>> \in dropped) /\ ~((Notify \/ Drop) /\ Held = <<p, j>>)
  <2>1. logged'[<<p, j>>] = logged[<<p, j>>] /\ (<<p, j>> \in dropped' => <<p, j>> \in dropped)
    <3>1. CASE Notify
      BY <1>1, <1>4, <3>1 DEF Notify, LogNotification, TypeOK
    <3>2. CASE Drop
      BY <1>4, <3>2 DEF Drop, LogWarning
    <3>3. CASE ~Notify /\ ~Drop
      BY <3>3 DEF Next, Run, vars, history, Publish, Start, StartFails, LoopTop, ReadMessage, ReadReturnsNothing, Skip,
         CommitMessage, CommitMessageFails, Rebalance, Crash, Stop, StartAgain, NewProcess
    <3> QED BY <3>1, <3>2, <3>3
  <2> QED BY <1>4, <2>1
<1> QED BY <1>2, <1>3, <1>4

LEMMA StepRepeatBound ==
  ASSUME IInv, [Next]_vars
  PROVE  RepeatBound'
<1> USE DEF IInv
<1> SUFFICES ASSUME NEW p \in Partitions, NEW i \in Indexes(p)
             PROVE  /\ logged'[<<p, i>>] <= 1 + rewinds'
                    /\ (i > position'[p] \/ (stage' = "process" /\ p = current' /\ i = position'[p]))
                         => logged'[<<p, i>>] <= rewinds'
  BY DEF RepeatBound, Indexes
<1>1. /\ i \in Nat /\ <<p, i>> \in Places /\ logged[<<p, i>>] \in Nat /\ rewinds \in Nat
      /\ position[p] \in Nat
  BY PlacesAre DEF TypeOK
<1>2. CASE Notify
  <2>1. UNCHANGED <<position, rewinds>> /\ stage' = "commit"
    BY <1>2 DEF Notify, LogNotification, offsets
  <2>2. CASE Held = <<p, i>>
    <3>1. p = current /\ i = position[p] /\ stage = "process"
      BY <1>2, <2>2 DEF Held, Index, Notify, LogNotification
    <3>2. logged'[<<p, i>>] = logged[<<p, i>>] + 1
      BY <1>1, <1>2, <2>2 DEF Notify, LogNotification, TypeOK
    <3> QED BY <1>1, <2>1, <3>1, <3>2 DEF RepeatBound
  <2>3. CASE Held # <<p, i>>
    <3>1. logged'[<<p, i>>] = logged[<<p, i>>]
      BY <1>1, <1>2, <2>3 DEF Notify, LogNotification, TypeOK
    <3> QED BY <1>1, <2>1, <3>1 DEF RepeatBound
  <2> QED BY <2>2, <2>3
<1>3. CASE Rebalance \/ Crash \/ StartAgain
  BY <1>1, <1>3 DEF RepeatBound, Rebalance, Crash, StartAgain, NewProcess, Rewind
<1>4. CASE \E q \in Partitions : ReadMessage(q)
  <2> PICK q \in Partitions : ReadMessage(q)
    BY <1>4
  <2>1. UNCHANGED <<logged, rewinds>> /\ current' = q /\ position'[p] \in {position[p], position[p] + 1}
        /\ (p = q => position'[p] = position[p] + 1)
    BY <1>1 DEF ReadMessage, history, TypeOK
  <2> QED BY <1>1, <2>1 DEF RepeatBound
<1>5. CASE UNCHANGED vars \/ Stop \/ \E q \in Partitions, e \in Records : Publish(q, e)
  BY <1>1, <1>5 DEF RepeatBound, vars, offsets, history, Stop, Publish
<1>6. CASE Start \/ StartFails \/ LoopTop \/ ReadReturnsNothing \/ Skip \/ Drop \/ CommitMessage \/ CommitMessageFails
  <2>1. UNCHANGED <<position, logged, rewinds>> /\ stage' # "process"
    BY <1>6 DEF Start, StartFails, LoopTop, ReadReturnsNothing, Skip, Drop, LogWarning, CommitMessage, CommitMessageFails,
       offsets, history
  <2> QED BY <1>1, <2>1 DEF RepeatBound
<1> QED BY <1>2, <1>3, <1>4, <1>5, <1>6 DEF Next, Run

LEMMA IInvHolds == Spec => []IInv
<1>1. IInv /\ [Next]_vars => IInv'
  BY StepTypeOK, StepReadIsSettled, StepHeldIsUncommitted, StepNoOvertaking, StepRepeatBound DEF IInv
<1> QED BY InitIInv, <1>1, PTL DEF Spec

-------------------------------------------------------------------------------

\* Whatever is published and whatever fails, the offsets keep their order and a
\* message is in hand exactly while it is processed and committed.
THEOREM TypeOKHolds == Spec => []TypeOK
<1>1. IInv => TypeOK
  BY DEF IInv
<1> QED BY IInvHolds, <1>1, PTL

\* At least once: a committed offset never covers an assignment that was
\* neither notified nor given up.
THEOREM CommittedIsSettledHolds == Spec => []CommittedIsSettled
<1>1. ASSUME IInv
      PROVE  CommittedIsSettled
  <2> SUFFICES ASSUME NEW p \in Partitions, NEW i \in 1 .. committed[p]
               PROVE  Settled(p, i)
    BY DEF CommittedIsSettled
  <2>1. /\ committed[p] \in Nat /\ position[p] \in Nat /\ committed[p] <= position[p]
        /\ i \in 1 .. position[p]
    BY <1>1 DEF IInv, TypeOK
  <2>2. ~(stage = "process" /\ p = current /\ i = position[p])
    BY <1>1, <2>1 DEF IInv, HeldIsUncommitted
  <2> QED BY <1>1, <2>1, <2>2 DEF IInv, ReadIsSettled
<1> QED BY IInvHolds, <1>1, PTL

\* Per-partition order survives failed commits, rebalances and restarts.
THEOREM NoOvertakingHolds == Spec => []NoOvertaking
<1>1. IInv => NoOvertaking
  BY DEF IInv
<1> QED BY IInvHolds, <1>1, PTL

\* Only a restart or a rebalance lets a rider be notified again.
THEOREM RepeatsAreRewindsHolds == Spec => []RepeatsAreRewinds
<1>1. ASSUME IInv
      PROVE  RepeatsAreRewinds
  BY <1>1 DEF IInv, RepeatsAreRewinds, RepeatBound, Places
<1> QED BY IInvHolds, <1>1, PTL

\* A stopped worker leaves no message it read unsettled.
THEOREM StoppedIsSettledHolds == Spec => []StoppedIsSettled
<1>1. IInv => StoppedIsSettled
  BY DEF IInv, StoppedIsSettled, ReadIsSettled
<1> QED BY IInvHolds, <1>1, PTL
===============================================================================
