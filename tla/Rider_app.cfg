CONSTANTS
  t1 = t1  t2 = t2  p1 = p1  p2 = p2
  NoPartition = NoPartition
  MaxInt <- MCMaxInt
  Trips = {t1, t2}
  TripIds <- MCTripIds
  Partitions = {p1, p2}
  PartitionOf <- MCPartitionOf
  FaultKinds = {"requestCommit", "commitReply", "assignCommit", "loss"}
  AppFaultKinds = {"fetch"}
  MaxFaults = 1
  WorkerFaultKinds = {"rebalance"}
  MaxWorkerFaults = 1
SPECIFICATION FairAppSpec
INVARIANTS AppTypeOK RiderKnowsDriver ShownIsDurable OneAtATime
PROPERTIES AcceptedIsTold PartitionsDrain LoadingEnds
