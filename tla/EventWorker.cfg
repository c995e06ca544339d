CONSTANTS
  p1 = p1  p2 = p2
  NoPartition = NoPartition
  Partitions <- MCPartitions
  Records <- MCRecords
  KindOf <- MCKindOf
  Capacity <- MCCapacity
  FaultKinds = {"startup", "registry", "commit", "rebalance", "crash", "stop"}
  MaxFaults = 3
SPECIFICATION FairSpec
INVARIANTS TypeOK CommittedIsSettled NoOvertaking RepeatsAreRewinds StoppedIsSettled
PROPERTIES StopReturns PublishedIsSettled
