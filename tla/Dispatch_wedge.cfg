CONSTANTS
  t1 = t1  t2 = t2  p1 = p1  p2 = p2
  NoPartition = NoPartition
  MaxInt <- MCMaxInt
  Trips <- MCTwoTrips
  Partitions <- MCOnePartition
  PartitionOf <- MCPartitionOf
  FaultKinds = {"crash"}
  MaxFaults = 1
SPECIFICATION FairSpec
PROPERTY ReprocessedIsCommitted
