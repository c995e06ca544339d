CONSTANTS
  d1 = d1  d2 = d2  p1 = p1  p2 = p2
  Drivers <- MCDrivers
  PingsOf <- MCPingsOf
  Partitions <- MCPartitions
  PartitionOf <- MCPartitionOf
  QueueMax = 2
  FaultKinds = {"unavailable"}
  MaxFaults = 1
SPECIFICATION Spec
INVARIANT PatientClientIsAnswered
