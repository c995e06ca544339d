CONSTANTS
  t1 = t1  t2 = t2  p1 = p1  p2 = p2
  NoPartition = NoPartition
  MaxInt <- MCMaxInt
  Trips <- MCTwoTrips
  Partitions <- MCPartitions
  PartitionOf <- MCPartitionOf
  FaultKinds = {"send", "requestCommit", "assignCommit", "commitReply", "loss", "offset", "registry", "crash"}
  MaxFaults = 3
SPECIFICATION Spec
INVARIANTS TypeOK AcceptedIsDurable RequestedBeforeAssigned AckedIsAssigned AssignedIsAnnounced AnnouncementsAreAttempts
PROPERTIES TripsFollowLifecycle ImplementsRideEvents
