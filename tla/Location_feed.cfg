CONSTANTS
  d1 = d1  p1 = p1  p2 = p2
  NoPartition = NoPartition
  Drivers = {d1}
  PingsOf <- MCPingsOf
  Partitions = {p1, p2}
  PartitionOf <- MCPartitionOf
  QueueMax = 1
  FaultKinds = {"startup", "registry", "rejected", "unavailable", "crash", "sigterm"}
  FeedFaultKinds = {"schema", "offset", "dispatch"}
  MaxFaults = 3
SPECIFICATION FairFeedSpec
INVARIANTS ReplyTellsTopic OrderUnlessGivenUp FeedTypeOK CommittedIsReceived
PROPERTIES CleanExitIsComplete PostEnds AcceptedIsReceived
