CONSTANTS
  r1 = r1  r2 = r2  c1 = c1  c2 = c2  p1 = p1  p2 = p2
  NoConn = NoConn
  NoPartition = NoPartition
  Riders <- MCRiders
  Conns = {c1}
  RiderOf <- MCRiderOf
  KeepsAlive = {}
  Partitions = {p1, p2}
  Topic <- MCTopic
  Records <- MCRecords
  KindOf <- MCKindOf
  RiderOfRecord <- MCRiderOfRecord
  FaultKinds = {"startup", "registry", "commit", "rebalance", "crash", "stop"}
  MaxFaults = 2
SPECIFICATION FairSpec
PROPERTIES EveryRecordIsOffered LeaversAreForgotten StopEnds
