CONSTANTS
  r1 = r1  r2 = r2  c1 = c1  c2 = c2  p1 = p1  p2 = p2
  NoConn = NoConn
  NoPartition = NoPartition
  Riders <- MCRiders
  Conns = {c1, c2}
  RiderOf <- MCRiderOf
  KeepsAlive = {}
  Partitions = {p1}
  Topic <- MCTopic
  Records <- MCRecords
  KindOf <- MCKindOf
  RiderOfRecord <- MCRiderOfRecord
  FaultKinds = {"commit", "rebalance", "crash", "stop"}
  MaxFaults = 2
SPECIFICATION Spec
INVARIANTS TypeOK RegisteredIsOpen PushesInOrder StaleGetsAtMostOne
PROPERTY ImplementsWorker
