---------------------------- MODULE MCEventWorker ----------------------------
(* Every topic of up to two records on one partition and one on another, so   *)
(* that a commit can cover an earlier failed one and the other be read in     *)
(* between.                                                                   *)
EXTENDS EventWorker

CONSTANTS p1, p2

MCPartitions == {p1, p2}
MCRecords    == RecordKinds
MCKindOf     == [e \in Records |-> e]
MCCapacity   == [p \in Partitions |-> IF p = p1 THEN 2 ELSE 1]
==============================================================================
