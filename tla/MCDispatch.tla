------------------------------ MODULE MCDispatch ------------------------------
(* Two rides that share a partition, so that one can block the other; a second *)
(* partition is there for whatever goes to the wrong one.                      *)
EXTENDS Dispatch

CONSTANTS t1, t2, p1, p2

MCMaxInt       == 127
MCTwoTrips     == {t1, t2}
MCPartitions   == {p1, p2}
MCOnePartition == {p1}
MCPartitionOf  == [t \in Trips |-> p1]
===============================================================================
