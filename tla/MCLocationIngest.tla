--------------------------- MODULE MCLocationIngest ---------------------------
(* A driver with two pings, which can overlap, and another driver whose key *)
(* goes to another partition.                                               *)
EXTENDS LocationIngest

CONSTANTS d1, d2, p1, p2

MCDrivers     == {d1, d2}
MCPartitions  == {p1, p2}
MCPingsOf     == [d \in Drivers |-> IF d = d1 THEN 2 ELSE 1]
MCPartitionOf == [d \in Drivers |-> IF d = d1 THEN p1 ELSE p2]
===============================================================================
