---------------------------- MODULE MCLocationFeed ----------------------------
(* A driver whose two pings can overlap and fill the queue, its partition, and *)
(* another one for a record that goes astray.                                  *)
EXTENDS LocationFeed

CONSTANTS d1, p1, p2

MCPingsOf     == [d \in Drivers |-> 2]
MCPartitionOf == [d \in Drivers |-> p1]
===============================================================================
