------------------------------ MODULE MCRiderApp ------------------------------
(* A rider who presses twice; the two trips are on partitions of their own. *)
EXTENDS RiderApp

CONSTANTS t1, t2, p1, p2

MCMaxInt      == 127
MCTripIds     == <<t1, t2>>
MCPartitionOf == [t \in Trips |-> IF t = t1 THEN p1 ELSE p2]
===============================================================================
