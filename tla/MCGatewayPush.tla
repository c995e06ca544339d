----------------------------- MODULE MCGatewayPush -----------------------------
(* Safety: a rider who reconnects, with three events on one partition. Liveness: *)
(* two riders on two partitions, of whom one has a connection that may stall.    *)
EXTENDS GatewayPush

CONSTANTS r1, r2, c1, c2, p1, p2

MCRiders        == {r1, r2}
MCRiderOf       == [c \in Conns |-> r1]
MCRecords       == {"TripAssigned", "other"} \X Riders
MCKindOf        == [e \in Records |-> e[1]]
MCRiderOfRecord == [e \in Records |-> e[2]]
MCTopic         == [p \in Partitions |->
                      IF p2 \in Partitions
                        THEN << <<"TripAssigned", IF p = p1 THEN r1 ELSE r2>> >>
                        ELSE << <<"TripAssigned", r1>>, <<"other", r1>>, <<"TripAssigned", r1>> >>]
===============================================================================
