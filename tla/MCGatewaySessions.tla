-------------------------- MODULE MCGatewaySessions --------------------------
(* A rider who reconnects, twice if need be, and another rider. *)
EXTENDS GatewaySessions

CONSTANTS r1, r2, c1, c2, c3

MCRiders  == {r1, r2}
MCConns   == {c1, c2, c3}
MCRiderOf == [c \in Conns |-> IF c = c3 THEN r2 ELSE r1]
===============================================================================
