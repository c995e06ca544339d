------------------------------ MODULE RideEvents ------------------------------
(***************************************************************************)
(* What the ride-events topic promises its readers about one trip: its     *)
(* records only ever appear behind one another; the first says that it was *)
(* requested, no other one does, and each later one names a driver. The    *)
(* topic promises no more than that: a later record may name another       *)
(* driver, so a reader has to go by the last.                              *)
(***************************************************************************)
EXTENDS Naturals

CONSTANTS Trips, Drivers, NoDriver

VARIABLE story   \* what the topic says of each trip, and where

\* NoDriver: the trip is requested.
Note == [at : Nat, driver : Drivers \cup {NoDriver}]

Init == story = [t \in Trips |-> {}]

\* n is put behind everything the topic says of t.
Tell(t, n) ==
  /\ \A m \in story[t] : m.at < n.at
  /\ story' = [story EXCEPT ![t] = @ \cup {n}]

Request(t) ==
  /\ story[t] = {}
  /\ \E n \in story'[t] : n.driver = NoDriver /\ Tell(t, n)

Assign(t) ==
  /\ story[t] # {}
  /\ \E n \in story'[t] : n.driver \in Drivers /\ Tell(t, n)

Next == \E t \in Trips : Request(t) \/ Assign(t)

Spec == Init /\ [][Next]_story
===============================================================================
