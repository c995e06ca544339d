----------------------------- MODULE TripLifecycle -----------------------------
(***************************************************************************)
(* What the trips table promises its readers: a row appears once, as       *)
(* REQUESTED, and then only moves along TripStatus.VALID_TRANSITIONS; the  *)
(* driver is written with ASSIGNED and is kept from then on.               *)
(***************************************************************************)
CONSTANTS Trips, Drivers, NoDriver

VARIABLE trips   \* the table: [Trips -> Row]

Statuses == {"NONE", "REQUESTED", "ASSIGNED", "CANCELLED"}   \* NONE: no row
Row      == [status : Statuses, driver : Drivers \cup {NoDriver}]
NoRow    == [status |-> "NONE", driver |-> NoDriver]

ValidTransitions == [REQUESTED |-> {"ASSIGNED", "CANCELLED"},
                     ASSIGNED  |-> {"CANCELLED"},
                     CANCELLED |-> {}]

\* assertCanTransitionTo; a missing row never gets as far as the assertion.
CanTransitionTo(s, next) == s # "NONE" /\ next \in ValidTransitions[s]

-------------------------------------------------------------------------------

Init == trips = [t \in Trips |-> NoRow]

Insert(t) ==
  /\ trips[t] = NoRow
  /\ trips' = [trips EXCEPT ![t] = [status |-> "REQUESTED", driver |-> NoDriver]]

Assign(t, d) ==
  /\ CanTransitionTo(trips[t].status, "ASSIGNED")
  /\ trips' = [trips EXCEPT ![t] = [status |-> "ASSIGNED", driver |-> d]]

\* Allowed by the state machine; no code path of the services takes it yet.
Cancel(t) ==
  /\ CanTransitionTo(trips[t].status, "CANCELLED")
  /\ trips' = [trips EXCEPT ![t].status = "CANCELLED"]

Next == \E t \in Trips :
          \/ Insert(t)
          \/ \E d \in Drivers : Assign(t, d)
          \/ Cancel(t)

Spec == Init /\ [][Next]_trips
===============================================================================
