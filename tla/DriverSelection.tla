---------------------------- MODULE DriverSelection ----------------------------
(***************************************************************************)
(* HardcodedDriverSelectionStrategy: successive picks of one JVM lifetime. *)
(* getAndIncrement is the linearization point of a call: the pick is a     *)
(* function of the value it returned, so calls are taken one at a time in  *)
(* counter order whatever the threads do.                                  *)
(***************************************************************************)
EXTENDS JavaRoundRobin

VARIABLES
  counter,   \* the AtomicInteger
  recent     \* history: the last Window picks of this lifetime, newest last

vars == <<counter, recent>>

Window == 4
NoPick == -1

Init ==
  /\ counter = 0
  /\ recent = [i \in 1..Window |-> NoPick]

SelectDriver ==
  /\ counter' = Incremented(counter)
  /\ recent' = [i \in 1..Window |->
                  IF i = Window THEN PickIndex(counter) ELSE recent[i + 1]]

\* A new JVM starts counting from zero again: nothing is persisted.
Restart ==
  /\ counter' = 0
  /\ recent' = [i \in 1..Window |-> NoPick]

Next == SelectDriver \/ Restart

Spec == Init /\ [][Next]_vars

-------------------------------------------------------------------------------

\* Every index handed to DRIVERS.get is inside the list, also after the counter
\* has gone negative (otherwise get throws and no trip is ever assigned again).
PickInRange ==
  /\ counter \in JavaInts
  /\ recent \in [1..Window -> DriverIndexes \cup {NoPick}]

\* Two consecutive rides never go to the same driver, not even across the
\* counter's overflow and its return through zero.
NoImmediateRepeat ==
  \A i \in 1 .. Window - 1 :
    recent[i] # NoPick => recent[i] # recent[i + 1]

\* No driver is passed over for a whole window: any 2n - 2 consecutive picks
\* from a list of n name every driver.
NoDriverStarves ==
  (\A i \in 1..Window : recent[i] # NoPick)
    => \A d \in DriverIndexes : \E i \in 1..Window : recent[i] = d
===============================================================================
