------------------------- MODULE DriverSelectionProofs -------------------------
(***************************************************************************)
(* DriverSelection for a counter of any width, the JVM's included.         *)
(***************************************************************************)
EXTENDS DriverSelection, JavaRoundRobinProofs

\* The strengthening that makes the window say something about the next pick:
\* the picks kept are those of the last counters, newest last.
PicksFollowCounter ==
  \A i \in 1 .. Window :
    recent[i] # NoPick => recent[i] = PickIndex(Back(counter, Window + 1 - i))

\* A window that has a pick in one place has one in every later place.
PicksAreContiguous ==
  \A i \in 1 .. Window - 1 : recent[i] # NoPick => recent[i + 1] # NoPick

IInv == PickInRange /\ PicksFollowCounter /\ PicksAreContiguous

LEMMA InitIInv == Init => IInv
BY MaxIntAssumption
   DEF Init, IInv, PickInRange, PicksFollowCounter, PicksAreContiguous, Window, NoPick,
       JavaInts, MinInt

LEMMA SelectDriverIInv ==
  ASSUME IInv, SelectDriver
  PROVE  IInv'
<1>1. counter \in JavaInts /\ counter \in Int
  BY MaxIntAssumption DEF IInv, PickInRange, JavaInts, MinInt
<1>2. /\ counter' = Incremented(counter)
      /\ counter' \in JavaInts
      /\ \A k \in 1 .. Window : Back(counter', k) = Back(counter, k - 1)
  BY <1>1, IncrementedInRange DEF SelectDriver, Window
<1>3. PickIndex(counter) \in DriverIndexes
  BY <1>1, PickIndexInRange
<1>4. PickInRange'
  BY <1>2, <1>3 DEF SelectDriver, IInv, PickInRange, Window
<1>5. PicksFollowCounter'
  <2> SUFFICES ASSUME NEW i \in 1 .. Window, recent'[i] # NoPick
               PROVE  recent'[i] = PickIndex(Back(counter', Window + 1 - i))
    BY DEF PicksFollowCounter
  <2>1. CASE i = Window
    <3>1. Back(counter', 1) = counter
      BY <1>1, <1>2, MaxIntAssumption DEF Back, JavaInts, MinInt, Window
    <3>2. recent'[i] = PickIndex(counter)
      BY <2>1 DEF SelectDriver, Window
    <3>3. Window + 1 - i = 1
      BY <2>1 DEF Window
    <3> QED BY <3>1, <3>2, <3>3
  <2>2. CASE i # Window
    <3>1. /\ i + 1 \in 1 .. Window
          /\ recent'[i] = recent[i + 1]
      BY <2>2 DEF SelectDriver, Window
    <3>2. recent[i + 1] = PickIndex(Back(counter, Window + 1 - (i + 1)))
      BY <3>1 DEF IInv, PicksFollowCounter
    <3>3. /\ Window + 1 - i \in 1 .. Window
          /\ Window + 1 - (i + 1) = (Window + 1 - i) - 1
      BY <2>2 DEF Window
    <3>4. Back(counter', Window + 1 - i) = Back(counter, (Window + 1 - i) - 1)
      BY <1>2, <3>3
    <3> QED BY <3>1, <3>2, <3>3, <3>4
  <2> QED BY <2>1, <2>2
<1>6. PicksAreContiguous'
  <2> SUFFICES ASSUME NEW i \in 1 .. Window - 1, recent'[i] # NoPick
               PROVE  recent'[i + 1] # NoPick
    BY DEF PicksAreContiguous
  <2>1. PickIndex(counter) # NoPick
    BY <1>3 DEF NoPick, DriverIndexes, NumDrivers
  <2> QED
    BY <2>1 DEF SelectDriver, IInv, PicksAreContiguous, Window
<1> QED BY <1>4, <1>5, <1>6 DEF IInv

LEMMA RestartIInv ==
  ASSUME Restart
  PROVE  IInv'
BY MaxIntAssumption
   DEF Restart, IInv, PickInRange, PicksFollowCounter, PicksAreContiguous, Window, NoPick,
       JavaInts, MinInt

LEMMA InvariantIInv == Spec => []IInv
<1>1. IInv /\ UNCHANGED vars => IInv'
  BY DEF vars, IInv, PickInRange, PicksFollowCounter, PicksAreContiguous
<1>2. IInv /\ [Next]_vars => IInv'
  BY <1>1, SelectDriverIInv, RestartIInv DEF Next
<1> QED BY InitIInv, <1>2, PTL DEF Spec

-------------------------------------------------------------------------------

\* Whatever the width of the counter, DRIVERS.get is never given an index
\* outside the list.
THEOREM PickInRangeHolds == Spec => []PickInRange
<1>1. IInv => PickInRange
  BY DEF IInv
<1> QED BY <1>1, InvariantIInv, PTL

\* No two consecutive rides share a driver, across the overflow included.
THEOREM NoImmediateRepeatHolds == Spec => []NoImmediateRepeat
<1>1. IInv => NoImmediateRepeat
  <2> SUFFICES ASSUME IInv, NEW i \in 1 .. Window - 1, recent[i] # NoPick
               PROVE  recent[i] # recent[i + 1]
    BY DEF NoImmediateRepeat
  <2> DEFINE c == Back(counter, Window + 1 - i)
  <2>1. i \in 1 .. Window /\ i + 1 \in 1 .. Window /\ Window + 1 - i \in 0 .. Window
    BY DEF Window
  <2>2. counter \in JavaInts /\ c \in JavaInts
    BY <2>1, BackInRange DEF IInv, PickInRange, Window
  <2>3. Incremented(c) = Back(counter, Window + 1 - (i + 1))
    BY <2>1, <2>2, MaxIntAssumption DEF Incremented, Back, JavaInts, MinInt, Window
  <2>4. recent[i] = PickIndex(c)
    BY <2>1 DEF IInv, PicksFollowCounter
  <2>5. recent[i + 1] = PickIndex(Incremented(c))
    BY <2>1, <2>3 DEF IInv, PicksFollowCounter, PicksAreContiguous
  <2>6. PickIndex(c) # PickIndex(Incremented(c))
    BY <2>2, AdjacentPicksDiffer
  <2> QED BY <2>4, <2>5, <2>6
<1> QED BY <1>1, InvariantIInv, PTL

\* Every driver is picked at least once in any four consecutive rides.
THEOREM NoDriverStarvesHolds == Spec => []NoDriverStarves
<1>1. IInv => NoDriverStarves
  <2> SUFFICES ASSUME IInv, \A i \in 1 .. Window : recent[i] # NoPick,
                      NEW d \in DriverIndexes
               PROVE  \E i \in 1 .. Window : recent[i] = d
    BY DEF NoDriverStarves
  <2>1. counter \in JavaInts
    BY DEF IInv, PickInRange
  <2>2. PICK k \in 1 .. Window : PickIndex(Back(counter, k)) = d
    BY <2>1, FourPicksCoverDrivers DEF Window
  <2>3. Window + 1 - k \in 1 .. Window /\ Window + 1 - (Window + 1 - k) = k
    BY DEF Window
  <2>4. recent[Window + 1 - k] = d
    BY <2>2, <2>3 DEF IInv, PicksFollowCounter
  <2> QED BY <2>3, <2>4
<1> QED BY <1>1, InvariantIInv, PTL
===============================================================================
