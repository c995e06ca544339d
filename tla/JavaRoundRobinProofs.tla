------------------------- MODULE JavaRoundRobinProofs -------------------------
(***************************************************************************)
(* Facts about the round-robin arithmetic, for a counter of any width that *)
(* meets MaxIntAssumption, the JVM's included.                             *)
(***************************************************************************)
EXTENDS JavaRoundRobin, TLAPS

\* Math.abs of a truncated remainder is an index of the list for every int.
LEMMA PickIndexInRange ==
  ASSUME NEW c \in Int
  PROVE  PickIndex(c) \in DriverIndexes
BY DEF PickIndex, Abs, JavaRem, DriverIndexes, NumDrivers

\* The counter k increments ago, on a two's complement ring.
Back(c, k) == IF c - k < MinInt THEN c - k + 2 * MaxInt + 2 ELSE c - k

\* The ints are closed under increment, which is undone by one step back.
LEMMA IncrementedInRange ==
  ASSUME NEW c \in JavaInts
  PROVE  /\ Incremented(c) \in JavaInts
         /\ \A k \in 1 .. 4 : Back(Incremented(c), k) = Back(c, k - 1)
BY MaxIntAssumption DEF Incremented, JavaInts, MinInt, Back

LEMMA BackInRange ==
  ASSUME NEW c \in JavaInts, NEW k \in 0 .. 4
  PROVE  Back(c, k) \in JavaInts
BY MaxIntAssumption DEF JavaInts, MinInt, Back

\* The arithmetic of the wrap: a pick differs from the one before it, since the
\* widths considered leave the picks 1 and 2 on the two sides of the overflow.
LEMMA AdjacentPicksDiffer ==
  ASSUME NEW c \in JavaInts
  PROVE  PickIndex(c) # PickIndex(Incremented(c))
BY MaxIntAssumption
   DEF PickIndex, Abs, JavaRem, NumDrivers, Incremented, JavaInts, MinInt

\* Any four consecutive picks name all three drivers.
LEMMA FourPicksCoverDrivers ==
  ASSUME NEW c \in JavaInts, NEW d \in DriverIndexes
  PROVE  \E k \in 1 .. 4 : PickIndex(Back(c, k)) = d
BY MaxIntAssumption
   DEF PickIndex, Abs, JavaRem, NumDrivers, JavaInts, MinInt, Back, DriverIndexes
===============================================================================
