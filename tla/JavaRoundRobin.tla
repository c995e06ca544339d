---------------------------- MODULE JavaRoundRobin ----------------------------
(***************************************************************************)
(* The arithmetic of HardcodedDriverSelectionStrategy.selectDriver: a Java *)
(* int counter that wraps, Java's remainder (which keeps the sign of the   *)
(* dividend) and the absolute value that turns it into a list index.       *)
(* Pure operators, shared by DriverSelection and Dispatch.                 *)
(***************************************************************************)
EXTENDS Integers

CONSTANT MaxInt   \* Integer.MAX_VALUE; the JVM's is 2147483647

\* Any width that leaves the remainder the JVM's 2^31 - 1 leaves modulo 3, so
\* that a narrow counter meets the same picks around its wrap.
ASSUME MaxIntAssumption == MaxInt \in Nat /\ MaxInt % 3 = 1 /\ MaxInt >= 4

MinInt   == -MaxInt - 1
JavaInts == MinInt .. MaxInt

\* DRIVERS.size(): the list is fixed in the source.
NumDrivers    == 3
DriverIndexes == 0 .. NumDrivers - 1

\* AtomicInteger.getAndIncrement's new value: two's complement, no exception.
Incremented(c) == IF c = MaxInt THEN MinInt ELSE c + 1

\* a % n for n > 0: truncated division, so the result has the sign of a.
JavaRem(a, n) == IF a >= 0 THEN a % n ELSE -((-a) % n)

Abs(a) == IF a < 0 THEN -a ELSE a

\* Mutants of PickIndex: Math.abs forgotten; size() - 1; negative counters clamped.
PickIndexNoAbs(c)    == JavaRem(c, NumDrivers)
PickIndexOffByOne(c) == Abs(JavaRem(c, NumDrivers - 1))
PickIndexClamped(c)  == IF c < 0 THEN 0 ELSE JavaRem(c, NumDrivers)

\* The index selectDriver hands to DRIVERS.get when the counter holds c.
PickIndex(c) == Abs(JavaRem(c, NumDrivers))
===============================================================================
