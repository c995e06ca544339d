CONSTANT MaxInt <- MCMaxInt
SPECIFICATION Spec
INVARIANTS PickInRange NoImmediateRepeat NoDriverStarves
