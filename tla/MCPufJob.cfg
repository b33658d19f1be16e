SPECIFICATION Spec
CONSTANTS
  Positions = {b1, b2}
  MaxIDs <- SmallRecords
  MaxInt <- SmallInts
  MaxFailures = 1
  None = None
SYMMETRY Symmetry
INVARIANTS TypeOK PartialSumsExact AverageExact CorrectIDIsMedian NoiseAtMostHalf
CHECK_DEADLOCK FALSE
