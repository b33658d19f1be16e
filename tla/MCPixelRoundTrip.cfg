SPECIFICATION Spec
CONSTANT Depth = 7
INVARIANTS PixelRecovered MarkingIsMonotonic LoopsComputeTables
CHECK_DEADLOCK FALSE
