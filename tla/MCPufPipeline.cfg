SPECIFICATION FairSpec
CONSTANTS
  Files = {f1}
  InterHD = InterHD
  MaxRuns = 2
INVARIANTS  InputsComplete SharedOnlyIfLeft
PROPERTIES OutputsFinal HalfDoneForGood RunsEnd
CHECK_DEADLOCK FALSE
