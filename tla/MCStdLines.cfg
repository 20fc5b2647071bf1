SPECIFICATION WriteSpec
CONSTANTS
  Cap = 2
  SliceLen = 3
  Chunks <- MCTwoLines
  MaxWritten = 6
  MaxWFaults = 2
INVARIANT LinesPassedOn
CHECK_DEADLOCK FALSE
