SPECIFICATION StdSpec
CONSTANTS
  Keys = {k1, k2, k3, k4}
  Vals = {v1, v2}
  None = None
  Unit = v1
  Hashes = {2, 3, 7}
  InitialCapacity = 4
  MinNum = 4
  MinDen = 3
  HighBit = 64
  Letters = {"a"}
  MaxLen = 5
  Files <- MCFiles
  Second <- MCSecond
  BufCap = 2
  I64 = 2
  MaxFaults = 1
  EmptyReads = FALSE
  Cap = 2
  SliceLen = 3
  Chunks <- MCChunks
  MaxWritten = 6
  MaxWFaults = 2
  MaxFd = 7
  MaxKids = 2
  MaxSets = 2
  MaxAside = 1
  Codes = {1}
  NANOS_PER_SEC = 4
  NANOS_PER_MILLI = 2
  I32 = 9
  MaxSecs = 3
  MaxFactor = 3
SYMMETRY KeySymmetry
INVARIANTS
  MapSound
  PathSound
  ReadSound
  WriteSound
  ChildStreams
  DurationLaws
CHECK_DEADLOCK FALSE
