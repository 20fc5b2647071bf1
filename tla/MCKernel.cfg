SPECIFICATION KernelSpec
CONSTANTS
  Root = p1
  Proc = {p1, p2, p3}
  Byte = {b1, b2}
  MaxFds = 2
  MaxSent = 2
  MaxLen = 2
  CLUSTER_COUNT = 7
  Present <- MCPresent
  CLUSTER_SIZE = 2
  BASE = 6
  Align = 4
  PageCount = 4
  Usable = {0, 2, 3}
  First = s1
  Space = {s1, s2}
  LoadPage = 1
  MaxPage = 3
  MaxEntries = 3
  MaxPages = 2
  MaxBoxes = 1
  MaxCalls = 1
SYMMETRY Alike
INVARIANTS
  NoSleepWithData
  EndIsFinal
  BlocksWhole
  NothingLeaks
  LoopsRight
  
PROPERTY ImplementsStream
PROPERTY OthersUntouched
CHECK_DEADLOCK FALSE
