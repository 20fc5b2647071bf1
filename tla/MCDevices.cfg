SPECIFICATION DevicesSpec
CONSTANTS
  Sector = 2
  Extents = 2
  BootNodes <- MCNodes
  BootDisk <- MCDisk
  BootFree <- MCFree
  Paths <- MCPaths
  h1 = h1
  h2 = h2
  Handles = {h1, h2}
  Data = {2}
  MaxLen = 3
  MaxOps = 4
  MaxRestarts = 1
  MaxFailures = 1
  MaxCmd = 8
  PerPrd = 2
  PrdtMax = 4
  Octet = 2
  Slots = 2
  Blocks = 10
  MaxSectors = 9
  MaxRequests = 2
  CharW = 4
  CharH = 4
  Tab = 8
  ScreenW = 9
  ScreenH = 9
  NoWidth = 12
  NoHeight = 8
  Word = 128
  Readers = {"ra", "rb"}
  Keys = {"A", "ENTER", "LSHIFT", "ALTGR", "CAPS", "UP", "BKSP", "ESCAPE", "BRACKET", "R"}
  SerialChars = {"^C", "ESC", "[", "A", "CR", "DEL"}
  Texts <- MCTexts
  MaxSteps = 3
  Width = 4
  Height = 3
  TitleH = 1
  Close = 1
  Gap = 1
  Requests <- MCRequests
  Points <- MCPoints
  Batch = 1
  Backlog = 1
  MaxCalls = 3
  MaxEvents = 2
SYMMETRY Symmetry
INVARIANTS
  FilesSound
  TransferExact
  
  OrbitalSound
CHECK_DEADLOCK FALSE
