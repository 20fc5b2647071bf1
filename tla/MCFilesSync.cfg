SPECIFICATION FilesSpec
CONSTANTS
  Sector = 2
  Extents = 2
  BootNodes <- MCNodes
  BootDisk <- MCDisk
  BootFree <- MCFree
  Paths <- MCPaths
  h1 = h1
  h2 = h2
  Handles = {h1, h2}
  Data = {2}
  MaxLen = 3
  MaxOps = 4
  MaxRestarts = 0
  MaxFailures = 0
SYMMETRY Symmetry
INVARIANT SyncedIsStored
CHECK_DEADLOCK FALSE
