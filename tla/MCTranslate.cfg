SPECIFICATION SpaceSpec
CONSTANTS
  PageCount = 4
  Usable = {0, 2, 3}
  First = s1
  Space = {s1, s2}
  LoadPage = 1
  MaxPage = 3
  MaxEntries = 3
  MaxPages = 2
  MaxBoxes = 1
  MaxCalls = 1
INVARIANT TranslateMatchesMap
CHECK_DEADLOCK FALSE
