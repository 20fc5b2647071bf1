SPECIFICATION Spec
CONSTANTS
  KIdle = KIdle
  KInit = KInit
  Ptr = {KIdle, KInit, c1, c2}
  NoCtx = NoCtx
  PidLimit = 3
  MaxSleep = 1
  Status = {0, 1}
  WaitKeys = {2, 3}
SYMMETRY Spare
INVARIANTS
  CpuOwnership
  FamilyTree
  VforkParentBlocked
  ExecTargetWaits
  WaitpidNotForgotten
PROPERTIES
  StatusesKept
  SleepNotCutShort
