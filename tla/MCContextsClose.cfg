SPECIFICATION CloseSpec
CONSTANTS
  KIdle = KIdle
  KInit = KInit
  NoCtx = NoCtx
  Ptr = {KIdle, KInit, c1, c2}
  PidLimit = 5
  MaxSleep = 0
  Status = {0}
  WaitKeys = {}
  MaxCalls = 2
INVARIANT StacksUnique
CHECK_DEADLOCK FALSE
