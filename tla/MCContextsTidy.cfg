SPECIFICATION TidySpec
CONSTANTS
  KIdle = KIdle
  KInit = KInit
  NoCtx = NoCtx
  Ptr = {KIdle, KInit, c1, c2}
  PidLimit = 3
  MaxSleep = 0
  Status = {0}
  WaitKeys = {}
  MaxCalls = 2
INVARIANTS
  CallsSound
