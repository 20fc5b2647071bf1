SPECIFICATION FairSpec
CONSTANTS
  KIdle = KIdle
  KInit = KInit
  Ptr = {KIdle, KInit, c1}
  NoCtx = NoCtx
  PidLimit = 3
  MaxSleep = 2
  Status = {0}
  WaitKeys = {2, 3}
PROPERTIES
  NoStarvation
  SleeperWakes
  ExitedReaped
