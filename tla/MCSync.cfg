SPECIFICATION SyncSpec
CONSTANTS
  Thread = {t1, t2, t3, t4}
  ISIZE_MIN <- MCMin
  Sender = {s1, s2}
  Addr = {a1, a2, a3, a4}
  Stub = a1
  NULL = NULL
  Absent = Absent
  MaxSends = 2
  Worker = {w1, w2, w3}
  MaxGuards = 2
  Client = {c1, c2}
  Server = {v1}
  Inst = {i1, i2}
  Name = {n1}
  Base = 1
  Sizes = {0, 1}
  MaxFds = 2
  MaxCalls = 2
INVARIANTS
  DestroyedLast
  QueueSound
  SharedSafely
  SchemesSound
PROPERTY ImplementsCallOnce
PROPERTY ImplementsFifo
PROPERTY WaitsEnd
CHECK_DEADLOCK FALSE
