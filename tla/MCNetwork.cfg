SPECIFICATION Spec
CONSTANTS
  Res = {r1, r2}
  Ring = 5
  TxRing = 2
  Lengths = {1, 2}
  TooLong = 2
  MaxRx = 2
  MaxTx = 3
  U32 = 4
  Isn = {3}
  Lens = {1, 2}
  Rooms = {1}
  MaxWrites = 2
  MaxLost = 1
  MaxStray = 1
  MaxOpens = 3
  r1 = r1
  r2 = r2
  p1 = p1
  p2 = p2
  c1 = c1
  c2 = c2
  Peers = {p1, p2}
  Clients = {c1, c2}
  PeerOf <- MCPeerOf
  Ports = {1, 2}
  MaxIn = 2
  MaxTowers = 2
  MaxSent = 3
  Radix = 2
  MaxMsg = 5
  Octets = 3
SYMMETRY Symmetry
INVARIANTS CardsSound AckedWasRead InetSound WireLaws
CHECK_DEADLOCK FALSE
