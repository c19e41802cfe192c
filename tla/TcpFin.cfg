SPECIFICATION Spec
CONSTANTS
  Servers = {A}
  NoServer = NoServer
  RxBufSize = 4
  SeqSpace = 8
  PortBase = 2
  PortSpace = 8
  ConnectTicks = 2
  SynTicks = 1
  Isns = {6}
  StreamLen = 2
  SegLen = 2
  RecvLens = {1, 2}
  Faults = {}
  MaxConnections = 1
  MaxSent = 0
  MaxInFlight = 2
INVARIANTS
  ResponseReadable
CHECK_DEADLOCK FALSE
