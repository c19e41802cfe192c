SPECIFICATION Spec
CONSTANTS
  Servers = {A}
  NoServer = NoServer
  RxBufSize = 4
  SeqSpace = 8
  PortBase = 2
  PortSpace = 8
  ConnectTicks = 2
  SynTicks = 1
  Isns = {6}
  StreamLen = 3
  SegLen = 2
  RecvLens = {1, 2}
  Faults = {}
  MaxConnections = 2
  MaxSent = 1
  MaxInFlight = 2
PROPERTIES
  ImplementsByteStream
CHECK_DEADLOCK FALSE
