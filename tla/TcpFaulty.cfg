\* Two connections to one server, a ring of one byte, a network that does all
\* it may; the sequence numbers wrap around.
SPECIFICATION Spec
CONSTANTS
  Servers = {A}
  NoServer = NoServer
  RxBufSize = 2
  SeqSpace = 8
  PortBase = 2
  PortSpace = 8
  ConnectTicks = 2
  SynTicks = 1
  Isns = {6}
  StreamLen = 1
  SegLen = 1
  RecvLens = {1}
  Faults = {"lose", "duplicate", "reorder", "reset"}
  MaxConnections = 2
  MaxSent = 1
  MaxInFlight = 2
INVARIANTS
  RingIsRight
  EndsAgree
PROPERTIES
  ClosedOnce
CHECK_DEADLOCK FALSE
