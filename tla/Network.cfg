\* Three hosts, two slots in the ARP cache, waits of 1 and 2 ticks; six pages,
\* so that the ring wraps and runs full; two buses, one slot, three functions,
\* with every placement of cards.
SPECIFICATION NetSpec
CONSTANTS
  Hosts = {h1, h2, h3}
  Macs = {m1, m2}
  ARP_CACHE_SIZE = 2
  Wait1 = 1
  Wait2 = 2
  MaxPings = 1
  MaxStimuli = 2
  PStart = 2
  PStop = 8
  Frames = {f1, f2}
  FramePages = {1, 2, 3}
  BUSES = 2
  SLOTS = 1
  FUNCS = 3
\* Bytes of 4 values; lengths odd and even.
  B = 4
  TcpProto = 2
  Lengths = {2, 4, 5, 6, 8}
  AddressBytes = {1}
\* Every text of up to 7 characters.
  Digits <- MCDigits
  Others = {"dot", "blank", "slash"}
  Modulus = 16
  MaxLength = 7
  HostMax = 5
  PathMax = 5
\* Responses of up to 11 bytes, timeouts of 2 ticks, buffers they overflow.
  Responses <- MCResponses
  Timeout <- MCTimeout
  RecvMax <- MCRecvMax
  BodyMax = 2
  ResponseMax = 6
INVARIANTS
  CacheIsRight
  OldestGoesFirst
  PingSound
  PacketAccepted
  
  AddressSound
PROPERTIES
  RequestSound
  SearchSound
CHECK_DEADLOCK FALSE
