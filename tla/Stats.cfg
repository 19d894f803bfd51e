CONSTANTS
  Ips <- MCOne
  Ports <- MCOne
  ZeroIp = 0
  ZeroPort = 0
  Slots = {0}
  Index <- MCIndex
  Headers <- MCHeaders
  MaxPhits = 1
  SDepth = 1
  MDepth = 1
  StatMod = 9
  Half = 3
  MaxPackets = 4
  RxLost = 1
SPECIFICATION StatsFairSpec
INVARIANTS
  ReadExact
  NothingUnaccounted
  SilentOnlyIfIdle
PROPERTIES
  QuietReportsExact
