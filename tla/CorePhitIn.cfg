CONSTANTS
  Ips <- MCIps
  Ports <- MCOnePort
  ZeroIp = 0
  ZeroPort = 0
  Slots = {0, 1}
  Index <- MCIndexOnePort
  Headers <- MCTwoHeaders
  MaxPhits = 2
  SDepth = 1
  MDepth = 1
  StatMod = 4
SPECIFICATION Spec
PROPERTIES
  PhitInCountsPhits
