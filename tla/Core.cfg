CONSTANTS
  Ips <- MCIps
  Ports <- MCOnePort
  ZeroIp = 0
  ZeroPort = 0
  Slots = {0, 1}
  Index <- MCIndexOnePort
  Headers <- MCTwoHeaders
  MaxPhits = 2
  SDepth = 2
  MDepth = 1
  StatMod = 2
SPECIFICATION FairSpec
INVARIANTS
  TypeOK
  Framing
  OwnHeader
  ForwardedAreUdp
  StatsBalanced
PROPERTIES
  BackpressureEnds
  StatsCatchUp
