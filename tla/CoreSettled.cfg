CONSTANTS
  Ips <- MCIps
  Ports <- MCOnePort
  ZeroIp = 0
  ZeroPort = 0
  Slots = {0, 1}
  Index <- MCIndexOnePort
  Headers <- MCHeaders
  MaxPhits = 3
  SDepth = 2
  MDepth = 1
  StatMod = 1
SPECIFICATION SettledFairSpec
INVARIANTS
  WholeFrames
  GateOk
PROPERTIES
  ImplementsFrameGate
