CONSTANTS
  Ips <- MCIps
  Ports <- MCPorts
  ZeroIp = 0
  ZeroPort = 0
  Slots <- MCSlots
  Index <- MCIndex
  Headers <- MCHeaders
  MaxPhits = 2
  SDepth = 1
  MDepth = 1
  StatMod = 1
  ByteMod = 2
  InaddrNone = InaddrNone
  NoNumber = NoNumber
  Numbers <- MCNumbers
  CommandLines <- MCCommandLines
  MaxRuns = 2
SPECIFICATION ClockedSpec
INVARIANTS
  FiltersApplied
