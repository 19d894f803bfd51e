CONSTANTS
  Main = main
  Workers = {w}
  Signals = {SIGINT, SIGTERM}
  Packets <- MCPackets
  SizeMod = 65536
  LogBufSize = 4096
  Prefix = 160
SPECIFICATION ServerFairSpec
CHECK_DEADLOCK FALSE
INVARIANTS
  ServerTypeOK
  LocksExclusive
  WaitHonoured
  StopNotLost
  PayloadInside
  LineFits
PROPERTIES
  SignalEnds
