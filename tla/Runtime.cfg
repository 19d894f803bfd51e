SPECIFICATION RuntimeFairSpec
CONSTANTS
  PortNum = 2
  NumThreads = 4
  BurstSize = 2
INVARIANTS
  RuntimeTypeOK
  NeverCallsNull
  DrainedBeforeStop
  MmioWhileUp
  QueueOwnership
PROPERTIES
  ShutdownCompletes
  RegisteredStarts
\* The server exits, or stops in log_fatal or a crash.
CHECK_DEADLOCK FALSE
