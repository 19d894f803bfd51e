SPECIFICATION RuntimeFairSpec
CONSTANTS
  PortNum = 2
  NumThreads = 1
  BurstSize = 1
PROPERTIES
  ShutdownCompletes
\* The server exits, or stops in log_fatal or a crash.
CHECK_DEADLOCK FALSE
