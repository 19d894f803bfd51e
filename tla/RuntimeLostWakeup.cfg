SPECIFICATION RuntimeFairSpec
CONSTANTS
  PortNum = 1
  NumThreads = 1
  BurstSize = 1
PROPERTIES
  ConstructorReturns
\* The server exits, or stops in log_fatal or a crash.
CHECK_DEADLOCK FALSE
