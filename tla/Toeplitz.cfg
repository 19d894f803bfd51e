CONSTANTS
  IpBits = 32
  PortBits = 16
  HashWidth = 32
  KeyBits = 320
  toeplitz_key <- ConstructorKey
  Inputs <- MCInputs
  TableSizes <- MCSizes
  Filters <- MCFilters
  Packets <- MCPackets
\* The decision on a packet is the end of a behaviour.
CHECK_DEADLOCK FALSE
SPECIFICATION WireSpec
INVARIANTS
  HashTypeOK
  LoopInvariant
  IndexInTable
  WireDecision
  HeaderRoundTrip
