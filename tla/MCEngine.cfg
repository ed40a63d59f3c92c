SPECIFICATION EngineFairSpec
CONSTANTS
  Ports = {0, 1, 2}
  NbEgressThreads = 2
  InputCapacity = 1
  EgressCapacity = 1
  OutputCapacity = 1
  Clients = {"c1", "c2"}
  MaxReceived = 2
  MaxCopies = 1
  MaxConfigs = 2
INVARIANTS
  OneConfig
  AskedIsRunning
PROPERTIES
  SwapHappens
  EveryPacketEnds
CHECK_DEADLOCK FALSE
