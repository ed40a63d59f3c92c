SPECIFICATION Spec
CONSTANTS
  a1 = 1
  a2 = 5
  s1 = s1
  s2 = s2
  NoAddress = 0
  NullHost = NullHost
  Unknown = Unknown
  NoRequest = NoRequest
  Addresses = {1, 5}
  Nodes = {s1, s2}
  Self = s1
  Ports = {1, 2}
  NbEgressThreads = 2
  CBufferSize = 2
  UpdateFrequency = 2
  RwsSize = 4
  AddressSpace = 8
  NumPackets = 4
  InputCapacity = 2
  EgressCapacity = 2
  Times = {1}
  OutputCapacity = 1
  Headers <- Traffic
  Routes <- NoRoutes
  PeerStates = {"absent"}
  PeerMayListen = FALSE
  PeerMayClose = FALSE
INVARIANTS
  NoPortNoForward
