SPECIFICATION FairSpec
CONSTANTS
  h1Ip = h1Ip
  h2Ip = h2Ip
  s1Ip = s1Ip
  strangerIp = strangerIp
  NoAddress = NoAddress
  NPorts = 2
  FdLength = 2
  AhLength = 2
  NHosts = 2
  MaxPorts = 3
  Hosts <- TheHosts
  Digit <- TheDigit
  Distances <- TheDistances
  QTimes = {0, 6000, 18000}
  IsBackbone = TRUE
  Neighbor <- SpineNeighbor
  Addresses = {h1Ip, h2Ip}
  NodeOf <- HostsOnly
  Listed <- SomeListed
  NumRequests = 3
  SwitchMayGo = FALSE
INVARIANTS
  NeverBothWait
  DecidesOnWaitingPacket
  RewardOfItsAction
  RewardInRange
PROPERTIES
  RequestAnswered
