SPECIFICATION CBSpec
CONSTANTS
  CBufferSize = 5
  Addresses = {a1, a2}
  NoAddress = NoAddress
INVARIANTS
  CountMatches
  HeadIsOldest
PROPERTIES
  ImplementsFutureDestinations
