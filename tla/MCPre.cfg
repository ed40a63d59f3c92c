SPECIFICATION PreSpec
CONSTANTS
  NoGroup = NoGroup
  Handles = {0, 1, 2}
  Mgids = {1, 2}
  Lags = {0}
  MgidTableSize = 2
INVARIANTS
  DeathByLagOnly
PROPERTIES
  ImplementsMembership
CHECK_DEADLOCK FALSE
