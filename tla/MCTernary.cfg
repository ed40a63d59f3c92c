SPECIFICATION AgeingSpec
CONSTANTS
    d1 = d1  d2 = d2
    Data <- MCData  Key <- MCKey
    Size = 2  IntMax = 3  HandleVersions = 2  CacheMin = 2  CacheSize = 1  MaxAdds = 2
INVARIANTS LookupExact
CHECK_DEADLOCK FALSE
