SPECIFICATION FairSpec
CONSTANTS
    s1 = s1  s2 = s2  ingress = ingress  thrift = thrift
    Sample <- MCSample  Ingress <- MCIngress  Control <- MCControl
    MaxSamples <- MCMaxSamples
    Timeouts <- MCTimeouts
    IdSpace = 8  MaxId = 1  MaxResets = 1  MaxTimeouts = 1  MaxUpset = 1
INVARIANTS FilterExact MessageIsItsBuffer NothingForgotten
PROPERTIES LearnedIsSent
CHECK_DEADLOCK FALSE
