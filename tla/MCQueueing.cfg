SPECIFICATION FairSpec
CONSTANTS
    q1 = q1  q2 = q2  w1 = w1
    Queue <- MCQueue  Worker <- MCWorker  MapToWorker <- MCMap
    NbPriorities = 2  Capacity = 2
    Capacities <- MCCapacities  Delays <- MCDelays
    MaxTime = 2  MaxPushes = 3  MaxBack = 1  MaxSettings = 1
INVARIANTS SizesExact FifoUnlessTie
PROPERTIES AllServed
CHECK_DEADLOCK FALSE
