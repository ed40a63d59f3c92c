SPECIFICATION Spec
CONSTANTS
    t1 = t1  t2 = t2  k1 = k1  c1 = c1  c2 = c2  w1 = w1
    Table <- MCTable  Key <- MCKey  Control <- MCControl  Worker <- MCWorker
    Size = 1  CountSpace = 8  MaxMbr = 2  MaxGrp = 1  MaxExtra = 1  MaxUpset = 1
SYMMETRY MCSymmetry
INVARIANTS CountsExact NothingDangles LookupSurvives
CHECK_DEADLOCK FALSE
