CONSTANTS
    t1 = t1
    t2 = t2
    a1 = a1
    a2 = a2
    NoOne = NoOne
    Task <- MCOneTask
    Acct <- MCAcct
    MaxCalls = 2
    MaxFaults = 1
SPECIFICATION FairSpec
INVARIANTS TypeOK MessageIsTrue
PROPERTIES NeverGoesBack ListCatchesUp DetailsCatchUp
CHECK_DEADLOCK FALSE
