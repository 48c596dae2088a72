CONSTANTS
    N = 4
    MaxId = 4
    ListLen = 3
    MaxKeys = 3
    MaxFaults = 2
SPECIFICATION Spec
INVARIANTS
    TypeOK
    OneFirst
    LossTakesTwo
CHECK_DEADLOCK FALSE
