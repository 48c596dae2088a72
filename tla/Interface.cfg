CONSTANTS
    Client = {c1}
    Vent = {v0, v1}
    Lock = {l1}
    Start = v0
    None = none
    Cap = 1
    MaxReq = 2
SPECIFICATION FairSpec
INVARIANTS
    TypeOK
    WedgeTakesBurst
PROPERTIES
    EventuallyTold
    EventuallySent
CHECK_DEADLOCK FALSE
