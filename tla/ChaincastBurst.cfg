CONSTANTS
    N = 3
    Damper = {"d0", "d1", "d2"}
    Owner <- OneEach
    MaxCmd = 4
    BufLen = 3
    MaxFaults = 0
    InjectAt = {1, 3}
    InjectDst = {1}
SPECIFICATION FairSpec
INVARIANTS
    TypeOK
    OneCopy
    HeardAtRest
    AgreementAtRest
PROPERTIES
    EventuallyAgreed
CHECK_DEADLOCK FALSE
