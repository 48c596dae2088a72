CONSTANTS
    N = 2
    Damper = {"d0", "d1", "d2"}
    Owner <- Deployed
    MaxCmd = 2
    BufLen = 2
    MaxFaults = 2
    InjectAt = {1, 2}
    InjectDst = {0, 1, 2}
SPECIFICATION Spec
INVARIANTS
    ReachIsHonest
    FanGate
PROPERTIES
    InterlockSpec
CHECK_DEADLOCK FALSE
