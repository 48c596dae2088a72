CONSTANTS
    NumDamper = 2
    PosMod = 6
    OpenPos = {1}
    DefaultPos = 1
    Installs = {{0, 1}}
    LaminaDamper = 1
    MinTurn = 3
    MaxTurn = 3
    MaxFaults = 0
SPECIFICATION Spec
INVARIANTS
    LaminaNeedsFan
PROPERTIES
    FanWhenSettled
