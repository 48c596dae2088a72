CONSTANTS
    NumDamper = 2
    PosMod = 8
    OpenPos = {3}
    DefaultPos = 3
    Installs = {{0}}
    LaminaDamper = 1
    MinTurn = 4
    MaxTurn = 5
    MaxFaults = 0
SPECIFICATION FairSpec
PROPERTIES
    FanStaysOffWhenClosed
