CONSTANTS
    NumDamper = 1
    PosMod = 7
    OpenPos = {1, 2}
    DefaultPos = 2
    Installs = {{}, {0}}
    LaminaDamper = 0
    MinTurn = 3
    MaxTurn = 4
    MaxFaults = 2
SPECIFICATION FairSpec
INVARIANTS
    TypeOK
    CounterTracksBlade
    NoFalseAlarm
PROPERTIES
    MotorsStop
    FanEndsRight
    TimeoutReported
