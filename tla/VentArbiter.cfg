CONSTANTS
    Client = {display, browser}
    Local = {display}
    TokenHolder = {}
    Nobody = nobody
    ChanCap = 1
SPECIFICATION FairSpec
INVARIANTS
    TypeOK
    FanNeedsOpenDamper
    AtMostTwoDampersWithFan
    LockHasTimer
PROPERTIES
    LocksExpire
    LaserVentilationHeld
    LaserKeepsOlgaThrottled
    OlgaVentilationHeld
