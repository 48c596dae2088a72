CONSTANTS
    Client = {display}
    Local = {display}
    TokenHolder = {}
    Nobody = nobody
    ChanCap = 2
    Want <- MCWant
    MaxMsg = 3
SPECIFICATION FairSpec
INVARIANTS
    TypeOK
    OncePerDeparture
PROPERTIES
    EventuallyOff
    ArbiterSpec
