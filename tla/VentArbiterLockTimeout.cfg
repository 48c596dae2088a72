CONSTANTS
    Client = {display}
    Local = {display}
    TokenHolder = {}
    Nobody = nobody
    ChanCap = 1
SPECIFICATION FairSpec
PROPERTY
    LockLastsUntilTimeout
