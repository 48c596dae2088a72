CONSTANTS
    Client = {browser}
    Local = {}
    TokenHolder = {}
    Nobody = nobody
    ChanCap = 1
SPECIFICATION FairSpec
INVARIANT
    NoPanic
