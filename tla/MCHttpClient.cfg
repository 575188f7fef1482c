CONSTANTS
    Lookup = {l1}
    Addr = {a1, a2}
    NoAddr = NoAddr
    MaxRefresh = 1
    Call <- Calls
    Chunks = 2
SPECIFICATION FairSpec
INVARIANTS
    TypeOK
    DnsFresh
    RetriedWhole
    StoredIfOk
    NoPanicByDefault
PROPERTY
    RequestEnds
