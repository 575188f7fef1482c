CONSTANTS
    Name = {n1}
    App <- SameName
    Image = {i1, i2}
    Addr = {a1}
    Thread = {t1, t2}
    None = None
    Faults = {"client", "copy", "merge"}
    MaxChange = 3
    MaxRelist = 1
SPECIFICATION FairSpec
CHECK_DEADLOCK FALSE
INVARIANTS
    TypeOK
    EveryServiceLoads
    PreloadComplete
    RegistryFollows
PROPERTIES
    DeletionNoticed
