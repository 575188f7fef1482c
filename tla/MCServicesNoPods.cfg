CONSTANTS
    Name = {n1}
    App <- SameName
    Image = {i1}
    Addr = {a1}
    Thread = {t1}
    None = None
    Faults = {}
    MaxChange = 0
    MaxRelist = 0
SPECIFICATION FairSpec
CHECK_DEADLOCK FALSE
PROPERTY
    PreloadEnds
