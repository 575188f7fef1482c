CONSTANTS
    Image = {i1, i2}
    Store = {s1}
    Option = {"snapshot"}
    None = None
    MaxAgents = 1
    MaxEdits = 1
    MaxStatus = 1
    MaxFail = 0
    Patient = TRUE
SPECIFICATION FairSpec
CHECK_DEADLOCK FALSE
PROPERTIES
    Converges
    DeletedIsCleaned
