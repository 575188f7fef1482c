CONSTANTS
    Image = {i1, i2}
    Store = {s1}
    Option = {"snapshot"}
    None = None
    MaxAgents = 1
    MaxEdits = 1
    MaxStatus = 0
    MaxFail = 0
    Patient = FALSE
SPECIFICATION FairSpec
CHECK_DEADLOCK FALSE
PROPERTY
    Converges
