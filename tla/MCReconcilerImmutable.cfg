CONSTANTS
    Image = {i1}
    Store = {s1, s2}
    Option = {"snapshot"}
    None = None
    MaxAgents = 1
    MaxEdits = 1
    MaxStatus = 0
    MaxFail = 0
    Patient = TRUE
SPECIFICATION FairSpec
CHECK_DEADLOCK FALSE
PROPERTY
    Converges
