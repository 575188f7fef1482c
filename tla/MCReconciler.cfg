CONSTANTS
    Image = {i1, i2}
    Store = {s1}
    Option = {"snapshot"}
    None = None
    MaxAgents = 2
    MaxEdits = 1
    MaxStatus = 0
    MaxFail = 1
    Patient = FALSE
SPECIFICATION Spec
CHECK_DEADLOCK FALSE
SYMMETRY Symmetry
INVARIANTS
    TypeOK
    StsHasRbac
PROPERTY
    NoLostEdit
