CONSTANTS
    Plan = {p1, p2}
    Job = {j1, j2}
    NoJob = NoJob
    NoPlan = NoPlan
    MergeEvery = 1
    MaxCrash = 0
    Faults = {}
SPECIFICATION Spec
SYMMETRY Symmetry
VIEW View
CONSTRAINTS
    NotStale
    OnePlanEnds
INVARIANTS
    OneLiveJob
