CONSTANTS
    Plan = {p1}
    Job = {j1}
    NoJob = NoJob
    NoPlan = NoPlan
    MergeEvery = 2
    MaxCrash = 1
    Faults = {"command"}
SPECIFICATION FairSpec
CHECK_DEADLOCK FALSE
PROPERTIES
    PlanProgresses
    CancelledMonitorEnds
