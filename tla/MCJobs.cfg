CONSTANTS
    Plan = {p1}
    Job = {j1, j2}
    NoJob = NoJob
    NoPlan = NoPlan
    MergeEvery = 2
    MaxCrash = 0
    Faults = {"callback", "command", "file"}
SPECIFICATION Spec
SYMMETRY Symmetry
VIEW View
INVARIANTS
    TypeOK
    OneMonitor
    MonitorHasJob
    MonitorNotStuck
    LiveJobHasDir
