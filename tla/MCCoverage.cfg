CONSTANTS
    s1 = s1
    Service = {s1, s2}
    Pod = {p1, p2}
    Svc <- AllOfOne
    Unit = {u1}
    None = None
    Limit = 1
    MaxRounds = 1
    MaxChange = 1
    MaxFail = 1
SPECIFICATION FairSpec
CHECK_DEADLOCK FALSE
INVARIANTS
    TypeOK
    NoStraggler
    LimitKept
PROPERTIES
    DumpedStays
    ReportEnds
    KeepsLedger
