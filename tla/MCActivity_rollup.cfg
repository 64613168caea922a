\* Two replicas, reports that come early or late, three days.
SPECIFICATION Spec
CONSTANTS
    Invocations = {i1, i2}
    Callers = {c1}
    Replicas = {r1, r2}
    Sweepers = {s1}
    MaxTime = 4
    DayLength = 2
    Buffer = 1
    BackfillDays = 2
    MaxFaults = 1
    None = None
SYMMETRY Symmetry
INVARIANT TypeOK
INVARIANT UncountedCameLate
INVARIANT GapsAreExplained
PROPERTY RowsNeverShrink
CHECK_DEADLOCK FALSE
