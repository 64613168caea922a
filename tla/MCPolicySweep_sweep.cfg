\* A sweeper and a backfill on two rows, in batches of one; policies that
\* match nothing, one row or both, and no room for two matches in an insert.
SPECIFICATION FairSpec
CONSTANTS
    i1 = i1
    i2 = i2
    Invocation <- Invocations
    Body <- Bodies
    MaxTime = 2
    Policy = {p1, p2}
    Sweeper = {s1}
    Fill = {f1}
    BatchSize = 1
    FillSize = 2
    MaxRows = 1
    MaxChanges = 2
    MaxFaults = 1
CHECK_DEADLOCK FALSE
INVARIANT TypeOK
INVARIANT MissedOnlyIfExcused
PROPERTY SweepGetsPast
