\* One organisation more than a tick takes, the first of which fails.
SPECIFICATION FairTicksSpec
CONSTANTS
    Replica = {r1, r2}
    Slot = {c1, c2}
    Org = {1, 2, 3}
    Broken = {1}
    MaxOrgs = 2
    MaxEdits = 1
    MaxFailures = 1
    None = None
INVARIANT TicksTypeOK
INVARIANT OverlapOnlyIfSessionEnded
PROPERTY EveryOrgSwept
