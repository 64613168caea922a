\* Two policies, a body the shim cannot compile, a denylist, restarts and failed heartbeats.
SPECIFICATION FairSpec
CONSTANTS
    Policy = {p1, p2}
    Body = {good, bad}
    ShimCompiles = {good}
    Shim = {s1}
    Connection = {}
    Name = {n1}
    Unknown = unknown
    Exposure = {unknown}
    Caller = {}
    MaxCallers = 0
    MaxVersion = 4
    MaxFaults = 2
    NoRow = NoRow
INVARIANT TypeOK
INVARIANT CurrentVersionMeansCurrentPolicies
PROPERTY DeliversSnapshots
PROPERTY ShimConverges
