\* A shim's own server and one of a direct connection, of one name; three callers for two places.
SPECIFICATION Spec
CONSTANTS
    Policy = {}
    Body = {good, bad}
    ShimCompiles = {good}
    Shim = {s1}
    Connection = {c1}
    Name = {n1}
    Unknown = unknown
    Exposure = {unknown, public}
    Caller = {a, b, c}
    MaxCallers = 2
    MaxVersion = 5
    MaxFaults = 0
    NoRow = NoRow
SYMMETRY Symmetry
INVARIANT CachedTablesCurrent
INVARIANT FlaggedCallersDelivered
