\* Two discoveries and the callbacks of two authorizations of one connection, with and without rotation.
SPECIFICATION FairSpec
CONSTANTS
    Discoveries = {d1, d2}
    Callbacks = {k1}
    MaxStarts = 2
    Lists = 1
    MaxTokens = 2
    MaxFaults = 1
INVARIANT TypeOK
INVARIANT AuthorizedCanRefresh
PROPERTY PendingIsResolved
CHECK_DEADLOCK FALSE
