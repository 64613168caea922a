\* Overlapping claims of two installs, and a revocation at any time.
SPECIFICATION Spec
CONSTANTS
    Process = {p1, p2}
    Gateway = {g1}
    Token = {t1, t2}
    Cred = {1, 2, 3}
    ClaimSlot = {k1, k2}
    BearerSlot = {b1, b2}
    MaxFaults = 1
    None = None
SYMMETRY Symmetry
INVARIANT TypeOK
INVARIANT NoClaimAfterHeartbeat
PROPERTY RevocationHolds
