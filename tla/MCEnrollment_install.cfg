\* Two installs that crash and lose replies, one claim at a time.
SPECIFICATION FairSpec
CONSTANTS
    Process = {p1, p2}
    Gateway = {g1}
    Token = {t1, t2}
    Cred = {1, 2, 3}
    ClaimSlot = {k1}
    BearerSlot = {b1}
    MaxFaults = 1
    None = None
INVARIANT OneLiveCredential
PROPERTY InstallCompletes
 
