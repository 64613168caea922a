SPECIFICATION PlatformSpec
CONSTANTS
  Users = {u1, u2, u3}
  Seeds = {u1}
  Calls = {r1, r2}
  None = None
INVARIANTS
  PlatformTypeOK
PROPERTIES
  LastAdminLostOnlyByOverlap
  DemotionLasts
SYMMETRY Symmetry
CHECK_DEADLOCK FALSE
