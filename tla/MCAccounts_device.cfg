SPECIFICATION Spec
CONSTANTS
  Users = {u1, u2}
  Sessions = {s1, s2, s3}
  Codes = {c1}
  Requests = {r1, r2}
  Polls = {p1, p2}
  None = None
INVARIANTS
  TypeOK
  BearerSentOnce
  SessionsAccountedFor
PROPERTIES
  DecisionsAreFinal
SYMMETRY Symmetry
CHECK_DEADLOCK FALSE
