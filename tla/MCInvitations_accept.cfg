SPECIFICATION Spec
CONSTANTS
  Users = {u1, u2, u3}
  Orgs = {o1}
  Invites = {i1, i2}
  Requests = {r1, r2}
  Roles = {"admin", "member"}
  None = None
INVARIANTS
  TypeOK
  MembersWereInvited
  AcceptedIsMember
  CreatorStaysOwner
  ActiveOrgIsMine
SYMMETRY Symmetry
CHECK_DEADLOCK FALSE
