CONSTANTS
  moderator = moderator
  everyone = everyone
  mods = mods
  New = {r1, r2, r3}
  manage = manage
  Account = {owner, moderator}
  Owner = owner
  Role = {everyone, mods, r1, r2, r3}
  Everyone = everyone
  Bit = {admin, manage, foreign}
  Known = {admin, manage}
  Admin = admin
  ManageRoles = manage
  Request = {q1, q2}
  Null = null
  MaxRoles = 3
  StartPerms <- MCStartPerms
  StartPosition <- MCStartPosition
  StartAssigned <- MCStartAssigned
  MaxCalls = 3
SPECIFICATION Spec
INVARIANTS
  NoEscalation
  OverrunBounded
PROPERTIES
  AuthorityHolds
SYMMETRY MCSymmetry
CHECK_DEADLOCK FALSE
