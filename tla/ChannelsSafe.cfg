CONSTANTS
  cx = cx
  cy = cy
  tx = tx
  ty = ty
  owner = owner
  manager = manager
  everyone = everyone
  staff = staff
  Top = {cx, cy}
  Thread = {tx, ty}
  ParentOf <- MCParentOf
  Server = server
  Account = {owner, manager}
  Owner = owner
  Role = {everyone, staff}
  Everyone = everyone
  RolesOf <- MCRolesOf
  AdminRoles = {}
  Managers = {owner, manager}
  Request = {q1, q2}
  Connections = 2
  MaxChannels = 2
  Existing = {cx, tx}
  Reader = {manager}
  MaxLists = 1
  MaxCalls = 3
  None = None
SPECIFICATION FairListSpec
INVARIANTS
  ListsAreTruthful
  OrderIsWhole
PROPERTIES
  RemovalIsAtomic
  TombstonesTell
  RequestsEnd
CHECK_DEADLOCK FALSE
