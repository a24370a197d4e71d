CONSTANTS
  alice = alice
  cy = cy
  sx = sx
  sy = sy
  Account = {alice}
  Conn = {h1, h2}
  Channel = {cx, cy}
  Server = {sx, sy}
  Request = {rx}
  Owner <- MCOwner
  ServerOf <- MCServerOf
  Target <- MCTarget
  Scope <- MCScope
  Restrictable = {}
  ManyTabs = FALSE
  NoConn = NoConn
  NoChannel = NoChannel
SPECIFICATION Spec
CHECK_DEADLOCK FALSE
INVARIANTS
  EvictedOutOfCalls
