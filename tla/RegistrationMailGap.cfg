CONSTANTS
  Email = {ea, eb}
  Username = {ux, uy}
  Request = {r1, r2}
  TTL = 2
  Cooldown = 1
  MaxAttempts = 2
  MaxOpen = 1
  MaxTime = 3
  MaxCodes = 2
  None = None
SPECIFICATION Spec
PROPERTIES
  MailGap
