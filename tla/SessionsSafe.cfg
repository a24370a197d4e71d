CONSTANTS
  Session = {s1, s2, s3}
  Request = {q1, q2}
  Nobody = nobody
  Cap = 2
  Threshold = 2
  LockPeriod = 2
  Idle = 2
  Lifetime = 3
  Tolerance = 0
  MaxTime = 4
  MaxCalls = 6
SPECIFICATION Spec
INVARIANTS
  SessionCap
  GuessesAreFew
PROPERTIES
  DeadStaysDead
  
SYMMETRY MCSymmetry
CHECK_DEADLOCK FALSE
