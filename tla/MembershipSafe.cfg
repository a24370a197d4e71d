CONSTANTS
  owner = owner
  mod1 = mod1
  mod2 = mod2
  guest = guest
  Account = {owner, mod1, mod2, guest}
  Owner = owner
  StartMembers = {owner, mod1, mod2, guest}
  StartRank <- MCStartRank
  Request = {q1, q2}
  MaxRank = 1
  MaxCalls = 3
SYMMETRY MCSymmetry
SPECIFICATION Spec
INVARIANTS
  OnlyRacedBans
  RemovalsAreHeard

  
CHECK_DEADLOCK FALSE
