CONSTANTS
  Party = {ann, ben}
  Request = {q1, q2}
  Nobody = nobody
  MaxCalls = 6
SPECIFICATION FairSpec
INVARIANTS
  FriendshipIsMutual
  OneDm
  OnlyRacedFriends
  BlocksAreSilent
PROPERTIES
  OnlyRacedWords
  RequestsEnd
CHECK_DEADLOCK FALSE
