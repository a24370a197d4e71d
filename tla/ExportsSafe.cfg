CONSTANTS
  Account <- MCAccount
  Moderator <- MCModerator
  Mentioner <- MCModerator
  Text = {"hi", "ping"}
  Ping = {"ping"}
  Request = {q1, q2}
  Worker = {w1, w2}
  None = None
  Limit = 1
  Size = 3
  MaxCalls = 2
  Jobs = 1
  MaxCrashes = 1
SPECIFICATION FairSpec
INVARIANTS
  ViewsAgree
  ToldIsCurrent
  NothingSkipped
  ArchivesHold
PROPERTIES
  WordsAreAllowed
  JobsEnd
CHECK_DEADLOCK FALSE
