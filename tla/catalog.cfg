SPECIFICATION Spec
CONSTANTS
  None = None
  Failed = Failed
  Unread = Unread
  Worlds <- MCWorlds
  MaxKeys = 4
  MaxAsks = 3
  MaxDefined = 4
INVARIANTS TableDescribed RelationshipsTrue FollowsTrue DrawnOnce RoutinesWhole AnswersComing
CHECK_DEADLOCK FALSE
