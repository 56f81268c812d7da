SPECIFICATION Spec
CONSTANTS
  Values = {"2", "3"}
  NewKeys = {"2", "n1"}
  Null = "null"
  Opaque = "json"
  ReadsUsed = {"table", "keyless", "joined", "self", "collection", "records", "hash", "set", "list", "keys"}
  Starts <- MCStarts
  MaxChanges <- MCChanges
  MaxApplies = 1
  MaxForeign = 1
  MaxResults = 2
PROPERTIES UndoRestores AppliedAsReviewed InsertedShown
INVARIANT StagedOnShown
CHECK_DEADLOCK FALSE
