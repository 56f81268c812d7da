SPECIFICATION Spec
CONSTANTS
  None = None
  Adapters = {"postgres"}
  Databases <- MCDatabases
  Queries <- MCQueries
  KeySets <- MCKeySets
  Inserted <- MCInserted
  Written = 3
  MaxChanges = 1
INVARIANT EveryEditHitsShown
CHECK_DEADLOCK FALSE
