SPECIFICATION Spec
CONSTANTS
  None = None
  Adapters = {"postgres", "mysql", "sqlite", "mssql", "oracle", "duckdb", "scylla"}
  Databases <- MCDatabases
  Queries <- MCQueries
  KeySets <- MCKeySets
  Inserted <- MCInserted
  Written = 3
  MaxChanges = 2
INVARIANTS EditHitsShown FoundByKey
CHECK_DEADLOCK FALSE
