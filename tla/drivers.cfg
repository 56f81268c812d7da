CONSTANTS
  Runs = {r1}
  Applies = {a1}
  Kinds = {"read", "work", "begin", "commit", "block", "meta"}
  Edits = 2
  None = None
  Adapters = {"postgres", "mysql", "mssql", "oracle", "duckdb", "mongodb", "surrealdb", "redis", "scylla", "clickhouse"}
SPECIFICATION FairSpec
INVARIANTS AnswersTrue OwnKill
PROPERTIES LeavesUsersWrites CancelReturns
CHECK_DEADLOCK FALSE
