SPECIFICATION Spec
CONSTANTS
  Dialects = {"sqlite","postgres","mysql","duckdb","oracle","clickhouse","scylla","surrealdb","mssql","mongodb","redis"}
  MaxBlocks = 4
  MaxLines = 2
  MaxStatements = 1
  Misread = {"bs'", "$$", "$b$", "q'[", "//"}
INVARIANTS SplitsRight  ParametersFound
CHECK_DEADLOCK FALSE
