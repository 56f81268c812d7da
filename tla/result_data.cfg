CONSTANTS
  Nothing = Nothing
  None = None
  Declined = Declined
  Failed = Failed
  BatchRows = 2
  MaxRows = 3
  SharedAt = {2}
  Dialects = {"postgres", "mysql", "scylla"}
  Worlds <- MCWorlds
  Views <- MCViews
  Groups <- MCGroups
  Windows <- MCWindows
SPECIFICATION DataSpec
CHECK_DEADLOCK FALSE
INVARIANTS CellsKept ViewIsQuery CellFindsItsRow GroupsExact OutputExact
