CONSTANTS
  Runs = {r1}
  Applies = {}
  Restores = {s1}
  Conns = {c1}
  Conn <- SameConn
  Settings <- OneOrTwoRuns
  MaxStatements = 2
  MaxResults = 2
  None = None
SPECIFICATION Spec
INVARIANTS EventsTrue
PROPERTY KeepsLatestRuns
