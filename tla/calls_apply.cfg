CONSTANTS
  Runs = {r1}
  Applies = {a1, a2}
  Restores = {}
  Conns = {c1}
  Conn <- SameConn
  Settings <- OneRunTimed
  MaxStatements = 1
  MaxResults = 0
  None = None
SPECIFICATION FairSpec
INVARIANTS RegistrySound
PROPERTIES Cancellable Answered
