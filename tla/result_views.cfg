CONSTANTS
  r1 = r1
  r2 = r2
  Results = {r1, r2}
  All = all
  Filters = {f}
  Groupings = {g}
  MaxViews <- TwoAndOne
  Scripted = TRUE
  NoSpec = NoSpec
SPECIFICATION FairSpec
INVARIANTS GridTrue SpecShown
PROPERTIES NewestWins NotStuck
