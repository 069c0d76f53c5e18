\* Routing, renames and restores; skills at the root and streams.
CONSTANTS
  Patterns <- AllPaths
  Params = {":x", ":y"}
  Requests <- Lookups
  Clients = {c1}
  c1 = c1
  Scenarios <- Both
  None = None
SPECIFICATION FairSpec
INVARIANT TrieSound
INVARIANT MatchBest
PROPERTY FailedRenameKeeps
PROPERTY RestoreExact
PROPERTY CallsReturn
