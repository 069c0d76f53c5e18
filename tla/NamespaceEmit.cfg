\* A subscriber that calls back, and a skill that shows its SKILL.md at the root.
CONSTANTS
  Patterns <- AllPaths
  Params = {":x", ":y"}
  Requests <- Lookups
  Clients = {c1}
  c1 = c1
  Scenarios <- OnlyCallback
  None = None
SPECIFICATION FairSpec
PROPERTY CallsReturn
