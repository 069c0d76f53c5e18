\* Listings, reads and mounts around a slow service that retries and calls back.
CONSTANTS
  Paths <- AllPaths
  Data = {}
  Large = {}
  MaxMounts = 2
  Invalid = {}
  None = None
  Threads = {1, 2}
  dir <- d
  Start <- Mounts
  New <- Blob
  Ops <- AllOps
  CallsBack = {"list"}
  HasDeadline = TRUE
  RetryCount = 2
  RetryBase = 2
  MaxRequests = 3
  MaxVersion = 1
SPECIFICATION FairSpec
CHECK_DEADLOCK FALSE
INVARIANT StaleByOverlap
INVARIANT ListingOfOneTree
PROPERTY BackoffGrows
PROPERTY CallsReturn
