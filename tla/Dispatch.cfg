\* Reads, writes and listings through a serial writeback mount of one provider.
CONSTANTS
  Threads = {t1, t2}
  Ops = {"read", "write", "list"}
  Results = {"data", "nil"}
  FailureThreshold = 2
  HalfOpenMaxCalls = 2
  Serial = TRUE
  Writeback = TRUE
  CacheTTL = TRUE
  MaxFails = 5
  None = None
SPECIFICATION FairSpec
INVARIANT FailuresOpen
INVARIANT StoredIsLast
PROPERTY OpensOnConsecutive
PROPERTY Recovers
