\* The inode table of FUSE under concurrent requests and events.
CONSTANTS
  Paths <- AllPaths
  Data = {v1}
  Large = {}
  MaxMounts = 3
  Invalid = {}
  v1 = v1
  None = None
  Threads = {1, 2}
  Start <- Mounts
  Ops <- AllOps
  InodeCap = 1
  MaxRequests = 4
SPECIFICATION FuseSpec
CHECK_DEADLOCK FALSE
INVARIANT LruExact
INVARIANT InodesAgree
PROPERTY StableInodes
PROPERTY FailedMakeLeavesNothing
