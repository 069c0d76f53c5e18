\* WebDAV clients, the property cache, the limiters and a reload.
CONSTANTS
  Paths <- AllPaths
  Data = {v1, v2, v3}
  Large <- TooLong
  MaxMounts = 3
  Invalid <- Refused
  v1 = v1
  v2 = v2
  v3 = v3
  None = None
  Clients = {1, 2}
  Scenarios <- AllOfThem
SPECIFICATION FairSpec
CHECK_DEADLOCK FALSE
INVARIANT AdmissionBounded
INVARIANT StaleHasReason
INVARIANT AloneExact
PROPERTY WritesWhatItSaw
PROPERTY ReloadExact
PROPERTY RequestsEnd
