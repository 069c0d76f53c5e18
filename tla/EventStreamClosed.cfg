\* An emit has copied a listener that the reader then unregisters and closes.
CONSTANTS
  Emitters = {t1, t2}
  SubIDs = {s1}
  EventPaths = {p, q}
  Filters <- Prefixes
  p = p
  q = q
  ChanCap = 1
  MaxIds = 2
  MaxEvents = 2
SPECIFICATION EventsSpec
INVARIANT NoSendAfterUnsubscribe
CHECK_DEADLOCK FALSE
