\* A goroutine emits two events to a client with two subscriptions, which it replaces
\* and cancels, and which goes away.
CONSTANTS
  Emitters = {t1}
  SubIDs = {s1, s2}
  EventPaths = {p, q}
  Filters <- Prefixes
  p = p
  q = q
  ChanCap = 1
  MaxIds = 2
  MaxEvents = 2
SPECIFICATION FairEventsSpec
INVARIANT NothingLeaks
INVARIANT Delivery
PROPERTY GoroutinesEnd
CHECK_DEADLOCK FALSE
