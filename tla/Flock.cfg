\* Two handles of a path that is unmounted once, or one of which two goroutines use.
CONSTANTS
  h1 = h1
  h2 = h2
  t1 = t1
  t2 = t2
  t3 = t3
  Handles = {h1, h2}
  Threads = {t1, t2, t3}
  HandleOf <- SharedHandle
  MaxPurges = 1
  None = None
SPECIFICATION MCSpec
INVARIANT TableExclusion
INVARIANT LockExclusion
INVARIANT ViewMatchesTable
INVARIANT ClosedHoldsNothing
INVARIANT NoStrandedWaiter
PROPERTY FlockReturns
