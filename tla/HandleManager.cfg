\* Three goroutines compete for two handles while Shutdown runs.
CONSTANTS
  Threads = {t1, t2, t3}
  Max = 2
  Shards = 2
  MaxIds = 4
SPECIFICATION Spec
INVARIANT BudgetExact
INVARIANT CloseExact
CHECK_DEADLOCK FALSE
