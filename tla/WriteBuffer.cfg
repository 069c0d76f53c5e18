\* Two goroutines and the timers; two calls of fs.Write may fail.
CONSTANTS
  Threads = {t1, t2}
  MaxSize = 3
  FlushOnNewline = TRUE
  MaxDelay = TRUE
  MaxBytes = 4
  MaxTimers = 3
  MaxFailures = 2
SPECIFICATION FairSpec
INVARIANT BufferExact
PROPERTY DelayFlushes
CHECK_DEADLOCK FALSE
