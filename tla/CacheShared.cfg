\* Three threads, two kernels, compilations that may fail or panic.  Bounded by
\* MaxCalls, so the system stops: no deadlock check.
CONSTANTS
  Threads = {t1, t2, t3}
  Descs = {k1, k2}
  None = None
  MayPanic = TRUE
  MaxCalls = 2
SPECIFICATION FairSpec

PROPERTIES CallsReturn MemoSpec
CHECK_DEADLOCK FALSE
