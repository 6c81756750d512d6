\* Three threads on the pool of three calls, sizes below and above the
\* alignment, an arena that does not start on it.  Every thread is always able
\* to go on or to wash the pool, so deadlock is checked.
CONSTANTS
  HostThreads = {t1, t2, t3}
  Base = 6
  Bytes <- BytesForCalls
  Align = 4
  Sizes = {3, 6}
SPECIFICATION PoolSpec
INVARIANT BlocksDisjoint
PROPERTY OutOfSpaceIsReal
