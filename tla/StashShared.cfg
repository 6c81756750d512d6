\* get_cache_data and drop() from three threads.  Bounded by MaxCalls, and a
\* use after free ends a behaviour: no deadlock check.
CONSTANTS
  Threads = {t1, t2, t3}
  Objects = {o1, o2, o3, o4}
  Null = Null
  MayDrop = TRUE
  MaxCalls = 2
SPECIFICATION Spec
INVARIANTS CountsExact OneModuleData
CHECK_DEADLOCK FALSE
