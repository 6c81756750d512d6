\* compile and compile_async of two functions from two hosts.  Bounded by
\* MaxOps and Jobs, and the pool may get stuck: no deadlock check.
CONSTANTS
  Hosts = {h1, h2}
  Jobs = {j1, j2}
  Workers = {w1, w2}
  Funcs = {f1, f2}
  Accels = {a1}
  Params = {v1, v2}
  None = None
  MaxOps = 2
SPECIFICATION FairSpec
PROPERTIES ModuleCreatedOnce CompileReturnsOrDeadlock
CHECK_DEADLOCK FALSE
