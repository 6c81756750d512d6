\* Two threads that make and drop Contexts, make two accelerators of one or two
\* targets and compile twice, in six processes.
SPECIFICATION Spec
CHECK_DEADLOCK FALSE
CONSTANTS
  Threads = {t1, t2}
  Devices <- MCDevices
  None = None
  MaxContexts = 2
  MaxAccels = 2
  MaxDrops = 1
  MaxSessions = 2
  Worlds <- MCWorlds
INVARIANTS OneContext RegistryAgrees CratesResolve UnitClosed AttributesFit StaticsPlaced
PROPERTIES SessionsEndOrStuck
