\* Three jobs that may depend on each other and be called again, a pool of three
\* blocks, rings of two slots.  Calls are bounded: no deadlock check.
CONSTANTS
  j1 = j1
  j2 = j2
  j3 = j3
  q1 = q1
  q2 = q2
  Jobs <- ThreeJobs
  HostVisible <- GlobalSignals
  Queues <- TwoQueues
  Placements <- TwoPlacements
  Size = 2
  PacketDeps = 2
  Blocks = 3
  MaxCalls = 4
  None = None
SPECIFICATION FairSpec
CHECK_DEADLOCK FALSE
INVARIANTS RunsAfterDeps ArgsOutliveKernel DepsOutliveBarrier
PROPERTIES LaunchedEnds DropEnds
