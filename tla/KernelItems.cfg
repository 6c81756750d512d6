\* Ranges of one to three axes at and around the limits of a 4-bit machine, and
\* workgroups of up to four items that use their LDS three times; kernels of
\* two items that update a signal of three bits.
SPECIFICATION SignalsSpec
CHECK_DEADLOCK FALSE
CONSTANTS
  Max32 = 15
  Max16 = 7
  MaxValue = 3
  BitAnd <- WordAnd
  BitOr <- WordOr
  BitXor <- WordXor
  DepsOf <- DepsIn
  None = None
  IsaInfo <- MCIsa
  Launches <- MCLaunches
INVARIANTS PointsOnce IdsDistinct ReadsLive BarriersMatch AnswersTrue ArgumentsReady
PROPERTIES NoClobber WaitsEnd
