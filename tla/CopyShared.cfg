\* Three objects in groups of any size with any dependencies, and one barrier.
\* Objects and signals are bounded: no deadlock check.
CONSTANTS
  b1 = b1
  MaxCopies = 3
  MaxSignals = 3
  HostSignals <- GlobalSignals
  Barriers <- OneBarrier
  PacketDeps = 2
  Kept <- GlobalKind
  New <- DeviceKind
  KeepDeps = TRUE
  None = None
SPECIFICATION FairSpec
CHECK_DEADLOCK FALSE
INVARIANTS CountsAgree MemoryOutlivesCopy CopyImpliesDeps
PROPERTY DropsEnd
