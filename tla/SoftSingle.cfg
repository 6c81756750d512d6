\* One agent feeds the queue.  Bounded by MaxIndex, and the application may
\* stop calling process(): no deadlock check.
CONSTANTS
  Producers = {p1}
  Size = 2
  Queues <- SoftQueues
  s1 = s1
  s2 = s2
  NoSignal = NoSignal
  Signals <- TheSignals
  Requests <- AgentRequests
  MaxIndex = 4
SPECIFICATION SoftFairSpec
INVARIANT ProcessedAsAsked
PROPERTY ProcessedWhileServing
CHECK_DEADLOCK FALSE
