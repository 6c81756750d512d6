\* One thread that meets a full ring once: the abandoned index wedges the queue.
CONSTANTS
  Producers = {p1}
  Size = 2
  Queues <- KernelMultiQueue
  s1 = s1
  s2 = s2
  NoSignal = NoSignal
  Signals <- TheSignals
  Requests <- OneRequest
  MaxIndex = 5
SPECIFICATION FairSpec
CHECK_DEADLOCK FALSE
PROPERTY AcceptedIsTaken
