\* A SINGLE queue, which one thread uses at a time, and a MULTI queue that
\* two threads share.  The run is
\* bounded by MaxIndex, so the system stops: no deadlock check.
CONSTANTS
  Producers = {p1, p2}
  Size = 2
  Queues <- CreatedQueues
  s1 = s1
  s2 = s2
  NoSignal = NoSignal
  Signals <- TheSignals
  Requests <- PlainRequests
  MaxIndex = 4
SPECIFICATION FairSpec
INVARIANTS SlotExclusive InOrderOnce
PROPERTIES TakenUnlessGap StreamSpec
CHECK_DEADLOCK FALSE
