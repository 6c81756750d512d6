\* Two vectors, one Arc, two threads, two devices that may go.
CONSTANTS
  d1 = d1
  d2 = d2
  v1 = v1
  v2 = v2
  a1 = a1
  t1 = t1
  t2 = t2
  Devices <- TwoDevices
  Vecs <- TwoVecs
  Arcs <- OneArc
  Threads <- TwoThreads
  Classes <- ThreeClasses
SPECIFICATION LapSpec
CHECK_DEADLOCK FALSE
INVARIANTS BitsMatchGrants AccessKept
