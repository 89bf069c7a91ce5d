SPECIFICATION Spec
CONSTANTS
  r1 = r1
  r2 = r2
  r3 = r3
  o1 = o1
  d1 = d1
  w1 = w1
  w2 = w2
  t1 = t1
  t2 = t2
  t3 = t3
  None = None
  Requests <- ThreeRequests
  Nested <- OneNested
  Owners <- OneOwner
  Digests <- OneDigest
  Workers <- TwoWorkers
  Tokens <- ThreeTokens
  MaxOperations = 2
  MaxQueueLength = 2
  QueueTTL = 1
  MaxTime = 2
SYMMETRY PairSymmetry
INVARIANTS LedgerValid SlotExclusive OneBuildAtATime NoOvertaking
PROPERTIES InterruptedOnlyUncertain ImplementsLifecycle
