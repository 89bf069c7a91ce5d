SPECIFICATION RunSpec
CONSTANTS
  r1 = r1
  r2 = r2
  o1 = o1
  d1 = d1
  w1 = w1
  w2 = w2
  t1 = t1
  t2 = t2
  None = None
  Requests <- TwoRequests
  Nested <- OneNested
  Owners <- OneOwner
  Digests <- OneDigest
  Workers <- TwoWorkers
  Tokens <- TwoTokens
  MaxOperations = 2
  MaxQueueLength = 2
  QueueTTL = 1
  MaxTime = 1
INVARIANTS PromisesKept ReceiptTrue
PROPERTIES NeverReplayed CancelledBuildEnds
