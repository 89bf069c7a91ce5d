SPECIFICATION Spec
CONSTANTS
  a1 = a1
  a2 = a2
  k1 = k1
  k2 = k2
  c1 = c1
  c2 = c2
  d1 = d1
  d2 = d2
  None = None
  Apps <- TwoApps
  Keys <- TwoKeys
  Conns <- TwoConns
  Digests <- TwoDigests
  MaxOps = 2
  MaxRecords = 2
SYMMETRY Symmetry
CHECK_DEADLOCK FALSE
INVARIANTS DeployedOnce Settled CompletedServes InstalledIsRetained
PROPERTIES ImplementsRollout
