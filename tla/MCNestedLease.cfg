SPECIFICATION FairSpec
CONSTANTS
  j1 = j1
  j2 = j2
  r1 = r1
  r2 = r2
  Fifo = Fifo
  None = None
  Requests <- TwoRequests
  Jobs <- OneJob
  MaxFaults = 1
INVARIANTS CapacityHeld
PROPERTIES BuiltOnItsLoan NestedResolves
