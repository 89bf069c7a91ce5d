SPECIFICATION Spec
CONSTANTS
  j1 = j1
  j2 = j2
  r1 = r1
  r2 = r2
  Fifo = Fifo
  None = None
  Requests <- TwoRequests
  Jobs <- TwoJobs
  MaxFaults = 0
PROPERTIES RetainedForOrphans
