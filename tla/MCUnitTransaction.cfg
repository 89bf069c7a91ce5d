SPECIFICATION Spec
CONSTANTS
  timer = timer
  job = job
  socket = socket
  server = server
  None = None
  Units <- AllUnits
  Groups <- AllGroups
  Triggers <- AllTriggers
  MaxOps = 2
INVARIANTS QuiescentUnlessNewTimer
PROPERTIES JobsLeftAlone NothingUndoneRuns ImplementsGroups
