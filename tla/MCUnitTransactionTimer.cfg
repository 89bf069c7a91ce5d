SPECIFICATION Spec
CONSTANTS
  timer = timer
  job = job
  socket = socket
  server = server
  None = None
  Units <- ExporterUnits
  Groups <- ExporterGroups
  Triggers <- ExporterTriggers
  MaxOps = 1
INVARIANTS RestoredQuiescent
