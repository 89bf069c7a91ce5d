SPECIFICATION FairSpec
CONSTANTS
  MaxProcesses = 2
INVARIANTS OutcomeMeansStopped SuccessIsReal
PROPERTIES Ends
\* An attempt ends: the coordinator returns or raises.
CHECK_DEADLOCK FALSE
