SPECIFICATION FairSpec
CONSTANTS
  r1 = r1
  r2 = r2
  None = None
  Requests <- TwoRequests
  Reservation = 5
  MaxBytes = 8
  MaxFaults = 2
INVARIANTS ChargesCover CreditsExact EvidenceKept
PROPERTIES PruningCompletes
\* Requests, once pruned, are never reused.
CHECK_DEADLOCK FALSE
