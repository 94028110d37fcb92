CONSTANTS
  MaxRequests = 6
  MaxInFlight = 2
  MaxFailures = 1
  MaxRefusals = 0
  Ops <- StageOps
  Admins = {a1}
  UpdateDtos <- PlainDtos
  NULL = NULL
SPECIFICATION Spec
INVARIANTS
  StageOrder
  DatesAreEvidence
  AuditIsSound
CHECK_DEADLOCK FALSE
