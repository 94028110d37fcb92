CONSTANTS
  MaxRequests = 3
  MaxInFlight = 3
  MaxFailures = 1
  MaxRefusals = 1
  Ops <- Op
  Admins = {a1}
  UpdateDtos <- PlainDtos
  NULL = NULL
SPECIFICATION Spec
INVARIANTS
  TypeOK
  AuditMissesOnlyUnlogged
PROPERTY FollowsTrail
CHECK_DEADLOCK FALSE
