CONSTANTS
  MaxRequests = 6
  MaxInFlight = 1
  MaxFailures = 1
  MaxRefusals = 0
  Ops <- Op
  Admins = {a1}
  UpdateDtos <- EachDto
  NULL = NULL
SPECIFICATION Spec
INVARIANTS
  DatesTellTheWay
  AuditIsAPath
PROPERTIES
  FollowsWorkflow
  CipherLostOnlyToUpdate
CHECK_DEADLOCK FALSE
