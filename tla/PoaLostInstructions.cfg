CONSTANTS
  MaxRequests = 2
  MaxInFlight = 1
  MaxFailures = 0
  MaxRefusals = 0
  Ops <- ClientOp
  Admins = {a1}
  UpdateDtos <- KeepDtos
  NULL = NULL
SPECIFICATION Spec
PROPERTY InstructionsKept
CHECK_DEADLOCK FALSE
