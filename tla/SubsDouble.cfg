CONSTANTS
  Handlers = {h1, h2}
  Creator = creator
  MaxRequests = 2
  MaxEvents = 1
  MaxRedeliveries = 0
  MaxFailures = 0
  Ordered = FALSE
  InitialPaymentTypes = {"single"}
  TotalInstallments = 3
SPECIFICATION Spec
INVARIANT CreatedOnce
SYMMETRY AnyHandler
CHECK_DEADLOCK FALSE
