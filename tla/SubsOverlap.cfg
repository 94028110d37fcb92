CONSTANTS
  Handlers = {h1, h2}
  Creator = creator
  MaxRequests = 2
  MaxEvents = 2
  MaxRedeliveries = 1
  MaxFailures = 0
  Ordered = FALSE
  InitialPaymentTypes = {"single", "installments"}
  TotalInstallments = 3
SPECIFICATION Spec
INVARIANTS
  TypeOK
  StagesHold
  AnsweredIsRecorded
SYMMETRY AnyHandler
CHECK_DEADLOCK FALSE
