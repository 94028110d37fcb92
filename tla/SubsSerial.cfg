CONSTANTS
  Handlers = {h1}
  Creator = creator
  MaxRequests = 3
  MaxEvents = 6
  MaxRedeliveries = 0
  MaxFailures = 2
  Ordered = TRUE
  InitialPaymentTypes = {"single"}
  TotalInstallments = 3
SPECIFICATION FairSpec
INVARIANTS
  OrphansCostFailures
  PaymentsStayLinked
  FollowsStripe
PROPERTIES
  ChargeIsRecorded
  SetBackCostsFailures
CHECK_DEADLOCK FALSE
