CONSTANTS
  MaxRequests = 2
  MaxFaults = 2
  JobAttempts = 2
  MaxStalls = 1
SPECIFICATION Spec
INVARIANTS
  TypeOK
  CancelIsFinal
  NeverRetriable
  SentWasDelivered
  DuplicatesCostFaults
PROPERTIES
  ImplementsDelivery
  ReadLostOnlyToWorker
CHECK_DEADLOCK FALSE
