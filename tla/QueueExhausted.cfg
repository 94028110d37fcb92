CONSTANTS
  MaxRequests = 0
  MaxFaults = 0
  JobAttempts = 3
  MaxStalls = 1
SPECIFICATION Spec
INVARIANT ExhaustedIsFailed
CHECK_DEADLOCK FALSE
