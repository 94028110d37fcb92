CONSTANTS
  MaxRequests = 1
  MaxFaults = 2
  JobAttempts = 3
  MaxStalls = 1
SPECIFICATION FairSpec
PROPERTY JobEnds
CHECK_DEADLOCK FALSE
