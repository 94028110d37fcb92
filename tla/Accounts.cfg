CONSTANTS
  MaxRequests = 4
  Overlapping = 3
  OtpMaxAttempts = 1
  PhoneMaxAttempts = 2
  Emails = {e1, e2}
  Phones = {p1, p2}
  KEEP = KEEP
  AdminDtos <- SomeDtos
SPECIFICATION Spec
INVARIANTS
  TypeOK
  SessionsEnd
  SpentOnce
  GuessesBounded
  MarksBelong
PROPERTY DecisionsStand
CHECK_DEADLOCK FALSE
