CONSTANTS
  MaxInFlight = 2
  ThreadRequests = 4
  UploadRequests = 4
  RoleRequests = 3
  TemplateRequests = 4
  PlanRequests = 3
  PreferenceRequests = 2
  Names = {n1}
  MaxTicks = 1
  User = {u1, u2}
  Codes = {c1, c2}
  DefaultCodes = {c1}
  MinutesPerHour = 1
  Delays = {12}
  Texts <- HourTexts
SPECIFICATION Spec
INVARIANTS
  TypesOK
  CountersTell
  FilesAgree
  SuperAdminRemains
  SeedIsWhole
  QuietHoursKept
PROPERTIES
  ReadStays
  SystemTemplatesStay
CHECK_DEADLOCK FALSE
