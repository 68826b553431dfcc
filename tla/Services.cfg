SPECIFICATION Spec
CONSTANTS
  People = {u1, u2}
  Dispatchers = {d1, d2}
  MaxChanges = 1
  MaxRedirects = 2
  MaxAttempts = 2
  Timeout = 1
  Sites = {s1, s2, s3}
  BatchSize = 2
  MaxStarts = 2
  Views = {"overview", "incidents", "websites", "website", "members", "settings"}
  MaxVersion = 1
  MaxIncidents = 3
  MaxStart = 3
  PageSize = 1
  MaxWebsites = 4
  RowsPerPage = 2
  Clients = {"c"}
  CredentialLimit = 2
  DefaultLimit = 1
  SweepInterval = 1
  MaxTime = 4
  Full = 2
  Interval = 1
INVARIANTS
  ServicesTypeOK
  AtMostOneEmail
  NoticesAreTrue
  EverybodyTold
  ConnectsWhereAllowed
  CheckFitsLease
  AddressesAgree
  KeysNameWebsites
  NeverGoesBack
  IncidentsReadOnce
  NothingIsTrue
  BudgetRespected
  FiguresAgree
PROPERTIES
  DrainsBeforeExit
  ShutdownEnds
  LoopSurvives
  HonestNavigationEnds
CHECK_DEADLOCK FALSE
