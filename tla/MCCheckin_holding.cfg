\* Two businesses of a holding, one plaque that goes in and out of service.
SPECIFICATION Spec
SYMMETRY Interchangeable
CONSTANTS
  t1 = t1
  t2 = t2
  e1 = e1
  e2 = e2
  a = a
  b = b
  r1 = r1
  r2 = r2
  r3 = r3
  Requests = {r1, r2}
  ManagedTags = {t2}
  ManagedEmps = {e2}
  Tags = {t1, t2}
  Employees = {e1, e2}
  Tenants = {a, b}
  Members = {a, b}
  TagTenant <- SiteTag
  EmpTenant <- GuestEmp
  Inputs <- HoldingInputs
  PolicySets = {}
  InitialStatuses = {"active"}
  BusinessDayOn = FALSE
  NoRequest = NoRequest
  NoTenant = NoTenant
  RowIds = {1, 2}
  MaxManual = 0
  MaxTime = 1
  MaxCtr = 1
  RequestTimeout = 1
  Grace = 2
  FutureGrace = 1
  DebounceWindow = 2
  FreshnessWindow = 2
  OccurredAtSkewMax = 3
  QueuedSkew = 1
  StaleOpenIn = 3
  Cutoffs = {}
INVARIANTS ReplaySafe InactiveTagNeverCounts SpentCounterNeverGated
PROPERTIES CounterMovesOnlyForItsReaders
CHECK_DEADLOCK FALSE
