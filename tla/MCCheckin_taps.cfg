\* One person, two taps, and a manager's record.
SPECIFICATION Spec
SYMMETRY Interchangeable
CONSTANTS
  t1 = t1
  t2 = t2
  e1 = e1
  e2 = e2
  a = a
  b = b
  r1 = r1
  r2 = r2
  r3 = r3
  Requests = {r1, r2}
  ManagedTags = {}
  ManagedEmps = {}
  Tags = {t1}
  Employees = {e1}
  Tenants = {a}
  Members = {}
  TagTenant <- OneTenantTag
  EmpTenant <- OneTenantEmp
  Inputs <- PersonInputs
  PolicySets <- OneSet
  InitialStatuses = {"active"}
  BusinessDayOn = TRUE
  NoRequest = NoRequest
  NoTenant = NoTenant
  RowIds = {1, 2, 3}
  MaxManual = 1
  MaxTime = 2
  MaxCtr = 0
  RequestTimeout = 1
  Grace = 2
  FutureGrace = 1
  DebounceWindow = 2
  FreshnessWindow = 2
  OccurredAtSkewMax = 3
  QueuedSkew = 1
  StaleOpenIn = 3
  Cutoffs = {0}
INVARIANTS DebounceHolds LiveTapsAlternate LockHeldInTransaction
CHECK_DEADLOCK FALSE
