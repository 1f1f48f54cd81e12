\* Two tenants whose job may be due again a tick later, under fairness.
SPECIFICATION Spec
CONSTANTS
  Tenants = {t1, t2}
  Jobs = 1
  Delays = {1}
  MaxLate = 0
  MaxCallers = 1
  NoTimer = NoTimer
  NoDue = NoDue
PROPERTIES FirstComeFirstServed DueIsRun
CHECK_DEADLOCK FALSE
