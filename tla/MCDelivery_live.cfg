\* Two deliveries, one process, one resend, under fairness.
SPECIFICATION Spec
CONSTANTS
  Deliveries = {d1, d2}
  Workers = {w1}
  Lease = 2
  Hold = 1
  MaxAttempts = 2
  Backoff <- Twice
  Recheck = 1
  MaxResends = 1
  MaxFaults = 0
  MaxStalls = 0
  Nobody = Nobody
  Never = Never
PROPERTIES EverythingSettles
CHECK_DEADLOCK FALSE
