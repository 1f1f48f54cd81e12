\* One delivery, two processes, one fault, one stall, one resend.
SPECIFICATION SafeSpec
CONSTANTS
  Deliveries = {d1}
  Workers = {w1, w2}
  Lease = 2
  Hold = 1
  MaxAttempts = 2
  Backoff <- Twice
  Recheck = 1
  MaxResends = 1
  MaxFaults = 1
  MaxStalls = 1
  Nobody = Nobody
  Never = Never
SYMMETRY Symmetry
INVARIANTS OneRequestAtATime TriesBounded EveryRequestAccounted NeverForgotten
CHECK_DEADLOCK FALSE
