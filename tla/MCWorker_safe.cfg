\* Two tenants, two jobs, three answers: every interleaving of the notices, the
\* timers, the loop and the shutdown.
SPECIFICATION SafeSpec
CONSTANTS
  Tenants = {t1, t2}
  Jobs = 2
  Delays = {0, 1, 2}
  MaxLate = 1
  MaxCallers = 1
  NoTimer = NoTimer
  NoDue = NoDue
SYMMETRY Symmetry
INVARIANTS NoLostWakeup LaterIsKept QuietAfterDrain
CHECK_DEADLOCK FALSE
