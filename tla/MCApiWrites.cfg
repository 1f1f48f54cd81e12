SPECIFICATION Spec
CONSTANTS
  k1 = k1
  k2 = k2
  e1 = e1
  e2 = e2
  NoKey = NoKey
  Requests = {r1, r2, r3}
  Keys = {k1, k2}
  Refs = {e1, e2}
  Inputs <- MCInputs
  OldKeys <- MCOldKeys
  Budget = 1
  Hour = 1
  Day = 1
  Batch = 1
  MaxRows = 3
  MaxTime = 3
SYMMETRY Symmetry
INVARIANTS OncePerKey AnswerIsOfTheRequest BudgetHolds NoCircularWait
CHECK_DEADLOCK FALSE
