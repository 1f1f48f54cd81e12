SPECIFICATION Spec
CONSTANTS
  Chips = {c1, c2}
  Rounds = {r1, r2}
  MaxPerActor = 2
  None = None
  Factory = Factory
SYMMETRY Symmetry
INVARIANTS ChipKeysAreRecorded EncodedIsComplete SessionsAreCounted
CHECK_DEADLOCK FALSE
