CONSTANTS
  Tenants = {1, 2}
  Writers = {1, 2}
  Old = {4, 5}
  OldRows <- MCOldRows
  Shapes <- MCShapes
  Outcomes = {"approved", "rejected"}
  Reader <- MCReader
  From = 1
  To = 3
  Window = 2
  Limit = 1
  Chunk = 1
  Runs = 2
SPECIFICATION Spec
INVARIANTS EventsAreCounted EachPunchOnce CursorSkipsNothing WalkIsWhole NoCircularWait
CHECK_DEADLOCK FALSE
