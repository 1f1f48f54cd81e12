SPECIFICATION Spec
CONSTANTS
  Day = 24
  PastTheDay = 26
  LongestShift = 18
  Offsets = {4, 6}
  NoCutoff = NoCutoff
  MaxBackdate = 20
  Retries = 1
  Managers = {m1}
  Instants = {29, 34, 46, 53}
  MaxMoves = 1
  MaxRows = 3
  MaxStarts = 4
  MaxClaims = 1
INVARIANTS CorrectionIsNoOrphan ClaimsAndReportAgree
PROPERTIES SubmittedIsApprovable ApprovalAddsItsPair
CHECK_DEADLOCK FALSE
