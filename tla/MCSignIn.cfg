SPECIFICATION Spec
CONSTANTS
  Logins = {l1, l2, l3}
  Attempts = {a1, a2, a3}
  Enrolls = {x1, x2}
  Scripts = {s1, s2}
  NoLink = NoLink
  CapLimit = 1
  CodeLimit = 2
  FailLimit = 2
  Period = 2
  LockTime = 2
  LinkTime = 3
  ChallengeTime = 3
  Crowds <- MCCrowds
  MaxTime = 5
  MaxRestarts = 1
SYMMETRY Symmetry
INVARIANTS TrailBeforeChallenge LockHolds SpentOnce
CHECK_DEADLOCK FALSE
