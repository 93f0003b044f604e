SPECIFICATION Spec
CONSTANTS
  a1 = a1
  a2 = a2
  a3 = a3
  r1 = r1
  r2 = r2
  Ambassadors = {a1, a2}
  Referees = {r1}
  ValidPass = {a1, a2, r1}
  PaidTier = {r1}
  Location <- MCLocation
  CreatedAt <- MCCreatedAt
  MatchIds = {1, 2}
  MaxPriority = 3
  Procs = {p1}
  MaxIcons = 2
  MaxPairs = 1
  NoMatch = NoMatch
  Idle = Idle
INVARIANTS
  SuspendedForfeits
CHECK_DEADLOCK FALSE
