SPECIFICATION Spec
CONSTANTS
  a1 = a1
  a2 = a2
  a3 = a3
  r1 = r1
  r2 = r2
  Ambassadors = {a1, a2}
  Referees = {r1}
  ValidPass = {a1, a2, r1}
  PaidTier = {}
  Location <- MCLocation
  CreatedAt <- MCCreatedAt
  MatchIds = {1, 2}
  MaxPriority = 1
  Procs = {p1, p2}
  MaxIcons = 2
  MaxPairs = 1
  NoMatch = NoMatch
  Idle = Idle
SYMMETRY ProcsSymmetry
INVARIANTS
  OneActiveMatch
CHECK_DEADLOCK FALSE
