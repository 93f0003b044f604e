SPECIFICATION FairSpec
CONSTANTS
  a1 = a1
  a2 = a2
  a3 = a3
  r1 = r1
  r2 = r2
  Ambassadors = {a1, a2}
  Referees = {r1, r2}
  ScanOrder <- MCScanOrder
  RankOrder <- MCRankOrder
  MatchIds = {1, 2, 3}
  Procs = {p1, p2}
  NoMatch = NoMatch
  Free = Free
  Idle = Idle
INVARIANTS
  TypeOK
  ProposerOnce
PROPERTIES
  CounterpartVerified
  EveryCallEnds
CHECK_DEADLOCK FALSE
