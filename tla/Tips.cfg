SPECIFICATION FairSpec
CONSTANTS
  r1 = r1
  i1 = i1
  Registrations = {r1}
  Intents = {i1}
  TipIds = {1, 2}
  Procs = {p1, p2, p3}
  MaxCrashes = 1
  None = None
  Idle = Idle
INVARIANTS
  TypeOK
  TipsAgree
PROPERTIES
  PaidTipIsRecorded
CHECK_DEADLOCK FALSE
