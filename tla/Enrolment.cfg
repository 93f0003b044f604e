SPECIFICATION Spec
CONSTANTS
  e1 = e1
  p1 = p1
  p2 = p2
  e2 = e2
  Addresses = {e1, e2}
  UserPks = {1, 2}
  RegPks = {1, 2}
  Procs = {p1, p2}
  FeeTiers <- MCFeeTiers
  OpensOn = 1
  ClosesOn = 2
  Days = {1, 2, 3}
  MaxCrashes = 1
  None = None
  Idle = Idle
SYMMETRY PeopleSymmetry
INVARIANTS
  TypeOK
  OneRegistrationPerAddress
  SessionIsOwn
PROPERTIES
  AnsweredWithALink
CHECK_DEADLOCK FALSE
