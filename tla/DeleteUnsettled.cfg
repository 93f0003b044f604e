SPECIFICATION Spec
CONSTANTS
  a1 = a1
  r1 = r1
  Ambassadors = {a1}
  Referees = {r1}
  PaidTier = {r1}
  PaymentIds = {1, 2}
  Procs = {p1, p2}
  MaxCrashes = 0
  NoPayment = NoPayment
  Free = Free
  Idle = Idle
INVARIANT DeletedIsSettled
CHECK_DEADLOCK FALSE
