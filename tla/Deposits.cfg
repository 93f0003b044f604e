SPECIFICATION FairSpec
CONSTANTS
  a1 = a1
  r1 = r1
  Ambassadors = {a1}
  Referees = {r1}
  PaidTier = {r1}
  PaymentIds = {1, 2}
  Procs = {p1, p2}
  MaxCrashes = 1
  NoPayment = NoPayment
  Free = Free
  Idle = Idle
INVARIANTS
  TypeOK
  OnePaymentPerIntent
  LedgerAgrees
  AcceptedIsSettled
PROPERTIES
  SettledOnce
  PaidIsRecorded
CHECK_DEADLOCK FALSE
