SPECIFICATION FairServerSpec
CONSTANTS
  a1 = a1
  r1 = r1  r2 = r2
  p1 = p1
  s1 = s1
  Accounts = {a1}
  Requests = {r1, r2, p1}
  ThePoller = p1
  Sessions = {s1}
  SessionOf <- MCSessionOf
  None = None
  Threshold = 2
  Short = 1
  Quota = 2
  Overage = 1
  MaxCooldown = 2
  Ban = 1
  MinRest = 0
  PinTTL = 1
  RingSize = 1
  MaxConsecutive = 3
  MaxGrant = 3
INVARIANTS NeverOlder
PROPERTIES AccountsRecover HandlersAnswered ShutdownEnds
\* The process exits.
CHECK_DEADLOCK FALSE
