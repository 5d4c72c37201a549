SPECIFICATION PoolSpec
CONSTANTS
  a1 = a1  a2 = a2
  r1 = r1  r2 = r2
  s1 = s1
  Accounts = {a1, a2}
  Requests = {r1, r2}
  Sessions = {s1}
  SessionOf <- MCSessionOf
  None = None
  Threshold = 2
  Short = 1
  Quota = 1
  Overage = 1
  MaxCooldown = 1
  Ban = 1
  MinRest = 0
  PinTTL = 2
  RingSize = 1
  MaxConsecutive = 2
SYMMETRY AccountsAlike
INVARIANTS PinsFollowHealth
PROPERTIES PinsOutliveBlips
