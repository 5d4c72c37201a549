SPECIFICATION FairMessageSpec
CONSTANTS
  a1 = a1  a2 = a2
  r1 = r1
  Accounts = {a1, a2}
  Requests = {r1}
  TheRequest = r1
  Sessions = {}
  SessionOf <- MCSessionOf
  None = None
  Threshold = 2
  Short = 1
  Quota = 1
  Overage = 1
  MaxCooldown = 1
  Ban = 1
  MinRest = 0
  PinTTL = 1
  RingSize = 1
  MaxConsecutive = 2
  Errors <- MCErrors
  PoolRetries = 2
  ModelRetries = 3
  MaxBans = 2
  MaxRetries = 1
  Endpoints = 2
INVARIANTS CallsBounded BansStopRotation QuotaGoneEverywhere
PROPERTIES OnlyFaultsCount Answered
