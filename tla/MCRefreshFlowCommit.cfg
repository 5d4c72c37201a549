SPECIFICATION FlowSpec
CONSTANTS
  p1 = p1  p2 = p2
  w1 = w1 
  c1 = c1  c2 = c2
  id1 = id1  time = time
  MaxGrant = 2
  MaxRetries = 1
  TokenPairs <- MCTokenPairs
  Callers = {c1}
  Unrefreshable = {}
  MachineID = machine_id
  BanUntil = ban_until
  ExpiresAt = expires_at
  MetaKeys = {machine_id, ban_until, expires_at}
  MetaValues = {id1, time}
  Absent = Absent
  LockTTL = 1
  NoBundle = NoBundle
  Sessions = {p1}
  Writers = {w1}
  IdOf <- MCIdOf
  Stamp = time
  None = None
  MaxGeneration = 3
  MaxEra = 0
PROPERTIES CommitFailureRecovers
