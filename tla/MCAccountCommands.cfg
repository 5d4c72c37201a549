SPECIFICATION CommandSpec
CONSTANTS
  p1 = p1  c1 = c1  o1 = o1  o2 = o2  time = time
  MaxGrant = 2
  MaxRetries = 0
  TokenPairs <- MCTokenPairs
  Callers = {c1}
  Unrefreshable = {}
  MachineID = machine_id
  BanUntil = ban_until
  ExpiresAt = expires_at
  MetaKeys = {machine_id, ban_until, expires_at}
  MetaValues = {time}
  Absent = Absent
  LockTTL = 1
  NoBundle = NoBundle
  Sessions = {p1}
  Writers = {}
  IdOf <- MCIdOf
  Stamp = time
  None = None
  MaxGeneration = 3
  MaxEra = 1
  Operators = {o1, o2}
  Intervals = {1}
  SlowDown = 1
  Timeout = 3
  Lifetime = 3
  MaxLapses = 1
SYMMETRY Symmetry
INVARIANTS AccountUnharmed
PROPERTIES PollsPolitely
