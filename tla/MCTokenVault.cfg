SPECIFICATION FairSpec
CONSTANTS
  a = a   c = c
  s1 = s1  s2 = s2 
  w1 = w1  w2 = w2
  id1 = id1  id2 = id2  time = time
  TokenPairs = {a, c}
  Unrefreshable = {c}
  MachineID = machine_id
  BanUntil = ban_until
  ExpiresAt = ban_until
  MetaKeys = {machine_id, ban_until}
  MetaValues = {id1, id2, time}
  Absent = Absent
  LockTTL = 1
  NoBundle = NoBundle
  Sessions = {s1, s2}
  Writers = {w1, w2}
  IdOf <- MCIdOf
  Stamp = time
  None = None
  MaxGeneration = 3
  MaxEra = 1
PROPERTIES NoStaleCommit PatchKeepsTokens MachineIDStable AlwaysReservable
