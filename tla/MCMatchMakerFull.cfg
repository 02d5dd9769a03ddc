CONSTANTS
  r1 = r1
  r2 = r2
  r3 = r3
  m1 = m1
  m2 = m2
  any = any
  c1 = c1
  u1 = u1
  k1 = k1
  l1 = l1
  l2 = l2
  NoRoom = NoRoom
  NoUnique = NoUnique
  NoKey = NoKey
  NoLock = NoLock
  Anything = any
  Request = {r1, r2}
  RoomId = {m1, m2}
  Lock = {l1, l2}
  Criterion = {any, c1}
  Unique = {u1}
  Key = {any, c1, u1}
  IKey = {}
  Asks <- MCJoinOrCreate
  MaxClients = 1
  Attempts = 3
  EarlyTurns = FALSE
  RoomCode = FALSE
  Timeouts = FALSE
  Duplicates = FALSE
  Shutdowns = FALSE
SPECIFICATION MMSpec
INVARIANTS JoinOrCreateSucceeds
CHECK_DEADLOCK FALSE
