CONSTANTS
  a = a
  b = b
  e = e
  g1 = g1
  g2 = g2
  g3 = g3
  NoQueue = NoQueue
  Bodies <- MCBodies
  Empty = e
  Queues = {k1}
  Clients = {c1, c2}
  MaxClears = 3
SPECIFICATION RedisSpec
INVARIANTS UniqueWhileIntact NoStuckBody FilteredIffWaiting
INVARIANTS PoolAccounts IdleIsClean OwnReply
PROPERTY WaitersGoOn
CHECK_DEADLOCK FALSE
