CONSTANTS
  m1 = m1
  m2 = m2
  m3 = m3
  m4 = m4
  m5 = m5
  x = x
  e = e
  y = y
  i1 = i1
  i2 = i2
  i3 = i3
  i4 = i4
  f = f
  b1 = b1
  b2 = b2
  Infos = {i1, i2, i3, i4}
  NoInfo = NoInfo
  FPs = {f}
  Blank = Blank
  Branches = {b1, b2}
  Checkers = {c1}
  EmptyBodies <- MCEmptyBodies
  InfoOf <- MCInfoOf
  FpOf <- MCFpOf
  BranchOf <- MCBranchOf
  ListOf <- MCListOf
  Msgs = {m1, m2, x, y}
  BranchActive = 2
  RedisSampling = 1
  ChanCap = 1
  MaxWorkers = 1
  MaxFaults = 0
  MaxCrashes = 1
SPECIFICATION FairSpec
PROPERTY StatementsFinish
PROPERTY BatchReachesServer
