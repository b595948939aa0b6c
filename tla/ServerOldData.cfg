CONSTANTS
  r1 = r1
  r2 = r2
  w = w
  e = e
  d = d
  f = f
  b1 = b1
  FPs = {f}
  Branches = {b1}
  NoBranch = NoBranch
  Malformed <- MCMalformed
  EmptyBodies <- MCEmptyBodies
  Described <- MCDescribed
  BranchOf <- MCBranchOf
  FpOf <- MCFpOf
  Reqs = {r1, r2}
  ExplainDBNumber = 1
  ChanCap = 1
  MaxFaults = 0
SPECIFICATION Spec
INVARIANT OldDataIsOld
