CONSTANTS
  port = port
  host = host
  pw = pw
  rem = rem
  n1 = n1
  n2 = n2
  s1 = s1
  s2 = s2
  Empty = Empty
  Zero = Zero
  NoFile = NoFile
  Files <- MCFiles
  Order <- MCOrder
  IntKeys = {port}
  Numerals = {n1, n2}
  MaxEdits = 2
SPECIFICATION FairSpec
PROPERTY EditIsLoaded
CHECK_DEADLOCK FALSE
