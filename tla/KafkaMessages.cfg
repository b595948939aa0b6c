CONSTANTS
  b1 = b1 b2 = b2 b3 = b3 g1 = g1 g2 = g2
  Names <- MCNames
  Variants = {0, 1, 2, 3, 4}
SPECIFICATION MessagesSpec
INVARIANTS PrepIsExact RoundTrip CutIsRejected
INVARIANTS WholeRecordsReturned NilMeansDone
PROPERTY CallsReturn
CHECK_DEADLOCK FALSE
