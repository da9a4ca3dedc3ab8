\* Two writers number their samples alike and share a reader.
SPECIFICATION FairSpec
CONSTANTS
  Writer = {w1, w2}
  Reader = {r1}
  ReliableReader = {r1}
  Qos <- MCVolatile
  NackWindow = 256
  MaxSn = 1
  MaxLosses = 0
  MaxUnmatches = 0
  w1 = w1
  w2 = w2
  r1 = r1
PROPERTIES
  EventuallyDelivered
