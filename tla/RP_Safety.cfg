\* One full writer and one reader; datagrams come late, twice, out of order,
\* and after either side has forgotten the other.
SPECIFICATION Spec
CONSTANTS
  Writer = {w1}
  Reader = {r1}
  ReliableReader = {r1}
  Qos <- MCFull
  NackWindow = 256
  MaxSn = 3
  MaxLosses = 0
  MaxUnmatches = 1
  w1 = w1
  r1 = r1
INVARIANTS
  TypeOK
  ProgressIsReceived
  OnlyStoredDelivered
PROPERTIES
  ImplementsDelivery
