\* A durable writer, a reader that joins late, a lost datagram.
SPECIFICATION FairSpec
CONSTANTS
  Writer = {w1}
  Reader = {r1}
  ReliableReader = {r1}
  Qos <- MCDurable
  NackWindow = 256
  MaxSn = 2
  MaxLosses = 1
  MaxUnmatches = 0
  w1 = w1
  r1 = r1
PROPERTIES
  EventuallyDelivered
  EventuallyQuiet
