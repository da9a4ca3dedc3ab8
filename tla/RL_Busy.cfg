\* Writers are heard, crash and are removed while other participants keep sending.
SPECIFICATION BusySpec
CONSTANTS
  Writer = {w1, w2}
  Thread = {t1}
  Lease = 0
  MaxRemovals = 1
  w1 = w1
  w2 = w2
  t1 = t1
INVARIANTS
  TypeOK
  CountIsBounded
PROPERTIES
  SilentExpires
