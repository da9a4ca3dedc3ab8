\* Three threads write to one writer.
SPECIFICATION Spec
CONSTANTS
  WriterQos <- MCWriterQos
  Thread = {t1, t2, t3}
  Instance = {k1}
  NoKey = NoKey
  MaxSn = 5
  t1 = t1
  t2 = t2
  t3 = t3
  k1 = k1
INVARIANTS
  TypeOK
  KeepsNewest
  NumbersAreUnique
  OnlyOvertakenMissed
CHECK_DEADLOCK FALSE
