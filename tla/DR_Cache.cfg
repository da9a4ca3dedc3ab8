\* Two receive threads and two application threads share a reader's cache.
SPECIFICATION Spec
CONSTANTS
  ReaderQos <- MCReaderQos
  Infinite = Infinite
  Receiver = {p1, p2}
  Taker = {t1, t2}
  Sn = {s1, s2}
  MaxPushes = 3
  MaxTime = 2
  s1 = s1
  s2 = s2
  p1 = p1
  p2 = p2
  t1 = t1
  t2 = t2
SYMMETRY MCSymmetry
INVARIANTS
  TypeOK
  FilterSeparates
  NoSilentSample
  TakenOnce
  NothingLost
CHECK_DEADLOCK FALSE
