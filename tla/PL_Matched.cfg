\* Writers and readers created while remote readers are discovered.
SPECIFICATION Spec
CONSTANTS
  Publisher = {p1, p2}
  RemoteReader = {r1, r2}
  WriterCreator = {a1}
  ReaderCreator = {a2}
  Discoverer = {d1}
  Housekeeper = {m1}
  Nobody = Nobody
  IdWidth = 256
  StartWriters = 1
  MaxWriters = 2
  MaxExpiries = 0
  p1 = p1
  p2 = p2
  r1 = r1
  r2 = r2
  a1 = a1
  a2 = a2
  d1 = d1
  m1 = m1
INVARIANTS
  TypeOK
  EntitiesMatched
  OnlyCreationsBlock
CHECK_DEADLOCK FALSE
