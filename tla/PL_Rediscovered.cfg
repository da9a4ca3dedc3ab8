\* Readers are created while a participant comes back during its removal.
SPECIFICATION FairSpec
CONSTANTS
  Publisher = {p1, p2}
  RemoteReader = {r1}
  WriterCreator = {}
  ReaderCreator = {a1}
  Discoverer = {d1, d2}
  Housekeeper = {m1}
  Nobody = Nobody
  IdWidth = 256
  StartWriters = 1
  MaxWriters = 0
  MaxExpiries = 1
  p1 = p1
  p2 = p2
  r1 = r1
  d1 = d1
  d2 = d2
  a1 = a1
  m1 = m1
PROPERTIES
  EventuallyMatched
  CallsReturn
