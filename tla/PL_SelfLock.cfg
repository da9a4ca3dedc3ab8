\* A writer created while a remote reader is known.
SPECIFICATION FairSpec
CONSTANTS
  Publisher = {p1}
  RemoteReader = {r1}
  WriterCreator = {a1}
  ReaderCreator = {}
  Discoverer = {d1}
  Housekeeper = {}
  Nobody = Nobody
  IdWidth = 256
  StartWriters = 0
  MaxWriters = 1
  MaxExpiries = 0
  p1 = p1
  r1 = r1
  a1 = a1
  d1 = d1
PROPERTIES
  CallsReturn
CHECK_DEADLOCK FALSE
