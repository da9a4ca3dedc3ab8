\* A reader and a writer of a remote and both receive threads; a datagram that is lost is
\* one that stays in flight.
SPECIFICATION Spec
CONSTANTS
  Remotes = {q1}
  Endpoints = {e1, e2}
  Owner <- MCOwner
  Kind <- MCKind
  GuidOrder <- MCGuidOrder
  Threads = {mainloop, multicast}
  MainLoop = mainloop
  MaxSn = 1
  MaxExpiries = 2
  MaxLosses = 0
  q1 = q1
  e1 = e1
  e2 = e2
  mainloop = mainloop
  multicast = multicast
INVARIANTS
  TypeOK
  MatchedIsDiscovered
  MatchedReaderReachable
CHECK_DEADLOCK FALSE
