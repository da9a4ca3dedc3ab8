\* One remote with a reader that is created, deleted and created again;
\* a crash, a lease that expires by loss, and other traffic that wakes the main loop.
SPECIFICATION BusySpec
CONSTANTS
  Remotes = {q1}
  Endpoints = {e1}
  Owner <- MCOwner
  Kind <- MCKind
  GuidOrder <- MCGuidOrder
  Threads = {mainloop}
  MainLoop = mainloop
  MaxSn = 2
  MaxExpiries = 1
  MaxLosses = 1
  q1 = q1
  e1 = e1
  mainloop = mainloop
PROPERTIES
  EventuallyCurrent
  CrashForgotten
CHECK_DEADLOCK FALSE
