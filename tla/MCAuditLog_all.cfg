CONSTANTS
  p1 = p1
  r1 = r1 r2 = r2
  Procs = {p1}
  Recorders = {r1, r2}
  Nil = Nil
  RingSize = 2
  MaxRecords = 5
  MaxFaults = 3
  MaxUnread = 1
SPECIFICATION Spec
SYMMETRY Symmetry
PROPERTIES LogIsKept
CHECK_DEADLOCK FALSE
