CONSTANTS
  n1 = n1  n2 = n2
  k1 = k1
  Nodes = {n1, n2}
  Keys = {k1}
  Seqs = {1}
  Nil = Nil
  Ops <- MCOps
  Backends <- MCBackends
  SerialOpens = TRUE
  MaxCalls = 3
  MaxFaults = 2
SPECIFICATION Spec
SYMMETRY Symmetry
INVARIANTS OpenedIsCurrent
PROPERTY KeepsContract
CHECK_DEADLOCK FALSE
