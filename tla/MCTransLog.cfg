SPECIFICATION Spec
CONSTANTS
  Procs = {p1, p2}
  p1 = p1
  p2 = p2
  MaxUsers = 2
  MaxLog = 6
  None = None
INVARIANTS LogIsTrue
PROPERTIES ShutdownIsByTheLast
CHECK_DEADLOCK FALSE
SYMMETRY Symmetry
