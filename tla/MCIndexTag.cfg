SPECIFICATION Spec
CONSTANTS
  Size <- MCSize
  LeafRoom = 4
  MaxBranch = 2
  MaxNodes = 12
  NoNode = 0
  Procs = {p, q}
  Keys = {1, 2}
  Recs = {1, 2}
  Unique = FALSE
  Starts <- MCStarts
  MaxVersion = 1
  None = None
SYMMETRY Sym
INVARIANTS TreeIsTrue
PROPERTIES ImplementsKeySet StepIsNext
CHECK_DEADLOCK FALSE
