CONSTANTS
  t1 = t1  t2 = t2  dbf = dbf  cdx = cdx
  Slots = {s1, s2}
  Priorities = {1, 2}
  Threads = {t1, t2}
  Files = {dbf, cdx}
  PriorityOf <- FilePriority
  NoFile = NoFile
  NoSlot = NoSlot
  WindowSize = 2
  MaxOwners = 2
  Sizes = {3, 5}
  Reads <- ManyReads
  MaxVersion = 0
  EngineCloses = FALSE
SPECIFICATION Spec
SYMMETRY Symmetry
INVARIANTS BytesAreMine ReadIsSlice
 
CHECK_DEADLOCK FALSE
