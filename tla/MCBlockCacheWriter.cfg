CONSTANTS
  t1 = t1  t2 = t2  dbf = dbf  cdx = cdx
  Slots = {s1}
  Priorities = {1}
  Threads = {t1, t2}
  Files = {dbf}
  PriorityOf <- OnePriority
  NoFile = NoFile
  NoSlot = NoSlot
  WindowSize = 2
  MaxOwners = 2
  Sizes = {2}
  Reads <- SlotReads
  MaxVersion = 1
  EngineCloses = TRUE
SPECIFICATION FairSpec
INVARIANTS IInv FreshAfterOwnDrop
PROPERTY ReadsEnd
CHECK_DEADLOCK FALSE
