SPECIFICATION MCSpec
CONSTANTS
  BlockSize = 2
  Capacity = 2
  MaxBlocks = 4
  NBlocks = 4
  MaxWrites = 2
  Modes <- TwoModes
  Pieces = {3}
  Spans = {6}
  Cuts = {4}
  StartLens = {5, 7}
  Junk = Junk
  AnyByte = AnyByte
  Unknown = Unknown
  LastBlock = 3
  WriteBound = 3
  Gone = Gone
  None = None
INVARIANTS NothingIsLost ReadsAreTrue FlushedIsWritten QuietMeansWritten
 
CHECK_DEADLOCK FALSE
