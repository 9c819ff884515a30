SPECIFICATION Spec
CONSTANTS
  NTags = 3
  Unique <- MCUnique
  NoKey = NoKey
  Records <- MCRecords
  Tables0 <- MCTables
  MaxRecs = 3
  MaxEntries = 4
  None = None
CONSTRAINT Whole
INVARIANTS TagsAreTrue
PROPERTIES RollbackRestores RefusedChangesNothing
CHECK_DEADLOCK FALSE
