SPECIFICATION Spec
CONSTANTS
  MaxRec = 4
  Keys = {1, 2, 3}
  Files <- MCFiles
  Changes = 2
  Jumps = FALSE
  Steps <- MCSteps
INVARIANTS WalkMeetsEveryone SeekMissesNothing
PROPERTY SeekNextIsTheNext
