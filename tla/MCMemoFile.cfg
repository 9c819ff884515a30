SPECIFICATION MCSpec
CONSTANTS
  User = {u1, u2}
  Text <- MCText
  Size <- MCSize
  Files <- MCFiles
  MaxRec = 2
  MaxBlock = 3
  MaxChanges = 2
  MaxCrashes = 1
  ReadLocks = {TRUE, FALSE}
  Careless = {}
INVARIANTS NoSharedBlocks MemoIsTheLast LockedReadIsTheLast
CHECK_DEADLOCK FALSE
SYMMETRY Alike
