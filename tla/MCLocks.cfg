SPECIFICATION Spec
CONSTANTS
  p1 = p1
  p2 = p2
  d1 = d1
  d2 = d2
  d3 = d3
  Procs = {p1, p2}
  Data = {d1, d2, d3}
  ProcOf <- MCProcOf
  LockId <- MCLockId
  RecPos <- MCRecPos
  Recs = {1, 2}
  LockBase = 5
  V30 = TRUE
  Settings <- MCSettings
  Queues <- MCQueues
  None = None
INVARIANTS LocksMatchTheFiles Exclusive NoWaitCycle
PROPERTIES GroupAllOrNothing Answered
CHECK_DEADLOCK FALSE
