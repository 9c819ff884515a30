CONSTANTS
  Byte = 2
  Wanders = FALSE
  Relations <- MCRelations
  xt = xt
  yt = yt
  Absent = absent
  Beyond = {FALSE}
SPECIFICATION MCSpec
INVARIANTS CountsTheRows DoAllGivesTheFirst NothingIsMissed CountIsTheMatches
PROPERTIES WalksTheComposite
CHECK_DEADLOCK FALSE
