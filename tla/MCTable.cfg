SPECIFICATION Spec
CONSTANTS
  Tags <- TwoTags
  Tables <- SmallTables
  Searches <- Sought
  Counts <- Skips
  MaxKey = 4
  MaxSkip = 2
  Leading = {"up"}
  Omitted = {2}
  Ghosts = {2}
  Short = {2}
INVARIANTS PositionIsTrue
PROPERTIES MovesFollowTheTag SeeksFindTheirs
VIEW View
