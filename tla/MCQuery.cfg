CONSTANTS
    Pad = 1
    Scope = "AllSeekable"
    Databases <- MCDatabases
    Filters <- MCFilters
    MaxSkip = 3
SPECIFICATION Spec
VIEW View
INVARIANTS PlanIsTheScan
PROPERTIES FollowsTheScan
