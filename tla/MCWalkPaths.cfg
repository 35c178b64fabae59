SPECIFICATION PathSpec
CONSTANTS
  Roots <- AllRoots
  Names <- AllNames
  MaxDown = 2
  LongPath = 5
CHECK_DEADLOCK FALSE
INVARIANTS
  PathNamesEntry
  ClimbMeetsWay
  LongPathFits
  LongPathNamesEntry
