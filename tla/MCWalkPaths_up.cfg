SPECIFICATION PathSpec
CONSTANTS
  Roots <- UpRoots
  Names <- PlainNames
  MaxDown = 2
  LongPath = 5
CHECK_DEADLOCK FALSE
INVARIANTS
  ClimbedAreAncestors
