SPECIFICATION WalkSafety
CONSTANTS
  Worker = {w1, w2}
  Item <- LinkItems
  Root <- RootItem
  NoItem = NoItem
  Err <- Errors
  Nil = "nil"
  Node <- LinkNodes
  Kind <- LinkKind
  Kids <- LinkKids
  Target <- LinkTarget
  NoNode = NoNode
  Top = "r"
  Above <- RootAbove
  Denied = {}
  Flaky = {}
  Untyped = {}
  Vanished = {}
  Rank <- Ranks
  Setups <- DirsFollowing
  Replies <- Agreeable
  OnError = {"same", "nil"}
SYMMETRY Workers
INVARIANTS
  AllReached
