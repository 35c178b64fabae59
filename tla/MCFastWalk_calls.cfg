SPECIFICATION WalkSafety
CONSTANTS
  Worker = {w1, w2}
  Item <- PlainItems
  Root <- RootItem
  NoItem = NoItem
  Err <- Errors
  Nil = "nil"
  Node <- PlainNodes
  Kind <- PlainKind
  Kids <- PlainKids
  Target <- PlainTarget
  NoNode = NoNode
  Top = "r"
  Above <- NoneAbove
  Denied = {}
  Flaky = {"d"}
  Untyped = {"x"}
  Vanished = {}
  Rank <- Ranks
  Setups <- WalkSetups
  Replies <- PlainReplies
  OnError = {"same", "nil"}
SYMMETRY Workers
INVARIANTS
  WalkTypeOK
  CalledOnce
  ErrorCallFollows
  ErrorsReachCallback
  ErrorsComeFromCallback
  NothingMissed
  LinksTraversed
  DepthRespected
PROPERTIES
  SkipFilesRespected
  OrderRespected
  PoolSafety
