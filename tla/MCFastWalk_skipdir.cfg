SPECIFICATION WalkSafety
CONSTANTS
  Worker = {w1, w2}
  Item <- PlainItems
  Root <- RootItem
  NoItem = NoItem
  Err <- Errors
  Nil = "nil"
  Node <- PlainNodes
  Kind <- PlainKind
  Kids <- PlainKids
  Target <- PlainTarget
  NoNode = NoNode
  Top = "r"
  Above <- NoneAbove
  Denied = {}
  Flaky = {}
  Untyped = {}
  Vanished = {}
  Rank <- Ranks
  Setups <- JustDefault
  Replies <- PlainReplies
  OnError = {"same", "nil"}
SYMMETRY Workers
INVARIANTS
  SkipDirNotReturned
