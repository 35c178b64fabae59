SPECIFICATION WalkSpec
CONSTANTS
  Worker = {w1, w2}
  Item <- LinkItems
  Root <- RootItem
  NoItem = NoItem
  Err <- Errors
  Nil = "nil"
  Node <- LinkNodes
  Kind <- LinkKind
  Kids <- LinkKids
  Target <- LinkTarget
  NoNode = NoNode
  Top = "r"
  Above <- NoneAbove
  Denied = {}
  Flaky = {}
  Untyped = {}
  Vanished = {}
  Rank <- Ranks
  Setups <- LinkSetups
  Replies <- AgainstLink
  OnError = {"same", "nil"}
INVARIANTS
  DirsReadOnce
  AllReached
  SeenDirsRead
  FilesCalledOnce
PROPERTIES
  Returns
