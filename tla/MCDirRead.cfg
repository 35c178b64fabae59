SPECIFICATION ReadSpec
CONSTANTS
  InoOff = 0
  InoSize = 2
  ReclenOff = 2
  ReclenSize = 1
  TypeOff = 3
  NameOff = 4
  Word = 65536
  Node <- Nodes
  Kind <- Kinds
  Kids <- DirKids
  Target <- Targets
  NoNode = NoNode
  Top <- D
  Above <- NoneAbove
  Denied <- Refused
  Flaky <- FlakyDirs
  Untyped <- UntypedNodes
  Vanished <- UntypedNodes
  Rank <- Ranks
  Setups <- AllSetups
  Reader = {r1, r2}
  Slice = {s1, s2, s3}
  NoSlice = NoSlice
  Records <- DirRecords
  BufSize = 20
  MaxPooled = 3
  Answers <- DirAnswers
  Nil = "nil"
INVARIANTS
  DirReadTypeOK
  SlicesPrivate
  ReadAsDelivered
PROPERTIES
  ReadingEnds
