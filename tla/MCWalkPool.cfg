SPECIFICATION PoolSpec
CONSTANTS
  Worker = {w1, w2}
  Root = r
  Item = {r, i1, i2, i3, i4}
  NoItem = {r, i1, i2, i3, i4}
  Err = {e1}
  Nil = Nil
INVARIANTS
  TypeOK
  OutCount
  QuietAtPoll
  NoLostWork
  ErrorsSurface
  OnePlace
  IInv
PROPERTIES
  SilentAfterReturn
  Returns
  ImplementsContract
