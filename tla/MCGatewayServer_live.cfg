SPECIFICATION FairServerSpec
CONSTANTS
  c1 = c1
  c2 = c2
  c3 = c3
  p1 = p1
  p2 = p2
  u1 = u1
  u2 = u2
  None = None
  Conns = {c1, c2}
  Users = {u1}
  UserOf <- OneUser
  Publishers = {p1}
  BufferCapacity = 3
  MaxConnections = 2
  MaxSeq = 4
  MaxRestarts = 0
  EndReasons = {0}
  Positions <- FewPositions
INVARIANT ServerInv
INVARIANT RecentFramesKept
PROPERTY ClosingEnds
PROPERTY SessionsAreCollected
CHECK_DEADLOCK FALSE
