SPECIFICATION ServerSpec
CONSTANTS
  c1 = c1
  c2 = c2
  c3 = c3
  p1 = p1
  p2 = p2
  u1 = u1
  u2 = u2
  None = None
  Conns = {c1, c2, c3}
  Users = {u1, u2}
  UserOf <- TwoUsers
  Publishers = {p1}
  BufferCapacity = 1
  MaxConnections = 1
  MaxSeq = 2
  MaxRestarts = 1
  EndReasons = {0}
  Positions <- FewPositions
INVARIANT RegistryAgrees
INVARIANT OnlyOwnFrames
SYMMETRY Alike
CHECK_DEADLOCK FALSE
PROPERTY HubIsRegistry
