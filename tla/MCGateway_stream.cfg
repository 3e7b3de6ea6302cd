SPECIFICATION Spec
CONSTANTS
  c1 = c1
  c2 = c2
  c3 = c3
  p1 = p1
  p2 = p2
  u1 = u1
  None = None
  Nothing = None
  Conns = {c1, c2}
  Sockets = {c1, c2}
  Users = {u1}
  UserOf <- OneUser
  Publishers = {p1}
  BufferCapacity = 2
  MaxConnections = 2
  MaxSeq = 4
  MaxRestarts = 0
  EndReasons = {0, 4000, 4001, 4003}
  Positions <- AnyPosition
  MaxFailures = 1
  Heartbeats = FALSE
  InitialTokens = {"valid"}
  TokensExpire = FALSE
INVARIANT StreamInOrder
SYMMETRY Alike
CHECK_DEADLOCK FALSE
