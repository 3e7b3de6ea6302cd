SPECIFICATION FairSpec
CONSTANTS
  c1 = c1
  c2 = c2
  c3 = c3
  p1 = p1
  p2 = p2
  u1 = u1
  None = None
  Nothing = None
  Conns = {c1}
  Sockets = {c1}
  Users = {u1}
  UserOf <- OneUser
  Publishers = {}
  BufferCapacity = 2
  MaxConnections = 2
  MaxSeq = 3
  MaxRestarts = 1
  EndReasons = {0, 4000, 4001, 4003}
  Positions <- AnyPosition
  MaxFailures = 1
  Heartbeats = TRUE
  InitialTokens = {"none", "valid"}
  TokensExpire = TRUE
PROPERTY DeadLinkAbandoned
CHECK_DEADLOCK FALSE
