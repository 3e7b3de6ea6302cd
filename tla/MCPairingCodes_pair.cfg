SPECIFICATION PairingSpec
CONSTANTS
  k1 = k1
  k2 = k2
  x1 = x1
  x2 = x2
  p1 = p1
  p2 = p2
  p3 = p3
  None = None
  Users = {"ana"}
  Guilds = {"served", "other"}
  Served = {"served"}
  Codes = {p1, p2, p3}
  Commands = {k1, k2}
  Exchanges = {x1, x2}
  Ttl = 2
  Hour = 3
  MaxPerHour = 1
  MaxTime = 3
  MaxFaults = 1
SYMMETRY Alike
INVARIANTS
  SpentOnce
  UsableAreLimited
CHECK_DEADLOCK FALSE
