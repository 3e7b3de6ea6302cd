SPECIFICATION ReplicaSpec
CONSTANTS
  g1 = g1
  g2 = g2
  u1 = u1
  u2 = u2
  r1 = r1
  c1 = c1
  h1 = h1
  h2 = h2
  None = None
  Guilds = {g1, g2}
  Users = {u1, u2}
  Roles = {r1}
  Channels = {c1}
  Handlers = {h1, h2}
  Served = {g1}
  Home <- TheHome
  Layouts <- TheLayouts
  Masks <- TheMasks
  RuleSets <- TheRules
  Grace = 0
  MaxEvents = 3
  MaxJoins = 1
  MaxFaults = 1
SYMMETRY Alike
INVARIANTS
  ReplicaIsSound
  PermissionIsReference
  RevokedIsOwed
CHECK_DEADLOCK FALSE
