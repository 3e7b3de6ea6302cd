SPECIFICATION FairTagsSpec
CONSTANTS
  r1 = r1
  r2 = r2
  g1 = g1
  g2 = g2
  u1 = u1
  n1 = n1
  None = None
  Rooms = {r1, r2}
  Guilds = {g1, g2}
  Users = {u1}
  Names = {n1}
  GuildOf <- OneRoomEach
  Capacity = 1
  MaxPublished = 3
  MaxFaults = 2
  MaxRenames = 1
INVARIANTS
  SavedIsClean
  TagIsOwed
  QuietIsRight
PROPERTY
  ComesToRest
CHECK_DEADLOCK FALSE
