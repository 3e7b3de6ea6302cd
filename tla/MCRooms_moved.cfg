SPECIFICATION RoomsSpec
CONSTANTS
  u1 = u1
  u2 = u2
  c1 = c1
  c2 = c2
  None = None
  Users = {u1}
  Channels = {c1, c2}
  MaxPublishers = 1
  MaxCameras = 1
  Requests <- WatchRequests
  MaxHooks = 2
  MaxFaults = 0
  MaxChanges = 0
INVARIANT PresenceIsConnection
CHECK_DEADLOCK FALSE
