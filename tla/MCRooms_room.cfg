SPECIFICATION RoomsSpec
CONSTANTS
  u1 = u1
  u2 = u2
  c1 = c1
  c2 = c2
  None = None
  Users = {u1, u2}
  Channels = {c1}
  MaxPublishers = 1
  MaxCameras = 1
  Requests <- ScreenRequests
  MaxHooks = 2
  MaxFaults = 1
  MaxChanges = 1
SYMMETRY UserSymmetry
INVARIANTS
  RoomsInv
  RowIsConnected
  ShownIsLive
  SessionHasViewer
  AnnouncedIsLive
CHECK_DEADLOCK FALSE
