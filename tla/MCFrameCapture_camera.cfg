SPECIFICATION CaptureSpec
CONSTANTS
  c1 = c1
  c2 = c2
  n1 = n1
  n2 = n2
  None = None
  Cameras = {c1, c2}
  Names = {n1, n2}
  Offers <- SmallOffers
  Sizes <- SmallSizes
  Ceiling <- SmallCeiling
  Fps = 30
  Widths <- SmallWidths
SYMMETRY Alike
INVARIANTS
  OneOpenDevice
  OpenedIsChosen
  ListedOnce
  AttemptsAreSound
  FrameIsSound
CHECK_DEADLOCK FALSE
