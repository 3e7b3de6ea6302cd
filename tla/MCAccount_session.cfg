CONSTANTS
  None = None
  Handlers = {h1, h2}
  Tasks = {t1, t2}
  MaxTokens = 3
  Troubles = {"fault", "failure", "signOut", "life", "theft", "lapse"}
  MaxTroubles = 2
  MaxDue = 1
SPECIFICATION AccountSpec
INVARIANTS
  AccountInv
  OneSessionPerFamily
  RevokedFamilyIsDead
  NoFalseReuse
  JoinersServed
  SignedOutIsClean
SYMMETRY Alike
CHECK_DEADLOCK FALSE
