SPECIFICATION FairPacing
CONSTANTS
  RegistrationTimeout = 3
  IdleTimeout = 2
  RateWindow = 3
  MaxMessages = 2
  BudgetWindow = 3
  MaxFrames = 2
  MaxBytes = 3
  Sizes = {}
  ChallengeBytes = 1
  MaxReady = 1
  MaxHandling = 2
CHECK_DEADLOCK FALSE
PROPERTIES
  UnregisteredAreReclaimed
