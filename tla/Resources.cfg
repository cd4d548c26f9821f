SPECIFICATION MCSpec
CONSTANTS
  Conns = {c1, c2, c3}
  Addresses <- MCAddresses
  TrustedProxies <- MCTrustedProxies
  Clients <- MCClients
  Routes <- MCRoutes
  Claims <- MCClaims
  ChainLimit = 3
  MaxConnectionsEnv = 2
  PerSourceEnv = 1
  RegistrationTimeout = 3
  IdleTimeout = 2
  RateWindow = 3
  MaxMessages = 2
  BudgetWindow = 3
  MaxFrames = 2
  MaxBytes = 3
  Sizes = {1, 2, 4}
  ChallengeBytes = 1
  MaxReady = 1
  MaxHandling = 2
  Keys = {k1, k2, k3}
  MaxFailures = 2
  MaxKeys = 2
  Window = 2
  MaxGuesses = 3
  Bad = Bad
  None = None
  Names <- MCNames
  NameLength <- MCNameLength
  WithColon = {"hex", "decimal", "numbered"}
  EndInPort = {"decimal"}
  Ports = {0, 80, 443, 11010, 65536}
  Paths = {"q"}
  PathLength <- MCPathLength
  MaxLength = 25
  NoPath = NoPath
  Absent = Absent
  Cases <- MCCases
  MaxTargets = 2
  AllowPrivate = FALSE
  Nodes = {n1, n2}
  Outgrown = {n2}
  Submitters = {s1, s2}
  Sweeper = Sweeper
  Nothing = Nothing
  Capacity = 1
  MaxOffline = 1
  MaxProbe = 1
  ProbePermits = 1
  SubmitSources = {"s1", "s2"}
  Connections = {"c1", "c2", "c3"}
  SourceOf <- MCSourceOf
  SubmitWindow = 3
  MaxPerWindow = 2
  Cooldown = 2
  MaxTracked = 1
  MaxDelay = 1
SYMMETRY MCSymmetry
CONSTRAINT MCOneSteady
CHECK_DEADLOCK FALSE
INVARIANTS
  LeasesAreExact
  WithinLimits
  ChargedToClient
  WindowsHold
  LocksAreExact
  NamedBlocksRefused
  
  KeysAreStable
  QuotasHold
  WithinCapacity
  AcceptedIsOnFile
  FileIsCurrent
PROPERTIES
  ClosedForCause
  SubmissionsSpaced
  SweepRemovesOnlyDead
