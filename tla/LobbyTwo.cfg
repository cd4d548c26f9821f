SPECIFICATION Spec
CONSTANTS
  Conns = {c1, c2, c3}
  ClientIds = {i1, i2}
  LobbyIds = {L1, L2}
  VirtualIps = {v1, v2}
  Passwords = {"", "p"}
  EmptyPassword = ""
  Generations = {1}
  Sources <- MCSources
  SourceOf <- MCSourceOf
  MaxRequests = {5}
  MAX_LOBBY_MEMBERS = 3
  MAX_FAILURES = 1
  None = None
SYMMETRY MCSymmetry
CONSTRAINT MCPlainOrSmall
CHECK_DEADLOCK FALSE
INVARIANTS
  TypeOK
  MapMatchesMembership
  VirtualIpsUnique
  PublicIsPasswordless
PROPERTIES
  RecordsChangeOnlyByRight
  ImplementsMembership
