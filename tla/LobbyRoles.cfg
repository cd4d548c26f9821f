SPECIFICATION Spec
CONSTANTS
  Conns = {c1, c2, c3}
  ClientIds = {i1, i2}
  LobbyIds = {L1}
  VirtualIps = {v1, v2}
  Passwords = {""}
  EmptyPassword = ""
  Generations = {1}
  Sources <- MCSources
  SourceOf <- MCSourceOf
  MaxRequests = {0, 1}
  MAX_LOBBY_MEMBERS = 2
  MAX_FAILURES = 1
  None = None
SYMMETRY MCSymmetry
CHECK_DEADLOCK FALSE
INVARIANTS
  LobbiesWellFormed
  NoGhostMember
  LosersAreTold
PROPERTIES
  HostChangesOnlyByRight
  MembershipChangeRotatesToken
