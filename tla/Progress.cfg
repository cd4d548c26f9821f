SPECIFICATION MCSpec
CONSTANTS
  Conns = {c1, c2}
  ClientIds = {i1, i2}
  LobbyIds = {L1}
  VirtualIps = {v1, v2}
  Passwords = {""}
  EmptyPassword = ""
  Generations = {1}
  Sources <- MCSources
  SourceOf <- MCSourceOf
  MaxRequests = {}
  MAX_LOBBY_MEMBERS = 2
  MAX_FAILURES = 1
  Nodes = {n1}
  Submitters = {s1}
  Sweeper = Sweeper
  Bad = Bad
  Lost = Lost
  None = None
  Nothing = Nothing
CHECK_DEADLOCK FALSE
PROPERTIES
  ToldTasksEnd
  VanishedPeersLeave
  PendingPlacesReturn
  SilentAreReclaimed
  MembersShareToken
  DeadNodesLeave
