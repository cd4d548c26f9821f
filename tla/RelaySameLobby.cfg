SPECIFICATION RelaySpec
CONSTANTS
  Conns = {c1, c2, c3}
  ClientIds = {i1, i2}
  LobbyIds = {L1, L2}
  Generations = {g1, g2}
  MessageTypes = {"offer", "voice-reconnect", "share-updated", "chat-message"}
  MaxMessages = 1
  None = None
SYMMETRY MCSymmetry
CHECK_DEADLOCK FALSE
INVARIANTS
  SameLobby
