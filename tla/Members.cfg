SPECIFICATION MCSpec
CONSTANTS
  Conns = {c1, c2, c3}
  ClientIds = {i1, i2, i3}
  LobbyIds = {L1, L2}
  Generations = {g1, g2}
  MessageTypes = {"offer", "voice-reconnect", "share-updated", "chat-message"}
  MaxMessages = 2
  None = None
  Lost = Lost
SYMMETRY MCSymmetry
CONSTRAINT MCBounds
CHECK_DEADLOCK FALSE
INVARIANTS
  SenderIsGenuine
  TokenKnownOnlyToMembers
  NoMemberForgotten
