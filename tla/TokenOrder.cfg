SPECIFICATION Spec
CONSTANTS
  Conns = {c1, c2, c3}
  ClientIds = {i1, i2, i3}
  LobbyIds = {L1}
  Generations = {1}
  None = None
  Lost = Lost
SYMMETRY MCSymmetry
CHECK_DEADLOCK FALSE
PROPERTIES
  TokensArriveInOrder
