SPECIFICATION Spec
CONSTANTS
  c1 = c1
  c2 = c2
  c3 = c3
  i1 = i1
  i2 = i2
  i3 = i3
  Conns <- ThreeConns
  ClientIds <- ThreeIds
  IdOf <- NoneShare
  None = None
  MaxRequests = 0
INVARIANTS
  JoinedDeparturesReach
CHECK_DEADLOCK FALSE
