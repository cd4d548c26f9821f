SPECIFICATION Spec
CONSTANTS
  c1 = c1
  c2 = c2
  c3 = c3
  i1 = i1
  i2 = i2
  i3 = i3
  Conns <- ThreeConns
  ClientIds <- TwoIds
  IdOf <- FirstTwoShare
  None = None
  MaxRequests = 1
INVARIANTS
  TypeOK
  NewsIsComing
  MembersMeet
  ListedDeparturesReach
  UnmutedBeforeHost
SYMMETRY SharersSwap
CONSTRAINT MCFailuresFirst
CHECK_DEADLOCK FALSE
