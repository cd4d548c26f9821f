SPECIFICATION NodesSpec
CONSTANTS
  Nodes = {n1, n2}
  Submitters = {s1}
  Sweeper = Sweeper
  Capacity = 1
  MaxOffline = 2
  MaxProbe = 0
  ProbePermits = 1
  Nothing = Nothing
  Outgrown = {}
SYMMETRY MCSymmetry
PROPERTIES
  RestartKeepsLiveNodes
