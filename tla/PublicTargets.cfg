SPECIFICATION ProbeSpec
CONSTANTS
  Names <- MCNames
  NameLength <- MCNameLength
  WithColon = {"hex", "decimal", "numbered"}
  EndInPort = {"decimal"}
  Ports = {0, 80, 443, 11010, 65536}
  Paths = {"q"}
  PathLength <- MCPathLength
  MaxLength = 25
  NoPath = NoPath
  Absent = Absent
  Cases <- UnnamedCases
  MaxTargets = 2
  AllowPrivate = FALSE
CHECK_DEADLOCK FALSE
INVARIANTS
  OnlyPublicContacted
