CONSTANTS
  n1 = n1
  p1 = p1
  p2 = p2
  h1 = h1
  h2 = h2
  h3 = h3
  NoVolume = NoVolume
  Names = {n1}
  Prefixes = {p1, p2}
  Handlers = {h1, h2, h3}
  MaxLate = 2
  MaxFaults = 2
SPECIFICATION FairSpec
INVARIANTS
  TypeOK
  ProvisionedIsComplete
  DeletedIsFree
PROPERTIES
  CreateEnds
  DeleteEnds
CHECK_DEADLOCK FALSE
