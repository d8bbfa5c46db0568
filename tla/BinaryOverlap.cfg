CONSTANTS
  d1 = d1
  d2 = d2
  d3 = d3
  i1 = i1
  i2 = i2
  v1 = v1
  Nothing = Nothing
  Digests = {d1, d2}
  Installers = {i1}
  Volumes = {v1}
  Overlap = TRUE
  MaxFaults = 0
SPECIFICATION Spec
PROPERTIES
  CollectsOnlyUnused
