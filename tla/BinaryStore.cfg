CONSTANTS
  d1 = d1
  d2 = d2
  d3 = d3
  i1 = i1
  i2 = i2
  v1 = v1
  Nothing = Nothing
  Digests = {d1, d2, d3}
  Installers = {i1, i2}
  Volumes = {v1}
  Overlap = FALSE
  MaxFaults = 3
SPECIFICATION FairSpec
INVARIANTS
  TypeOK
  DesiredRunnable
  InstallDurable
  RecordedBinariesPresent
PROPERTIES
  CollectsOnlyUnused
  InstallSucceeds
