CONSTANTS
  v1 = v1
  h1 = h1
  h2 = h2
  Nobody = Nobody
  Recovery = Recovery
  Volumes = {v1}
  Handlers = {h1, h2}
  MaxFaults = 2
SPECIFICATION FairSpec
INVARIANT TypeOK
PROPERTIES
  StoppedStaysDown
  RequestsAnswered
  ShutdownEnds
  ServesAgain
