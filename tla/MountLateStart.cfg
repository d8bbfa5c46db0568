CONSTANTS
  b1 = b1
  b2 = b2
  NoBinary = NoBinary
  Binaries = {b1, b2}
  MaxAttempts = 3
  MaxProcesses = 2
  LateStarts = TRUE
  MaxFaults = 2
SPECIFICATION FairSpec
INVARIANT NeverTwoSupervisors
PROPERTIES
  SupervisesRecordedAttempt
  UnstageEnds
  StartingEnds
