CONSTANTS
  b1 = b1
  b2 = b2
  NoBinary = NoBinary
  Binaries = {b1, b2}
  MaxAttempts = 3
  MaxProcesses = 3
  LateStarts = FALSE
  MaxFaults = 1
SPECIFICATION Spec
PROPERTY DeletionIsClean
