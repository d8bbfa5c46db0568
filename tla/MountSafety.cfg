CONSTANTS
  b1 = b1
  b2 = b2
  NoBinary = NoBinary
  Binaries = {b1, b2}
  MaxAttempts = 4
  MaxProcesses = 4
  LateStarts = FALSE
  MaxFaults = 3
SPECIFICATION Spec
SYMMETRY BinarySymmetry
INVARIANTS
  TypeOK
  OneSupervisor
  UnitOfAttempt
  FilesOfAttempt
  ActiveProcessRecorded
PROPERTIES
  StopLeavesNothing
  WritesAccepted
  ImplementsContract
