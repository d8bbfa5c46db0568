CONSTANTS
  v1 = v1
  v2 = v2
  t1 = t1
  t2 = t2
  s1 = s1
  s2 = s2
  w1 = w1
  w2 = w2
  single = single
  multiNode = multiNode
  multiWriter = multiWriter
  NoWorker = NoWorker
  NoStage = NoStage
  Volumes = {v1}
  Targets = {t1, t2}
  Stagings = {s1, s2}
  Workers = {w1, w2}
  Modes = {single, multiNode, multiWriter}
  MultiModes = {multiNode, multiWriter}
  VolumeOf <- OneVolume
  MaxFaults = 3
SPECIFICATION Spec
SYMMETRY WorkerSymmetry
INVARIANTS
  IInv
  BoundImpliesRecord
  NoStackedBind
  PublishedAsRequested
  AnswersHold
  AccessExclusive
  ConsumersKeepStage
  StoppingHasNoConsumer
PROPERTY ImplementsContract
