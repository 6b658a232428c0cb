SPECIFICATION FairSpec
CONSTANTS
  f1 = f1
  f2 = f2
  Files = {f1, f2}
  Stages = 2
INVARIANTS
  DesktopJobSound
  FailedKeepsOriginal
  CompletedMeansPublished
PROPERTIES
  WorkerStops
  CancelEndsStream
CHECK_DEADLOCK FALSE
