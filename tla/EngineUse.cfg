SPECIFICATION FairSpec
CONSTANTS
  d1 = d1
  d2 = d2
  d3 = d3
  ca = ca
  cb = cb
  Calls = {d1, d2, d3}
  Contents = {ca, cb}
  ContentOf <- Content3
  Versions = {1, 2}
  Capacity = 2
  MaxSize = 2
  CachePolicy = "use"
  CacheFaults = FALSE
  ErrWorker = ErrWorker
  NoResult = NoResult
  NoEntry = NoEntry
INVARIANTS
  EngineSound
  NoCallStranded
  NoRedundantCall
PROPERTIES
  CancelOnlyDrains
  ImplementsContract
  AcceptedReturns
  ShutdownEndsLoop
CHECK_DEADLOCK FALSE
