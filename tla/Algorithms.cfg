SPECIFICATION Spec
CONSTANTS
  None = None
  Failed = Failed
  MaxEdits = 3
INVARIANTS
  MatchesReference
  ComparisonFaithful
  RecoveredTimesSound
  HeardOnce
  HeardInTime
  DocumentRoundTrips
CHECK_DEADLOCK FALSE
