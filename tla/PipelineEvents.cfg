SPECIFICATION FairSpec
CONSTANTS
  r1 = r1
  r2 = r2
  Runs = {r1, r2}
  CallbackRuns = {r2}
  N <- ThreeOne
  Stages = 2
  Workers = 1
INVARIANTS
  EventsLegal
  OutcomeTold
PROPERTIES
  RunReturns
CHECK_DEADLOCK FALSE
