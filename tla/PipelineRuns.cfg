SPECIFICATION Spec
CONSTANTS
  r1 = r1
  r2 = r2
  Runs = {r1, r2}
  CallbackRuns = {r1, r2}
  N <- TwoTwo
  Stages = 1
  Workers = 2
INVARIANTS
  PipelineSound
  ParsedBounded
  OutcomeComplete
CHECK_DEADLOCK FALSE
