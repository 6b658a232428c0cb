SPECIFICATION Spec
CONSTANTS
  w = w
  um = um
  youKnow = youKnow
  None = None
  Word = {w, um, youKnow}
  Parts <- PartsOf
  Filler <- Fillers
  Documents <- Files
  Answers <- Given
  MinWord = 2
  MaxLead = 3
  MaxRuns = 2
INVARIANT SplitAgreed
CHECK_DEADLOCK FALSE
