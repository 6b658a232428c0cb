SPECIFICATION Spec
CONSTANTS
  w = w
  um = um
  youKnow = youKnow
  None = None
  Word = {w, um, youKnow}
  Parts <- PartsOf
  Filler <- Fillers
  Documents <- Files
  Answers <- Given
  MinWord = 2
  MaxLead = 3
  MaxRuns = 2
INVARIANTS TypeOK BulletsInOrder ReusedTimesKept WordsUnderBullets
PROPERTY RefreshSettles
CHECK_DEADLOCK FALSE
