SPECIFICATION Spec
CONSTANTS
  f1 = f1
  f2 = f2
  Files = {f1, f2}
  Stages = 1
PROPERTIES
  CancelSticks
CHECK_DEADLOCK FALSE
