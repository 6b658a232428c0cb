SPECIFICATION Spec
CONSTANTS
  None = None
  Failed = Failed
  MaxEdits = 3
INVARIANT LanguageKept
CHECK_DEADLOCK FALSE
