\* One kill or I/O error.
SPECIFICATION Spec
CONSTANTS
  MaxTime = 1
  MaxTools = 1
  MaxSuffix = 6
  MaxUpsets = 1
INVARIANT
  ActiveTurnSuffixResumes
CHECK_DEADLOCK FALSE
