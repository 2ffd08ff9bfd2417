\* README.md: the final result tells whether the Runtime was changed.
SPECIFICATION Spec
CONSTANTS
  MaxCycles  = 1
  Authorized = TRUE
  MaxHead    = 2
  MaxCrashes = 1
  MaxFaults  = 0
  MaxEdits   = 1
INVARIANT
  NotAppliedIsNotApplied
\* A run ends: published, or refused by every resume.
CHECK_DEADLOCK FALSE
