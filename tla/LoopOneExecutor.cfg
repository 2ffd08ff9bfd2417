\* README.md: one mutation Executor at a time.
SPECIFICATION Spec
CONSTANTS
  MaxCycles  = 1
  Authorized = TRUE
  MaxHead    = 2
  MaxCrashes = 1
  MaxFaults  = 0
  MaxEdits   = 0
INVARIANT
  OneExecutor
\* A run ends: published, or refused by every resume.
CHECK_DEADLOCK FALSE
