\* README.md: a run interrupted in its Executor turn is still published.
SPECIFICATION FairSpec
CONSTANTS
  MaxCycles  = 1
  Authorized = TRUE
  MaxHead    = 2
  MaxCrashes = 1
  MaxFaults  = 0
  MaxEdits   = 0
PROPERTY
  CrashedRunIsPublished
\* A run ends: published, or refused by every resume.
CHECK_DEADLOCK FALSE
