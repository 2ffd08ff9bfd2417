\* README.md: a terminal run is committed and pushed.
SPECIFICATION FairSpec
CONSTANTS
  MaxCycles  = 1
  Authorized = TRUE
  MaxHead    = 2
  MaxCrashes = 0
  MaxFaults  = 1
  MaxEdits   = 0
PROPERTY
  TerminalIsPublished
\* A run ends: published, or refused by every resume.
CHECK_DEADLOCK FALSE
