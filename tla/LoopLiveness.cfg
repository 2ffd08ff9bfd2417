\* What a fair scheduler and a Human who resumes bring about.
SPECIFICATION FairSpec
CONSTANTS
  MaxCycles  = 1
  Authorized = TRUE
  MaxHead    = 2
  MaxCrashes = 1
  MaxFaults  = 1
  MaxEdits   = 0
PROPERTIES
  EventuallyDecided
  EventuallyPublished
\* A run ends: published, or refused by every resume.
CHECK_DEADLOCK FALSE
