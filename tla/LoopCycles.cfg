\* Two cycles joined by a REJECT, the process killed once.
SPECIFICATION Spec
CONSTANTS
  MaxCycles  = 2
  Authorized = TRUE
  MaxHead    = 3
  MaxCrashes = 1
  MaxFaults  = 0
  MaxEdits   = 0
INVARIANT
  AcceptedWhatWasAudited
PROPERTIES
  NoReplayAfterEffect
  InstructionIsCurrent
\* A run ends: published, or refused by every resume.
CHECK_DEADLOCK FALSE
