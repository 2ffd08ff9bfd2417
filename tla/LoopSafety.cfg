\* One cycle with every kind of trouble once: a crash, an I/O error, an edit.
SPECIFICATION Spec
CONSTANTS
  MaxCycles  = 1
  Authorized = TRUE
  MaxHead    = 2
  MaxCrashes = 1
  MaxFaults  = 1
  MaxEdits   = 1
INVARIANTS
  TypeOK
  WriteAhead
  WrittenOnce
  AcceptedWhatWasAudited
  CorrectionBudget
  CorrectionRecordValid
  DeclinedRunsKeepRuntime
  CommittedIsWritten
  PublishedAsDecided
  RefusedForCause
PROPERTIES
  NoReplayAfterEffect
  FinalizationIsFinal
  InstructionIsCurrent
  KeepsContract
\* A run ends: published, or refused by every resume.
CHECK_DEADLOCK FALSE
