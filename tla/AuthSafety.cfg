\* Two turns; a kill, an exception, a switched account or reused process id.
CONSTANTS
  Procs = {p1, p2}
  Roles = {reviewer, executor}
  Accounts = {A, B}
  First = A
  Own = own
  Changed = changed
  None = none
  MaxTurns = 2
  MaxCrashes = 1
  MaxFaults = 1
  MaxMoves = 1
SPECIFICATION MCSpec
INVARIANTS TypeOK OriginalRecoverable OneTransaction ProjectedWhileRunning
PROPERTIES LaunchesBoundAccount ProjectionEnds StaleIsRecovered
