\* One turn and one kill.
CONSTANTS
  Procs = {p1, p2}
  Roles = {reviewer, executor}
  Accounts = {A, B}
  First = A
  Own = own
  Changed = changed
  None = none
  MaxTurns = 1
  MaxCrashes = 1
  MaxFaults = 0
  MaxMoves = 0
SPECIFICATION MCSpec
INVARIANT RestoredOrEvidence
