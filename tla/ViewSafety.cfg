\* Two runs one after the other and one heartbeat, kill or Human change.
SPECIFICATION Spec
CONSTANTS
  MaxRuns = 2
  MaxUpsets = 1
  MaxEvents = 7
INVARIANTS
  TypeOK
  NewRunAdviceIsSafe
  
  ProgressBelongsToState
  RestIsShown
