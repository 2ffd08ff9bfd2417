\* Two kills or I/O errors, every checkpoint state.
SPECIFICATION Spec
CONSTANTS
  MaxTime = 1
  MaxTools = 1
  MaxSuffix = 4
  MaxUpsets = 2
INVARIANTS
  TypeOK
  KilledRunResumes
  ElapsedNeverBack
  EndAgrees
PROPERTY
  TimeContinues
\* a run whose log is refused stays down
CHECK_DEADLOCK FALSE
