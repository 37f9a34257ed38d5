SPECIFICATION FairSpec
CONSTANTS
  Workers = {w1, w2}
  Schedulers = {d1}
  Servers = {a1}
  Capacity = 1
  MaxOpen = 1
  Team <- Teams
  Budget <- OneOfEachCause
  Together = 2
INVARIANTS
  TypeOK
  PermitsConserved
  UnattendedIsIdle
  ParentLeavesLast
  CrashIsReported
  OneStopIsPatient
PROPERTY
  TreeComesDown
CHECK_DEADLOCK FALSE
