SPECIFICATION Spec
CONSTANTS
  Jobs <- FourJobs
  Created <- Times
  PerMs = 2
  Limit = 1
  Filter <- DeadOnly
  Old <- DeadAtFirst
  Changes = 2
  Failures = 1
  Visits = 1
INVARIANT
  NothingSkipped
CHECK_DEADLOCK FALSE
