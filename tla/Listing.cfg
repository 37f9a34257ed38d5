SPECIFICATION FairSpec
CONSTANTS
  Jobs <- FourJobs
  Created <- Times
  PerMs = 2
  Limit = 1
  Filter <- DeadOnly
  Old <- DeadAtFirst
  Changes = 2
  Failures = 1
  Visits = 1
INVARIANTS
  InOrder
  SkippedOnlyWithinAMillisecond
  AcknowledgedStaysReplayed
PROPERTY
  EventuallyFresh
CHECK_DEADLOCK FALSE
