SPECIFICATION FairSpec
CONSTANTS
  first = first
  second = second
  order = order
  none = none
  Requests = {first, second}
  Keys = {order}
  NoKey = none
  Asks <- Asked
  Base = 1
  Longest = 4
  MaxAttempts = 3
  Failures = 2
  Faults = 1
  Forgets = 1
INVARIANTS
  TypeOK
  OneJobPerKey
  AnswersAgree
  AppliedOncePerMemory
  SuccessWasAgreed
  FlakyGivenUpForCause
PROPERTIES
  BacksOff
  PromisedJobsFinish
CHECK_DEADLOCK FALSE
