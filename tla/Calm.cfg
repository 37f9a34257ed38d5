SPECIFICATION FairSpec
CONSTANTS
  Jobs = {j1}
  NoJob = NoJob
  WorkerIds = {w1, w2}
  NoWorker = NoWorker
  Procs = {w1, w2}
  Slots = {w1, w2}
  Schedulers = {d1, d2}
  Requests = {r1}
  IdOf <- OwnId
  ProcOf <- OneSlot
  CanFail = {j1}
  CanSucceed = {j1}
  MaxAttempts = 2
  Fencing = TRUE
  Budget <- CalmBudget
INVARIANTS
  ExactlyOneCopy
  RunningIsAttended
PROPERTIES
  FinishedStaysFinished
  FollowsLifecycle
  EverythingSettles
