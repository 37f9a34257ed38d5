SPECIFICATION Spec
CONSTANTS
  Jobs = {j1, j2}
  NoJob = NoJob
  WorkerIds = {w1, w2}
  NoWorker = NoWorker
  Procs = {w1, w2}
  Slots = {s1, s2, s3}
  Schedulers = {}
  Requests = {r1}
  IdOf <- OwnId
  ProcOf <- TwoSlots
  CanFail = {}
  CanSucceed = {j1, j2}
  MaxAttempts = 2
  Fencing = TRUE
  Budget <- RestartBudget
INVARIANTS
  NothingLost
  AtMostOneCopy
CHECK_DEADLOCK FALSE
