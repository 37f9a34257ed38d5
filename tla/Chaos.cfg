SPECIFICATION FairSpec
CONSTANTS
  Jobs = {j1}
  NoJob = NoJob
  WorkerIds = {w1, w2, w3}
  NoWorker = NoWorker
  Procs = {w1, w2, w3}
  Slots = {w1, w2, w3}
  Schedulers = {d1}
  Requests = {r1}
  IdOf <- OwnId
  ProcOf <- OneSlot
  CanFail = {}
  CanSucceed = {j1}
  MaxAttempts = 2
  Fencing = TRUE
  Budget <- ChaosBudget
INVARIANTS
  AtMostOneEffect
  RunsAlone
  NothingLost
  AtMostOneCopy
PROPERTIES
  FollowsLifecycle
  EverythingSettles
