SPECIFICATION Spec
CONSTANTS
  Jobs = {j1}
  NoJob = NoJob
  WorkerIds = {w1, w2}
  NoWorker = NoWorker
  Procs = {w1, w2}
  Slots = {w1, w2}
  Schedulers = {d1}
  Requests = {r1}
  IdOf <- OwnId
  ProcOf <- OneSlot
  CanFail = {}
  CanSucceed = {j1}
  MaxAttempts = 2
  Fencing = TRUE
  Budget <- OneLapse
SYMMETRY SameWorkers
INVARIANTS
  AtMostOneEffect
