SPECIFICATION Spec
CONSTANTS
  Jobs = {j1}
  NoJob = NoJob
  WorkerIds = {w1}
  NoWorker = NoWorker
  Procs = {p1, p2}
  Slots = {p1, p2}
  Schedulers = {d1}
  Requests = {r1}
  IdOf <- OneId
  ProcOf <- OneSlot
  CanFail = {j1}
  CanSucceed = {j1}
  MaxAttempts = 2
  Fencing = TRUE
  Budget <- StormBudget
SYMMETRY SameProcs
INVARIANTS
  TypeOK
  EffectsFenced
  SucceededByItsOwner
  NoGhost
