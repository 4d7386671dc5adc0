\* One task, one runner of one thread, every fault: liveness.
SPECIFICATION FairProtocolSpec
CONSTANTS
  r1 = r1
  r2 = r2
  w1 = w1
  w2 = w2
  Task <- One
  User = {u1}
  Runner = {r1}
  NoUser = NoUser
  NoRunner = NoRunner
  Requested = {"grade"}
  Reported = {"succeeded"}
  QueueTTL = 1
  LeaseTTL = 1
  StaleAfter = 0
  MaxAttempts = 2
  QueuedLimit = 2
  RunningLimit = 1
  RequireHealthyRunner = FALSE
  Capacity = 1
  Worker = {w1}
  RunnerOf <- OneThread
  NoWorker = NoWorker
  Faults = {"loss", "crash", "stop"}
PROPERTY EveryTaskFinishes
