\* One task, two runners of one thread: lost answers, late requests, restarts.
SPECIFICATION ProtocolSpec
CONSTANTS
  r1 = r1
  r2 = r2
  w1 = w1
  w2 = w2
  Task <- One
  User = {u1}
  Runner = {r1, r2}
  NoUser = NoUser
  NoRunner = NoRunner
  Requested = {"grade"}
  Reported = {"succeeded", "wrong_answer"}
  QueueTTL = 1
  LeaseTTL = 1
  StaleAfter = 0
  MaxAttempts = 2
  QueuedLimit = 2
  RunningLimit = 1
  RequireHealthyRunner = TRUE
  Capacity = 1
  Worker = {w1, w2}
  RunnerOf <- OwnRunner
  NoWorker = NoWorker
  Faults = {"loss", "crash"}
INVARIANT ProtocolInv
INVARIANT ReportsAgree
SYMMETRY Swap
