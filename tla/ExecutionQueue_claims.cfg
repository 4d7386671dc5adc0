\* Two runners of one slot each, two users, three tasks, no recovery limit
\* smaller than the code's two attempts.
SPECIFICATION Spec
CONSTANTS
  Task <- Three
  User = {u1, u2}
  Runner = {r1, r2}
  NoUser = NoUser
  NoRunner = NoRunner
  Requested = {"run", "grade"}
  Reported = {"succeeded", "wrong_answer"}
  QueueTTL = 1
  LeaseTTL = 1
  StaleAfter = 0
  MaxAttempts = 2
  QueuedLimit = 2
  RunningLimit = 1
  RequireHealthyRunner = FALSE
  Capacity = 1
INVARIANT QInv
INVARIANT OneRunningPerUser
INVARIANT LoadBounded
INVARIANT SubmissionMirrorsTask
PROPERTY ResultsStick
PROPERTY RefinesLifecycle
SYMMETRY Symmetry
