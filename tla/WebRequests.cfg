\* A completion and a claim; one repetition, and a receipt that lives exactly as
\* long as it has to.  Three overlapping requests about two students, by a
\* teacher of one grade and an administrator.  Three requests with two keys, two
\* at a time.  Two test cases, and texts that grow by a byte.  Two attempts of a student in
\* a quiz that is closed, reopened and closed again.
SPECIFICATION PartsSpec
CONSTANTS
  complete = complete
  claim = claim
  Request = {complete, claim}
  Claims = {claim}
  Retries = 1
  TryTime = 2
  ValidFor = 2
  ServeTime = 1
  ReceiptTTL = 4
  None = None
  t1 = t1
  a1 = a1
  Teacher = {t1, a1}
  Admin = {a1}
  g1 = g1
  g2 = g2
  Grade = {g1, g2}
  ManagedGrade <- Managed
  seat1 = seat1
  seat2 = seat2
  Seat = {seat1, seat2}
  SeatGrade <- Seats
  Student = {x1, x2}
  p1 = p1
  pupil = pupil
  Password = {p1, p2}
  Key = {k1, k2}
  NewKey = k2
  Worker = {w1, w2}
  RevealLimit = 1
  Minute = 1
  TokenLife = 1
  MaxRequests = 3
  IdKey = {i1, i2}
  Sender = {s1, s2}
  Version = {v1, v2}
  NoTask = NoTask
  QueuedMost = 1
  RunningMost = 1
  MaxSends = 2
  Cases = 2
  CaseTime = 2
  TaskTime = 3
  ShortestWall = 2
  FallbackTime = 3
  KillTime = 1
  ReportSlack = 1
  OutputBytes = 2
  MaxOutput = 2
  MaxResult = 3
  Growth = 1
INVARIANTS ReceiptsInv AtMostOnce ToldTheTruth
INVARIANTS GraderInv RefusedForCause
INVARIANTS AnswersMatch RepeatsRecognised
INVARIANTS AccountsInv PasswordsInv
INVARIANTS AttemptsInv
PROPERTIES FreshTokenStays CloseSettles
SYMMETRY Symmetry
