\* A student and two teachers whose requests overlap; a teacher and an administrator who
\* publish a quiz and its copy from a section that loses and gains questions.
SPECIFICATION QuizzesSpec
CONSTANTS
  t1 = t1
  t2 = t2
  g1 = g1
  g2 = g2
  b1 = b1
  p1 = p1
  k1 = k1
  s1 = s1
  s2 = s2
  Teacher = {t1, t2}
  Admin = {t2}
  Grade = {g1, g2}
  ManagedGrade <- MCManagedGrade
  None = None
  Quiz = {z1, z2}
  Difficulty = {"easy", "hard"}
  Contents <- MCContents
  BankSection = {b1}
  BankQuestion = {q1, q2}
  BankProblem = {p1}
  QuizClass = {k1}
  Student = {s1, s2}
  Place <- MCPlace
  MaxRules = 1
  Scopes <- MCScopes
  MaxWrites = 4
  MaxBankChanges = 1
  Examinee = {s1}
  Examiner = {e1, e2}
  Operations = {"open", "close", "edit", "delete", "reset"}
  Timings = {TRUE, FALSE}
  TimeLimit = 1
  Grace = 1
  MaxAttempts = 2
  MaxRevision = 2
SYMMETRY Symmetry
INVARIANT AttemptsInv
INVARIANT ScoredOnLastAnswers
INVARIANT PublishingInv
INVARIANT PaperDrawable
INVARIANT PapersAgree
PROPERTY OnlyViewedIsChanged
PROPERTY SettledStick
