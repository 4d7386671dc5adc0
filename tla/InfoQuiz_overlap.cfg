\* Two teachers whose requests overlap.
SPECIFICATION Spec
CONSTANTS
  Examinee = {s1}
  Examiner = {t1, t2}
  Operations = {"open", "close", "edit"}
  Timings = {TRUE, FALSE}
  TimeLimit = 1
  Grace = 1
  MaxAttempts = 1
  MaxRevision = 1
INVARIANT ClosedMeansSettled
