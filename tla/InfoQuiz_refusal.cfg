\* A save that comes past the grace.
SPECIFICATION Spec
CONSTANTS
  Examinee = {s1}
  Examiner = {t1}
  Operations = {"open"}
  Timings = {TRUE, FALSE}
  TimeLimit = 1
  Grace = 1
  MaxAttempts = 2
  MaxRevision = 2
PROPERTY RefusalSettles
