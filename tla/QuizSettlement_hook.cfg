\* A quiz without a time limit whose closing hook may be lost.
SPECIFICATION FairSpec
CONSTANTS
  Student = {s1}
  Scores = {0}
  TimeLimit = 0
  BrowserGrace = 1
  QueuedLimit = 2
  Faults = {"hook"}
  MaxAttempts = 2
  MaxRevision = 0
  MaxSubmissions = 1
  MaxVersion = 3
PROPERTY CloseSettles
