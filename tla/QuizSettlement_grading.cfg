\* One attempt, gradings, browser scores, regrades, a closing whose hook may be lost.
SPECIFICATION FairSpec
CONSTANTS
  Student = {s1}
  Scores = {0, 1}
  TimeLimit = 1
  BrowserGrace = 1
  QueuedLimit = 2
  Faults = {"hook"}
  MaxAttempts = 1
  MaxRevision = 1
  MaxSubmissions = 3
  MaxVersion = 3
INVARIANTS AttemptsInv GradedOnEverything ResultsExplained
PROPERTIES LockedPaper SettlingEnds OverdueEnds
