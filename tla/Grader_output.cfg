\* Two cases; a text may be one byte longer than the bytes it is made of.
SPECIFICATION GraderSpec
CONSTANTS
  Cases = 2
  CaseTime = 2
  TaskTime = 3
  ShortestWall = 2
  FallbackTime = 3
  KillTime = 1
  ReportSlack = 1
  OutputBytes = 2
  MaxOutput = 2
  MaxResult = 3
  Growth = 1
INVARIANT AnyOutputIsStored
