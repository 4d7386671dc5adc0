\* A sync of the disk between its read and its save, and whoever changes the problem meanwhile.
SPECIFICATION Spec
CONSTANTS
  Parts = {"problems"}
  t1 = t1
  t2 = t2
  g1 = g1
  g2 = g2
  k1 = k1
  k2 = k2
  Teacher = {t1, t2}
  Admin = {t2}
  Grade = {g1, g2}
  ManagedGrade <- MCManagedGrade
  None = None
  Unit = {u1, u2, u3}
  Question = {q1}
  Name = {n1, n2}
  Content = {c1}
  MaxVersion = 2
  MaxRows = 3
  Problem = {p1}
  Section = {s1}
  SectionGrade <- MCSectionGrade
  Class = {k1, k2}
  Text = {x1}
  Disk <- MCDisk
  Chosen <- MCChosen
  MaxProblemWrites = 3
  MaxSyncs = 1
INVARIANT VersionTellsProblem
