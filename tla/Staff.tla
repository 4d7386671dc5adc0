------------------------------- MODULE Staff -------------------------------
(***************************************************************************)
(* The users with management rights and what each of them manages          *)
(* (users/scopes.py).  Every management module extends it.                 *)
(***************************************************************************)
CONSTANTS
  Teacher,        \* teachers and platform administrators
  Admin,          \* the platform administrators among them
  Grade,          \* the grades of the school
  ManagedGrade,   \* the grade a teacher manages
  None            \* no value

ASSUME StaffAssumption ==
  /\ Admin \subseteq Teacher
  /\ ManagedGrade \in [Teacher -> Grade]

\* Platform administrators manage every grade, teachers the one they have.
Manages(t, g) == t \in Admin \/ ManagedGrade[t] = g
=============================================================================
