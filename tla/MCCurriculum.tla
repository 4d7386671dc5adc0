---------------------------- MODULE MCCurriculum ----------------------------
(***************************************************************************)
(* Small instances of QuestionBank and of Problems for TLC.  The two share *)
(* the staff and no state: a behaviour is one of the part it starts with.  *)
(***************************************************************************)
EXTENDS QuestionBank, Problems, TLC

CONSTANTS Parts, t1, t2, g1, g2, k1, k2

VARIABLE part

\* The teachers manage the first grade; sections are of that grade.
MCManagedGrade == [t \in Teacher |-> g1]
MCSectionGrade == [s \in Section |-> g1]

\* Directories without a grade, and in the directory of a grade the sections are not of.
MCDisk == [text : Text, grade : {None, g2}]

\* A class, or more.
MCChosen == {{k1}, {k1, k2}}

Init == part \in Parts /\ BankInit /\ ProblemsInit

Next ==
  /\ UNCHANGED part
  /\ \/ part = "bank" /\ BankNext /\ UNCHANGED problemVars
     \/ part = "problems" /\ ProblemsNext /\ UNCHANGED bankVars

Spec == Init /\ [][Next]_<<part, bankVars, problemVars>>

\* Units are compared for equality only, and so are their names.
Symmetry == Permutations(Unit) \union Permutations(Name)
=============================================================================
