----------------------------- MODULE MCQuizzes -----------------------------
(***************************************************************************)
(* Small instances of InfoQuiz, a quiz with the attempts of a student, and *)
(* of QuizPublishing, quizzes as teachers manage them, for TLC.  The two   *)
(* share no state: a behaviour is one of the part it starts with.          *)
(***************************************************************************)
EXTENDS InfoQuiz, QuizPublishing, TLC

CONSTANTS t1, t2, g1, g2, b1, p1, k1, s1, s2

VARIABLE part

MCManagedGrade == [t \in Teacher |-> g1]
MCPlace == (s1 :> [grade |-> g1, class |-> k1]) @@ (s2 :> [grade |-> g2, class |-> k1])

\* An easy question and a problem.
MCContents ==
  {[grade |-> g1, units |-> {b1}, ratio |-> ("easy" :> 1 @@ "hard" :> 0),
    choicePoints |-> 1, items |-> {p1}, itemPoints |-> 1]}

MCScopes ==
  {[scope |-> "all_school", grade |-> None, class |-> None, active |-> TRUE],
   [scope |-> "grade_all", grade |-> g1, class |-> None, active |-> TRUE]}

QuizzesInit == part \in {"attempts", "publishing"} /\ Init /\ PublishingInit

QuizzesNext ==
  /\ UNCHANGED part
  /\ \/ part = "attempts" /\ Next /\ UNCHANGED quizVars
     \/ part = "publishing" /\ PublishingNext /\ UNCHANGED vars

QuizzesSpec == QuizzesInit /\ [][QuizzesNext]_<<part, vars, quizVars>>

\* Ids are compared for equality only, and so are the teachers of InfoQuiz.
Symmetry == Permutations(Quiz) \union Permutations(BankQuestion) \union Permutations(Examiner)
=============================================================================
