-------------------------- MODULE WebRequestProofs --------------------------
(***************************************************************************)
(* Theorems about what the web process promises a caller that repeats      *)
(* itself, the receipts of the runners' signed requests (RequestReceipts)  *)
(* and the idempotency keys of the students' code (Submissions), and about *)
(* the results those requests carry (Grader).                              *)
(***************************************************************************)
EXTENDS RequestReceipts, Submissions, Grader, FiniteSetTheorems, TLAPS

-----------------------------------------------------------------------------
(* Grader: for every number of test cases and all limits of time and       *)
(* output, what a grade says is what its cases came to, and the web        *)
(* process refuses a result only for a known cause.                        *)

USE GraderAssumption, LimitsAgree

-----------------------------------------------------------------------------
(* Statuses *)

\* The order of the statuses.
LEMMA SeverityFacts ==
  /\ GradeResults = {"succeeded", "wrong_answer", "runtime_error", "timed_out",
                     "resource_limited", "system_error"}
  /\ Severity["succeeded"] = 0 /\ Severity["wrong_answer"] = 1
  /\ Severity["runtime_error"] = 2 /\ Severity["timed_out"] = 3
  /\ Severity["resource_limited"] = 4 /\ Severity["system_error"] = 5
  BY DEF GradeResults, Severity

LEMMA SeverityType ==
  /\ \A s \in GradeResults : Severity[s] \in Nat /\ Severity[s] <= 5
  /\ \A s \in GradeResults : Severity[s] = 0 <=> s = "succeeded"
  /\ \A s \in GradeResults : Severity[s] >= 3
       <=> s \in {"timed_out", "resource_limited", "system_error"}
  BY SeverityFacts

\* The worse of two statuses is one of them, and not milder than either.
LEMMA MoreSevereFacts ==
  ASSUME NEW a \in GradeResults, NEW b \in GradeResults
  PROVE  /\ MoreSevere(a, b) \in {a, b}
         /\ Severity[a] <= Severity[MoreSevere(a, b)]
         /\ Severity[b] <= Severity[MoreSevere(a, b)]
  BY SeverityType DEF MoreSevere

\* The status of a test is that of a result, or that it passed.
LEMMA TestFacts ==
  ASSUME NEW t \in TestResult
  PROVE  /\ t.actual \in Nat
         /\ t.status # "passed" =>
              /\ t.status \in GradeResults /\ t.status # "system_error"
              /\ Severity[t.status] >= 1 /\ Severity[t.status] <= 5
  BY SeverityFacts DEF TestResult

-----------------------------------------------------------------------------
(* Cases passed *)

\* The number of tests passed: all of them unless one failed.
LEMMA PassedFacts ==
  ASSUME NEW marks \in Seq(TestResult)
  PROVE  /\ Passed(marks) \in Nat /\ Passed(marks) <= Len(marks)
         /\ Failed(marks) => Passed(marks) < Len(marks)
         /\ ~Failed(marks) => Passed(marks) = Len(marks)
<1> DEFINE P == {i \in DOMAIN marks : marks[i].status = "passed"}
<1>1. DOMAIN marks = 1..Len(marks) /\ Len(marks) \in Nat
  OBVIOUS
<1>2. IsFiniteSet(1..Len(marks)) /\ Cardinality(1..Len(marks)) = Len(marks)
  <2> DEFINE n == Len(marks)
  <2>1. 1 \in Int /\ n \in Int /\ n \in Nat
    BY <1>1
  <2> HIDE DEF n
  <2>2. IsFiniteSet(1..n) /\ Cardinality(1..n) = IF 1 > n THEN 0 ELSE n - 1 + 1
    BY <2>1, FS_Interval
  <2>3. IsFiniteSet(1..n) /\ Cardinality(1..n) = n
    BY <2>1, <2>2
  <2>4. QED BY <2>3 DEF n
<1>3. P \in SUBSET (1..Len(marks))
  BY <1>1
<1>4. /\ IsFiniteSet(P) /\ Cardinality(P) <= Cardinality(1..Len(marks))
      /\ Cardinality(1..Len(marks)) = Cardinality(P) => 1..Len(marks) = P
  BY <1>2, <1>3, FS_Subset
<1>5. Cardinality(P) \in Nat
  BY <1>4, FS_CardinalityType
<1>6. Failed(marks) => P # 1..Len(marks)
  BY <1>1 DEF Failed
<1>7. ~Failed(marks) => P = 1..Len(marks)
  BY <1>1 DEF Failed
<1>8. Passed(marks) = Cardinality(P)
  BY DEF Passed
<1>9. Cardinality(P) <= Len(marks)
  BY <1>2, <1>4
<1>10. Failed(marks) => Cardinality(P) # Len(marks)
  BY <1>2, <1>4, <1>6
<1>11. ~Failed(marks) => Cardinality(P) = Len(marks)
  BY <1>2, <1>7
<1> HIDE DEF P
<1>12. QED BY <1>1, <1>5, <1>8, <1>9, <1>10, <1>11

\* One more test.
LEMMA AppendFacts ==
  ASSUME NEW marks \in Seq(TestResult), NEW t \in TestResult
  PROVE  /\ Append(marks, t) \in Seq(TestResult)
         /\ Len(Append(marks, t)) = Len(marks) + 1
         /\ \A i \in DOMAIN Append(marks, t) :
              \/ i \in DOMAIN marks /\ Append(marks, t)[i] = marks[i]
              \/ Append(marks, t)[i] = t
         /\ Failed(Append(marks, t)) <=> Failed(marks) \/ t.status # "passed"
<1>1. /\ Append(marks, t) \in Seq(TestResult)
      /\ Len(Append(marks, t)) = Len(marks) + 1
      /\ Len(marks) \in Nat
      /\ DOMAIN marks = 1..Len(marks)
      /\ DOMAIN Append(marks, t) = 1..(Len(marks) + 1)
      /\ Append(marks, t)[Len(marks) + 1] = t
      /\ \A i \in 1..Len(marks) : Append(marks, t)[i] = marks[i]
  OBVIOUS
<1>2. \A i \in DOMAIN Append(marks, t) :
         i \in DOMAIN marks \/ i = Len(marks) + 1
  <2> DEFINE n == Len(marks)
  <2>1. n \in Nat /\ DOMAIN marks = 1..n /\ DOMAIN Append(marks, t) = 1..(n + 1)
    BY <1>1
  <2> HIDE DEF n
  <2>2. \A i \in 1..(n + 1) : i \in 1..n \/ i = n + 1
    BY SMTT(30), <2>1
  <2>3. QED BY <2>1, <2>2 DEF n
<1>3. Failed(Append(marks, t)) <=> Failed(marks) \/ t.status # "passed"
  <2>1. ASSUME Failed(marks) PROVE Failed(Append(marks, t))
    <3>1. PICK i \in DOMAIN marks : marks[i].status # "passed"
      BY <2>1 DEF Failed
    <3>2. i \in DOMAIN Append(marks, t) /\ Append(marks, t)[i] = marks[i]
      BY <1>1
    <3>3. QED BY <3>1, <3>2 DEF Failed
  <2>2. ASSUME t.status # "passed" PROVE Failed(Append(marks, t))
    <3>1. Len(marks) + 1 \in DOMAIN Append(marks, t)
      BY <1>1
    <3>2. QED BY <1>1, <2>2, <3>1 DEF Failed
  <2>3. ASSUME Failed(Append(marks, t)), t.status = "passed" PROVE Failed(marks)
    <3>1. PICK i \in DOMAIN Append(marks, t) : Append(marks, t)[i].status # "passed"
      BY <2>3 DEF Failed
    <3>2. i \in DOMAIN marks /\ Append(marks, t)[i] = marks[i]
      BY <1>1, <1>2, <2>3, <3>1
    <3>3. QED BY <3>1, <3>2 DEF Failed
  <2>4. QED BY <2>1, <2>2, <2>3
<1>4. QED BY <1>1, <1>2, <1>3

-----------------------------------------------------------------------------
(* What a step makes of the task *)

LEMMA StartFacts ==
  /\ "succeeded" \in GradeResults /\ "system_error" \in GradeResults
  /\ << >> \in Seq(TestResult) /\ Len(<< >>) = 0 /\ DOMAIN << >> = {}
  /\ ~Failed(<< >>)
  /\ \A kind \in {"run", "grade"} : Fresh(kind) \in Evaluation
  /\ NoProgram \in Child
  /\ Nothing \in Reported
<1>1. "succeeded" \in GradeResults /\ "system_error" \in GradeResults
  BY SeverityFacts
<1>2. << >> \in Seq(TestResult) /\ Len(<< >>) = 0 /\ DOMAIN << >> = {}
  OBVIOUS
<1>3. ~Failed(<< >>)
  BY <1>2 DEF Failed
<1>4. \A kind \in {"run", "grade"} : Fresh(kind) \in Evaluation
  BY <1>1, <1>2 DEF Fresh, Evaluation
<1>5. NoProgram \in Child
  BY DEF NoProgram, Child
<1>6. Nothing \in Reported
  BY <1>1, <1>2 DEF Nothing, Reported, NoScore
<1>7. QED BY <1>1, <1>2, <1>3, <1>4, <1>5, <1>6

\* What a text is counted as; one that did not grow is within the budget.
LEMMA TextFacts ==
  ASSUME GraderTypeOK, NEW text \in Texts
  PROVE  /\ text \in Nat
         /\ GrownBy(text) \subseteq {"text"}
         /\ GrownBy(text) = {} => text <= evaluation.left
<1>1. evaluation.left \in Nat /\ program.wrote \in Nat
  BY DEF GraderTypeOK, Evaluation, Child
<1>2. BytesRead \in Nat /\ BytesRead <= evaluation.left
  BY <1>1 DEF BytesRead, Smaller
<1>3. GrowthOf(BytesRead) \in Nat
  BY <1>2 DEF GrowthOf
<1>4. ASSUME NEW n \in Nat PROVE (n + 1) \div 2 \in Nat
  OBVIOUS
<1>5. text \in Nat
  BY <1>2, <1>3, <1>4 DEF Texts
<1>6. GrownBy(text) = {} => text <= BytesRead
  BY <1>2, <1>5 DEF GrownBy
<1>7. QED BY <1>1, <1>2, <1>5, <1>6 DEF GrownBy

\* What a case leaves of the budget, and what has been used and spent after it.
LEMMA BudgetFacts ==
  /\ \A left, text \in Nat : BudgetAfter(left, text) \in Nat /\ BudgetAfter(left, text) <= left
  /\ \A left, used, text \in Nat :
       text <= left => used + text + BudgetAfter(left, text) = used + left
  /\ \A a, b \in Nat : a + b \in Nat
  BY DEF BudgetAfter

\* How the program may have ended.
LEMMA ProcessFacts ==
  /\ ProcessStatus \subseteq {"succeeded", "runtime_error", "timed_out",
                              "resource_limited", "system_error"}
  /\ ProcessStatus \subseteq GradeResults
  /\ ProcessStatus \subseteq RunResults
  BY SeverityFacts DEF ProcessStatus, RunResults

\* The result of a grade, put together.
LEMMA ReportFacts ==
  ASSUME GraderTypeOK, NEW status \in GradeResults, NEW score \in 0..NoScore,
         NEW spent \in Nat, Report(status, score, spent)
  PROVE  /\ GraderTypeOK'
         /\ sent'.status = status /\ sent'.score = score /\ sent'.spent = spent
         /\ sent'.tests = evaluation.tests /\ sent'.text = 0 /\ sent'.nul = FALSE
         /\ evaluation'.at = "reported" /\ evaluation'.kind = evaluation.kind
         /\ evaluation'.left = evaluation.left /\ evaluation'.used = evaluation.used
         /\ evaluation'.spent = evaluation.spent /\ evaluation'.tests = evaluation.tests
         /\ outcome' = outcome
         /\ causes \subseteq causes'
         /\ causes' = {} => sent'.detail = evaluation.used
<1>1. PICK detail \in evaluation.used..(evaluation.used + GrowthOf(evaluation.used)) :
        /\ sent' = [Nothing EXCEPT !.status = status, !.score = score, !.spent = spent,
                                   !.tests = evaluation.tests, !.detail = detail]
        /\ causes' = causes \union (IF detail > evaluation.used THEN {"text"} ELSE {})
  BY DEF Report
<1>2. /\ evaluation' = [evaluation EXCEPT !.at = "reported"] /\ program' = NoProgram
      /\ UNCHANGED <<cancelled, swept, outcome>>
  BY DEF Report
<1>3. evaluation \in Evaluation /\ evaluation.used \in Nat
      /\ evaluation.tests \in Seq(TestResult)
  BY DEF GraderTypeOK, Evaluation
<1>4. GrowthOf(evaluation.used) \in Nat
  BY <1>3 DEF GrowthOf
<1>5. detail \in Nat /\ (~(detail > evaluation.used) => detail = evaluation.used)
  BY SMTT(30), <1>3, <1>4
<1>6. /\ sent' \in Reported
      /\ sent'.status = status /\ sent'.score = score /\ sent'.spent = spent
      /\ sent'.tests = evaluation.tests /\ sent'.text = 0 /\ sent'.detail = detail
      /\ sent'.nul = FALSE
  <2>1. Nothing \in Reported /\ Nothing.text = 0 /\ Nothing.nul = FALSE
    BY StartFacts DEF Nothing
  <2>2. QED BY <1>1, <1>3, <1>5, <2>1 DEF Reported
<1>7. evaluation' \in Evaluation
      /\ evaluation'.at = "reported" /\ evaluation'.kind = evaluation.kind
      /\ evaluation'.left = evaluation.left /\ evaluation'.used = evaluation.used
      /\ evaluation'.spent = evaluation.spent /\ evaluation'.tests = evaluation.tests
  BY <1>2, <1>3 DEF Evaluation
<1>8. causes' = {} => sent'.detail = evaluation.used
  BY <1>1, <1>5, <1>6
<1>9. GraderTypeOK'
  BY <1>1, <1>2, <1>6, <1>7, StartFacts DEF GraderTypeOK
<1>10. QED BY <1>1, <1>2, <1>6, <1>7, <1>8, <1>9

-----------------------------------------------------------------------------
(* The invariant is kept, action by action *)

\* What is shown of every step.
Kept == GraderInv' /\ RefusedForCause'

LEMMA InvParts ==
  ASSUME GraderInv
  PROVE  GraderTypeOK /\ VerdictExplained /\ CasesExplained /\ WithinBudget
  BY DEF GraderInv

LEMMA StartProgramStep ==
  ASSUME GraderInv, RefusedForCause, StartProgram
  PROVE  Kept
<1>1. /\ evaluation \in Evaluation /\ evaluation.spent \in Nat /\ evaluation.left \in Nat
      /\ GraderTypeOK
  BY InvParts DEF GraderTypeOK, Evaluation
<1> DEFINE asked == IF evaluation.kind = "run" THEN CaseTime
                    ELSE Smaller(CaseTime, TaskTime - evaluation.spent)
           tiny == asked < ShortestWall
           wall == IF tiny THEN FallbackTime ELSE asked
<1>2. /\ evaluation.at = "next" /\ evaluation.spent < TaskTime
      /\ evaluation' = [evaluation EXCEPT !.at = "running"]
      /\ program' = [alive |-> TRUE, code |-> 0, wrote |-> 0, start |-> evaluation.spent,
                     deadline |-> evaluation.spent + wall]
      /\ causes' = IF tiny THEN causes \union {"fallback"} ELSE causes
      /\ UNCHANGED <<cancelled, swept, sent, outcome>>
  BY DEF StartProgram
<1>3. asked \in Nat /\ wall \in Nat
      /\ (evaluation.kind # "run" => evaluation.spent + asked <= TaskTime)
  BY <1>1, <1>2 DEF Smaller
<1>4. /\ evaluation' \in Evaluation /\ evaluation'.at = "running"
      /\ evaluation'.kind = evaluation.kind /\ evaluation'.spent = evaluation.spent
      /\ evaluation'.left = evaluation.left /\ evaluation'.used = evaluation.used
      /\ evaluation'.tests = evaluation.tests /\ evaluation'.final = evaluation.final
  BY <1>1, <1>2 DEF Evaluation
<1>5. program' \in Child /\ program'.deadline = evaluation.spent + wall
  BY <1>1, <1>2, <1>3 DEF Child
<1>6. GraderTypeOK'
  BY <1>1, <1>2, <1>4, <1>5 DEF GraderTypeOK
<1>7. VerdictExplained'
  BY <1>4 DEF VerdictExplained
<1>8. CasesExplained'
  BY <1>2, <1>4, InvParts DEF CasesExplained
<1>9. causes' = {} => causes = {} /\ wall = asked
  BY <1>2
<1>10. causes' = {} => evaluation'.spent <= program'.deadline
                       /\ program'.deadline <= TaskTime
  <2>1. evaluation.kind = "run" => evaluation.spent = 0
    BY <1>2, InvParts DEF WithinBudget
  <2>2. evaluation.kind = "run" => asked = CaseTime
    OBVIOUS
  <2> HIDE DEF asked, wall
  <2>3. QED BY <1>1, <1>3, <1>4, <1>5, <1>9, <2>1, <2>2
<1>11. WithinBudget'
  BY <1>2, <1>4, <1>9, <1>10, InvParts DEF WithinBudget
<1>12. RefusedForCause'
  BY <1>2 DEF RefusedForCause
<1>13. QED BY <1>6, <1>7, <1>8, <1>11, <1>12 DEF Kept, GraderInv

\* A step that leaves the task, its result and its deadline as they are.
LEMMA SameTaskStep ==
  ASSUME GraderInv, RefusedForCause, UNCHANGED <<evaluation, sent, outcome, causes>>,
         program' \in Child, program'.deadline = program.deadline,
         cancelled' \in BOOLEAN, swept' \in BOOLEAN
  PROVE  Kept
<1>1. GraderTypeOK'
  BY InvParts DEF GraderTypeOK
<1>2. VerdictExplained'
  BY InvParts DEF VerdictExplained
<1>3. CasesExplained'
  BY InvParts DEF CasesExplained
<1>4. /\ ResultFits(sent)' = ResultFits(sent) /\ ScoreFits(sent)' = ScoreFits(sent)
      /\ SerializerAccepts(sent)' = SerializerAccepts(sent)
  BY DEF ResultFits, ScoreFits, SerializerAccepts
<1>5. WithinBudget'
  BY <1>4, InvParts DEF WithinBudget
<1>6. RefusedForCause'
  BY DEF RefusedForCause
<1>7. QED BY <1>1, <1>2, <1>3, <1>5, <1>6 DEF Kept, GraderInv

\* The program writes, ends or is ended, or the task is cancelled: the poll loop
\* has not looked yet.
LEMMA ProgramSteps ==
  ASSUME GraderInv, RefusedForCause,
         \/ ProgramWrites \/ ProgramEnds \/ SetCancel \/ TerminateAll
         \/ UNCHANGED graderVars
  PROVE  Kept
<1>1. program \in Child /\ cancelled \in BOOLEAN /\ swept \in BOOLEAN
  BY InvParts DEF GraderTypeOK
<1>2. UNCHANGED <<evaluation, sent, outcome, causes>>
  BY DEF ProgramWrites, ProgramEnds, SetCancel, TerminateAll, graderVars
<1>3. cancelled' \in BOOLEAN /\ swept' \in BOOLEAN
  BY <1>1 DEF ProgramWrites, ProgramEnds, SetCancel, TerminateAll, graderVars
<1>4. program' \in Child /\ program'.deadline = program.deadline
  <2>1. CASE ProgramWrites
    BY <1>1, <2>1 DEF ProgramWrites, Child
  <2>2. CASE ProgramEnds
    BY <1>1, <2>2 DEF ProgramEnds, Child
  <2>3. CASE SetCancel \/ UNCHANGED graderVars
    BY <1>1, <2>3 DEF SetCancel, graderVars
  <2>4. CASE TerminateAll
    BY <1>1, <2>4 DEF TerminateAll, Child
  <2>5. QED BY <2>1, <2>2, <2>3, <2>4
<1>5. QED BY <1>2, <1>3, <1>4, SameTaskStep

LEMMA ProgramTakesTimeStep ==
  ASSUME GraderInv, RefusedForCause, ProgramTakesTime
  PROVE  Kept
<1>1. /\ evaluation \in Evaluation /\ evaluation.spent \in Nat
      /\ program \in Child /\ program.deadline \in Nat
  BY InvParts DEF GraderTypeOK, Evaluation, Child
<1>2. /\ evaluation.at = "running" /\ evaluation.spent < program.deadline
      /\ evaluation' = [evaluation EXCEPT !.spent = @ + 1]
      /\ UNCHANGED <<program, cancelled, swept, sent, outcome, causes>>
  BY DEF ProgramTakesTime, Running
<1>3. /\ evaluation' \in Evaluation /\ evaluation'.at = "running"
      /\ evaluation'.kind = evaluation.kind /\ evaluation'.spent = evaluation.spent + 1
      /\ evaluation'.left = evaluation.left /\ evaluation'.used = evaluation.used
      /\ evaluation'.tests = evaluation.tests /\ evaluation'.final = evaluation.final
  <2> DEFINE later == evaluation.spent + 1
  <2>1. later \in Nat /\ evaluation' = [evaluation EXCEPT !.spent = later]
    BY <1>1, <1>2
  <2> HIDE DEF later
  <2>2. /\ evaluation' \in Evaluation /\ evaluation'.at = evaluation.at
        /\ evaluation'.kind = evaluation.kind /\ evaluation'.spent = later
        /\ evaluation'.left = evaluation.left /\ evaluation'.used = evaluation.used
        /\ evaluation'.tests = evaluation.tests /\ evaluation'.final = evaluation.final
    BY <1>1, <2>1 DEF Evaluation
  <2>3. QED BY <1>2, <2>2 DEF later
<1>4. GraderTypeOK'
  BY <1>2, <1>3, InvParts DEF GraderTypeOK
<1>5. VerdictExplained'
  BY <1>3 DEF VerdictExplained
<1>6. CasesExplained'
  BY <1>2, <1>3, InvParts DEF CasesExplained
<1>7. causes = {} => evaluation'.spent <= program.deadline /\ program.deadline <= TaskTime
  BY <1>1, <1>2, <1>3, InvParts DEF WithinBudget
<1>8. WithinBudget'
  BY <1>1, <1>2, <1>3, <1>7, InvParts DEF WithinBudget
<1>9. RefusedForCause'
  BY <1>2 DEF RefusedForCause
<1>10. QED BY <1>4, <1>5, <1>6, <1>8, <1>9 DEF Kept, GraderInv

LEMMA OutOfBudgetStep ==
  ASSUME GraderInv, RefusedForCause, OutOfBudget
  PROVE  Kept
<1> DEFINE trouble == IF evaluation.spent >= TaskTime THEN "timed_out" ELSE "resource_limited"
           final == MoreSevere(evaluation.final, trouble)
<1>1. /\ evaluation \in Evaluation /\ evaluation.spent \in Nat
      /\ evaluation.final \in GradeResults /\ evaluation.tests \in Seq(TestResult)
  BY InvParts DEF GraderTypeOK, Evaluation
<1>2. /\ evaluation.at = "next" /\ (evaluation.spent >= TaskTime \/ evaluation.left = 0)
      /\ evaluation' = [evaluation EXCEPT !.at = "scored", !.final = final]
      /\ UNCHANGED <<program, cancelled, swept, sent, outcome, causes>>
  BY DEF OutOfBudget
<1>3. trouble \in GradeResults /\ trouble \in {"timed_out", "resource_limited"}
      /\ Severity[trouble] >= 3
  BY SeverityFacts
<1>4. /\ final \in {evaluation.final, trouble} /\ final \in GradeResults
      /\ Severity[evaluation.final] <= Severity[final]
      /\ Severity[trouble] <= Severity[final]
  BY <1>1, <1>3, MoreSevereFacts
<1>5. evaluation.kind = "grade"
  <2>1. evaluation.kind \in {"run", "grade"}
    BY <1>1 DEF Evaluation
  <2>2. evaluation.kind = "run" => evaluation.spent = 0 /\ evaluation.left = OutputBytes
    BY <1>2, InvParts DEF WithinBudget
  <2>3. QED BY <1>1, <1>2, <2>1, <2>2
<1> HIDE DEF trouble, final
<1>6. /\ evaluation' \in Evaluation /\ evaluation'.at = "scored"
      /\ evaluation'.kind = "grade" /\ evaluation'.spent = evaluation.spent
      /\ evaluation'.left = evaluation.left /\ evaluation'.used = evaluation.used
      /\ evaluation'.tests = evaluation.tests /\ evaluation'.final = final
  BY <1>1, <1>2, <1>4, <1>5 DEF Evaluation
<1>7. GraderTypeOK'
  BY <1>2, <1>6, InvParts DEF GraderTypeOK
<1>8. VerdictExplained'
  BY <1>6 DEF VerdictExplained
<1>9. /\ evaluation.final # "system_error" /\ Len(evaluation.tests) < Cases
      /\ \A i \in DOMAIN evaluation.tests :
           evaluation.tests[i].status # "passed"
             => Severity[evaluation.tests[i].status] <= Severity[evaluation.final]
  BY <1>2, InvParts DEF CasesExplained
<1>10. final \in {"timed_out", "resource_limited"}
  <2>1. Severity[final] >= 3
    BY <1>3, <1>4, SeverityType
  <2>2. final # "system_error"
    BY <1>3, <1>4, <1>9
  <2>3. QED BY <1>4, <2>1, <2>2, SeverityType
<1>11. \A i \in DOMAIN evaluation.tests :
          evaluation.tests[i].status # "passed"
            => Severity[evaluation.tests[i].status] <= Severity[final]
  <2> TAKE i \in DOMAIN evaluation.tests
  <2> HAVE evaluation.tests[i].status # "passed"
  <2>1. evaluation.tests[i] \in TestResult
    BY <1>1
  <2>2. evaluation.tests[i].status \in GradeResults
    BY <2>1, TestFacts
  <2>3. /\ Severity[evaluation.tests[i].status] \in Nat
        /\ Severity[evaluation.final] \in Nat /\ Severity[final] \in Nat
    BY <1>1, <1>4, <2>2, SeverityType
  <2>4. Severity[evaluation.tests[i].status] <= Severity[evaluation.final]
    BY <1>9
  <2>5. QED BY <1>4, <2>3, <2>4
<1>12. CasesExplained'
  BY <1>6, <1>9, <1>10, <1>11 DEF CasesExplained
<1>13. WithinBudget'
  BY <1>2, <1>6, InvParts DEF WithinBudget
<1>14. RefusedForCause'
  BY <1>2 DEF RefusedForCause
<1>15. QED BY <1>7, <1>8, <1>12, <1>13, <1>14 DEF Kept, GraderInv

LEMMA EndRunStep ==
  ASSUME GraderInv, RefusedForCause, EndRun
  PROVE  Kept
<1>1. /\ evaluation \in Evaluation /\ evaluation.spent \in Nat /\ evaluation.left \in Nat
      /\ GraderTypeOK
  BY InvParts DEF GraderTypeOK, Evaluation
<1>2. /\ evaluation.at = "running" /\ evaluation.kind = "run"
      /\ evaluation' = [evaluation EXCEPT !.at = "reported"]
      /\ program' = NoProgram /\ UNCHANGED <<cancelled, swept, outcome>>
  BY DEF EndRun, Running
<1>3. PICK status \in ProcessStatus, text \in Texts, late \in {0, KillTime}, nul \in BOOLEAN :
        /\ sent' = [Nothing EXCEPT !.status = status, !.text = text, !.nul = nul,
                                   !.spent = evaluation.spent + late]
        /\ causes' = causes \union GrownBy(text) \union (IF nul THEN {"nul"} ELSE {})
  BY DEF EndRun
<1>4. /\ text \in Nat /\ GrownBy(text) \subseteq {"text"}
      /\ GrownBy(text) = {} => text <= evaluation.left
  BY <1>1, TextFacts
<1>5. late \in Nat /\ late <= KillTime /\ evaluation.spent + late \in Nat
  BY <1>1
<1>6. status \in GradeResults /\ status \in RunResults
  BY ProcessFacts
<1>7. /\ sent' \in Reported /\ sent'.status = status /\ sent'.text = text
      /\ sent'.spent = evaluation.spent + late /\ sent'.detail = 0 /\ sent'.nul = nul
  <2> DEFINE took == evaluation.spent + late
  <2>1. Nothing \in Reported /\ Nothing.detail = 0
    BY StartFacts DEF Nothing
  <2>2. took \in Nat /\ sent' = [Nothing EXCEPT !.status = status, !.text = text,
                                                !.nul = nul, !.spent = took]
    BY <1>3, <1>5
  <2> HIDE DEF took
  <2>3. /\ sent' \in Reported /\ sent'.status = status /\ sent'.text = text
        /\ sent'.spent = took /\ sent'.detail = 0 /\ sent'.nul = nul
    BY <1>4, <1>6, <2>1, <2>2 DEF Reported
  <2>4. QED BY <2>3 DEF took
<1>8. /\ evaluation' \in Evaluation /\ evaluation'.at = "reported"
      /\ evaluation'.kind = "run" /\ evaluation'.spent = evaluation.spent
      /\ evaluation'.left = evaluation.left /\ evaluation'.used = evaluation.used
      /\ evaluation'.tests = evaluation.tests
  BY <1>1, <1>2 DEF Evaluation
<1>9. GraderTypeOK'
  BY <1>1, <1>2, <1>3, <1>4, <1>7, <1>8, StartFacts DEF GraderTypeOK
<1>10. VerdictExplained' /\ CasesExplained'
  BY <1>8 DEF VerdictExplained, CasesExplained
<1>11. outcome = "none" /\ outcome' = "none"
  BY <1>2, InvParts DEF WithinBudget
<1>12. ASSUME causes' = {} PROVE SerializerAccepts(sent)' /\ ResultFits(sent)'
  <2>1. causes = {} /\ GrownBy(text) = {} /\ nul = FALSE
    BY <1>3, <1>12
  <2>2. /\ evaluation.left <= OutputBytes
        /\ evaluation.spent <= program.deadline /\ program.deadline <= TaskTime
    BY <1>2, <2>1, InvParts DEF WithinBudget
  <2>3. text <= MaxOutput
    BY <1>1, <1>4, <2>1, <2>2
  <2>4. program.deadline \in Nat
    BY <1>1 DEF GraderTypeOK, Child
  <2>5. evaluation.spent + late <= TaskTime + ReportSlack
    BY <1>1, <1>5, <2>2, <2>4
  <2>6. ResultFits(sent)'
    BY <1>6, <1>7, <1>8, <2>3, <2>5 DEF ResultFits
  <2>7. QED BY <1>7, <2>1, <2>6 DEF SerializerAccepts
<1>13. WithinBudget'
  <2>1. causes' = {} => causes = {}
    BY <1>3
  <2>2. QED BY <1>8, <1>11, <1>12, <2>1, InvParts DEF WithinBudget
<1>14. RefusedForCause'
  BY <1>11 DEF RefusedForCause
<1>15. QED BY <1>9, <1>10, <1>13, <1>14 DEF Kept, GraderInv

\* The result of a grade that explains itself is stored unless there is a cause.
LEMMA ReportStep ==
  ASSUME GraderInv, RefusedForCause, evaluation.kind = "grade",
         evaluation.at \in {"running", "scored"},
         NEW status \in GradeResults, NEW score \in 0..NoScore, NEW spent \in Nat,
         Report(status, score, spent),
         causes = {} => spent <= TaskTime + ReportSlack,
         status = "succeeded" <=> Passed(evaluation.tests) = Cases /\ score = Cases,
         score \in {Passed(evaluation.tests), NoScore},
         status = "wrong_answer" => score < Cases,
         status = "system_error" => score = NoScore,
         \A i \in DOMAIN evaluation.tests :
           evaluation.tests[i].status # "passed"
             => Severity[evaluation.tests[i].status] <= Severity[status],
         Len(evaluation.tests) < Cases
           => status \in {"timed_out", "resource_limited", "system_error"}
  PROVE  Kept
<1>1. /\ GraderTypeOK /\ evaluation \in Evaluation /\ evaluation.used \in Nat
      /\ evaluation.left \in Nat /\ evaluation.tests \in Seq(TestResult)
  BY InvParts DEF GraderTypeOK, Evaluation
<1>2. /\ GraderTypeOK'
      /\ sent'.status = status /\ sent'.score = score /\ sent'.spent = spent
      /\ sent'.tests = evaluation.tests /\ sent'.text = 0 /\ sent'.nul = FALSE
      /\ evaluation'.at = "reported" /\ evaluation'.kind = evaluation.kind
      /\ evaluation'.left = evaluation.left /\ evaluation'.used = evaluation.used
      /\ evaluation'.spent = evaluation.spent /\ evaluation'.tests = evaluation.tests
      /\ outcome' = outcome /\ causes \subseteq causes'
      /\ causes' = {} => sent'.detail = evaluation.used
  BY <1>1, ReportFacts
<1>3. VerdictExplained'
  BY <1>2 DEF VerdictExplained
<1>4. CasesExplained'
  BY <1>2 DEF CasesExplained
<1>5. outcome = "none"
  BY InvParts DEF WithinBudget
<1>6. Len(evaluation.tests) <= Cases
  <2>1. Len(evaluation.tests) \in Nat
    BY <1>1
  <2>2. QED BY <2>1, InvParts DEF CasesExplained
<1>7. ASSUME causes' = {} PROVE SerializerAccepts(sent)' /\ ResultFits(sent)' /\ ScoreFits(sent)'
  <2>1. /\ causes = {} /\ sent'.detail = evaluation.used
        /\ evaluation.used + evaluation.left = OutputBytes
        /\ \A i \in DOMAIN evaluation.tests : evaluation.tests[i].actual <= OutputBytes
    BY <1>2, <1>7, InvParts DEF WithinBudget
  <2>2. evaluation.used <= MaxResult
    BY SMTT(30), <1>1, <2>1
  <2>3. \A i \in DOMAIN evaluation.tests : evaluation.tests[i].actual <= MaxOutput
    <3> TAKE i \in DOMAIN evaluation.tests
    <3>1. evaluation.tests[i] \in TestResult
      BY <1>1
    <3>2. evaluation.tests[i].actual \in Nat /\ evaluation.tests[i].actual <= OutputBytes
      BY <2>1, <3>1, TestFacts
    <3>3. QED BY SMTT(30), <3>2
  <2>4. ResultFits(sent)'
    BY <1>2, <2>1, <2>2 DEF ResultFits
  <2>5. ScoreFits(sent)'
    BY <1>2, <1>6, <2>3 DEF ScoreFits
  <2>6. SerializerAccepts(sent)'
    BY <1>2 DEF SerializerAccepts
  <2>7. QED BY <2>4, <2>5, <2>6
<1>8. WithinBudget'
  <2>1. causes' = {} => causes = {}
    BY <1>2
  <2>2. QED BY <1>2, <1>5, <1>7, <2>1, InvParts DEF WithinBudget
<1>9. RefusedForCause'
  BY <1>2, <1>5 DEF RefusedForCause
<1>10. QED BY <1>2, <1>3, <1>4, <1>8, <1>9 DEF Kept, GraderInv

LEMMA FailGradeStep ==
  ASSUME GraderInv, RefusedForCause, FailGrade
  PROVE  Kept
<1>1. evaluation.at = "running" /\ evaluation.kind = "grade"
  BY DEF FailGrade, Running
<1>2. PICK late \in {0, KillTime} :
        Report("system_error", NoScore, evaluation.spent + late)
  BY DEF FailGrade
<1>3. /\ evaluation.spent \in Nat /\ evaluation.tests \in Seq(TestResult)
      /\ program.deadline \in Nat
  BY InvParts DEF GraderTypeOK, Evaluation, Child
<1>4. causes = {} => evaluation.spent + late <= TaskTime + ReportSlack
  <2>1. causes = {} => evaluation.spent <= TaskTime
    <3>1. causes = {} => program.deadline <= TaskTime /\ evaluation.spent <= program.deadline
      BY <1>1, InvParts DEF WithinBudget
    <3>2. TaskTime \in Nat
      OBVIOUS
    <3>3. QED BY SMTT(30), <1>3, <3>1, <3>2
  <2>2. late \in Nat /\ late <= ReportSlack /\ TaskTime \in Nat /\ ReportSlack \in Nat
    OBVIOUS
  <2>3. QED BY SMTT(30), <1>3, <2>1, <2>2
<1>5. evaluation.spent + late \in Nat
  BY SMTT(30), <1>3
<1>6. /\ "system_error" \in GradeResults /\ NoScore \in 0..NoScore /\ NoScore # Cases
      /\ Severity["system_error"] = 5
  BY SeverityFacts DEF NoScore
<1>7. \A i \in DOMAIN evaluation.tests :
         evaluation.tests[i].status # "passed"
           => Severity[evaluation.tests[i].status] <= Severity["system_error"]
  <2> TAKE i \in DOMAIN evaluation.tests
  <2>1. evaluation.tests[i] \in TestResult
    BY <1>3
  <2>2. QED BY <1>6, <2>1, TestFacts
<1>8. QED BY <1>1, <1>2, <1>4, <1>5, <1>6, <1>7, ReportStep

LEMMA SendScoreStep ==
  ASSUME GraderInv, RefusedForCause, SendScore
  PROVE  Kept
<1> DEFINE passed == Passed(evaluation.tests)
           short == evaluation.final = "succeeded" /\ passed # Cases
<1>1. evaluation.at = "scored"
  BY DEF SendScore
<1>2. Report(IF short THEN "wrong_answer" ELSE evaluation.final, passed, evaluation.spent)
  BY DEF SendScore
<1>3. /\ evaluation.spent \in Nat /\ evaluation.tests \in Seq(TestResult)
      /\ evaluation.final \in GradeResults
  BY InvParts DEF GraderTypeOK, Evaluation
<1>4. /\ evaluation.kind = "grade" /\ evaluation.final # "system_error"
      /\ \A i \in DOMAIN evaluation.tests :
           evaluation.tests[i].status # "passed"
             => Severity[evaluation.tests[i].status] <= Severity[evaluation.final]
      /\ evaluation.final = "wrong_answer" => Failed(evaluation.tests)
      /\ evaluation.final # "succeeded" => \/ Failed(evaluation.tests)
                                           \/ Len(evaluation.tests) < Cases
      /\ Len(evaluation.tests) < Cases => evaluation.final \in {"timed_out", "resource_limited"}
      /\ Len(evaluation.tests) <= Cases
  BY <1>1, InvParts DEF CasesExplained
<1>5. /\ passed \in Nat /\ passed <= Len(evaluation.tests)
      /\ Failed(evaluation.tests) => passed < Len(evaluation.tests)
      /\ ~Failed(evaluation.tests) => passed = Len(evaluation.tests)
      /\ Len(evaluation.tests) \in Nat
  BY SMTT(30), <1>3, PassedFacts
<1>6. Failed(evaluation.tests) => evaluation.final # "succeeded"
  <2> HAVE Failed(evaluation.tests)
  <2>1. PICK i \in DOMAIN evaluation.tests : evaluation.tests[i].status # "passed"
    BY DEF Failed
  <2>2. evaluation.tests[i] \in TestResult
    BY <1>3
  <2>3. /\ Severity[evaluation.tests[i].status] \in Nat
        /\ Severity[evaluation.tests[i].status] >= 1
    BY <2>1, <2>2, TestFacts, SeverityType
  <2>4. Severity[evaluation.tests[i].status] <= Severity[evaluation.final]
    BY <1>4, <2>1
  <2>5. QED BY <2>3, <2>4, SeverityFacts
<1> HIDE DEF passed
<1>7. evaluation.final = "succeeded" <=> passed = Cases
  BY <1>4, <1>5, <1>6
<1>8. Report(evaluation.final, passed, evaluation.spent)
  BY <1>2, <1>7
<1>9. evaluation.final = "wrong_answer" => passed < Cases
  BY <1>4, <1>5
<1>10. causes = {} => evaluation.spent <= TaskTime + ReportSlack
  <2>1. causes = {} => evaluation.spent <= TaskTime + KillTime
    BY InvParts DEF WithinBudget
  <2>2. {TaskTime, KillTime, ReportSlack} \subseteq Nat /\ KillTime <= ReportSlack
    OBVIOUS
  <2>3. QED BY SMTT(30), <1>3, <2>1, <2>2
<1>11. passed \in 0..NoScore
  BY <1>4, <1>5 DEF NoScore
<1>12. passed = Passed(evaluation.tests)
  BY DEF passed
<1>13. QED
  BY <1>1, <1>3, <1>4, <1>7, <1>8, <1>9, <1>10, <1>11, <1>12, ReportStep

LEMMA EvaluationFailsStep ==
  ASSUME GraderInv, RefusedForCause, EvaluationFails
  PROVE  Kept
<1>1. /\ evaluation \in Evaluation /\ evaluation.spent \in Nat /\ GraderTypeOK
      /\ evaluation.kind \in {"run", "grade"}
  BY InvParts DEF GraderTypeOK, Evaluation
<1>2. /\ evaluation.at \in {"next", "running", "scored"} /\ sent' = Nothing
      /\ evaluation' = [evaluation EXCEPT !.at = "reported"]
      /\ program' = NoProgram /\ UNCHANGED <<cancelled, swept, outcome, causes>>
  BY DEF EvaluationFails
<1>3. /\ evaluation' \in Evaluation /\ evaluation'.at = "reported"
      /\ evaluation'.kind = evaluation.kind /\ evaluation'.spent = evaluation.spent
      /\ evaluation'.left = evaluation.left /\ evaluation'.used = evaluation.used
      /\ evaluation'.tests = evaluation.tests
  BY <1>1, <1>2 DEF Evaluation
<1>4. GraderTypeOK'
  BY <1>1, <1>2, <1>3, StartFacts DEF GraderTypeOK
<1>5. /\ sent'.status = "system_error" /\ sent'.score = NoScore /\ sent'.text = 0
      /\ sent'.detail = 0 /\ sent'.spent = 0 /\ sent'.tests = << >> /\ sent'.nul = FALSE
  BY <1>2 DEF Nothing
<1>6. NoScore # Cases /\ NoScore \in Nat
  BY DEF NoScore
<1>7. VerdictExplained'
  BY <1>5, <1>6, StartFacts DEF VerdictExplained
<1>8. CasesExplained'
  BY <1>3 DEF CasesExplained
<1>9. outcome = "none"
  BY <1>2, InvParts DEF WithinBudget
<1>10. SerializerAccepts(sent)' /\ ResultFits(sent)' /\ ScoreFits(sent)'
  <2>1. "system_error" \in GradeResults /\ "system_error" \in RunResults
    BY SeverityFacts DEF RunResults
  <2>2. ResultFits(sent)'
    BY <1>1, <1>5, <2>1 DEF ResultFits
  <2>3. ScoreFits(sent)'
    BY <1>5, StartFacts DEF ScoreFits
  <2>4. SerializerAccepts(sent)'
    BY <1>5 DEF SerializerAccepts
  <2>5. QED BY <2>2, <2>3, <2>4
<1>11. WithinBudget'
  BY <1>2, <1>3, <1>9, <1>10, InvParts DEF WithinBudget
<1>12. RefusedForCause'
  BY <1>2, <1>9 DEF RefusedForCause
<1>13. QED BY <1>4, <1>7, <1>8, <1>11, <1>12 DEF Kept, GraderInv

LEMMA EndCaseStep ==
  ASSUME GraderInv, RefusedForCause, EndCase
  PROVE  Kept
<1>1. /\ evaluation \in Evaluation /\ GraderTypeOK
      /\ evaluation.spent \in Nat /\ evaluation.left \in Nat /\ evaluation.used \in Nat
      /\ evaluation.final \in GradeResults /\ evaluation.tests \in Seq(TestResult)
      /\ Len(evaluation.tests) \in Nat /\ program.deadline \in Nat
  BY SMTT(30), InvParts DEF GraderTypeOK, Evaluation, Child
<1>2. evaluation.at = "running" /\ evaluation.kind = "grade"
  BY DEF EndCase, Running
<1>3. program' = NoProgram /\ UNCHANGED <<cancelled, swept, sent, outcome>>
  BY DEF EndCase
<1> DEFINE Ended(process, case, text, late, actual) ==
        LET marks == Append(evaluation.tests, [status |-> case, actual |-> actual]) IN
        /\ evaluation' = [evaluation EXCEPT
             !.spent = @ + late,
             !.left = BudgetAfter(@, text),
             !.used = @ + text,
             !.final = IF case = "passed" THEN @ ELSE MoreSevere(@, case),
             !.tests = marks,
             !.at = IF process \in {"resource_limited", "timed_out"} \/ Len(marks) = Cases
                    THEN "scored" ELSE "next"]
        /\ causes' = causes \union GrownBy(text)
<1>4. PICK process \in ProcessStatus \ {"system_error"} :
      \E case \in CaseStatus(process), text \in Texts, late \in {0, KillTime} :
      \E actual \in {0, text} : Ended(process, case, text, late, actual)
  BY DEF EndCase
<1>5a. PICK case \in CaseStatus(process), text \in Texts, late \in {0, KillTime} :
      \E actual \in {0, text} : Ended(process, case, text, late, actual)
  BY <1>4
<1>5. PICK actual \in {0, text} : Ended(process, case, text, late, actual)
  BY <1>5a
<1> DEFINE t == [status |-> case, actual |-> actual]
           marks == Append(evaluation.tests, t)
           final == IF case = "passed" THEN evaluation.final
                    ELSE MoreSevere(evaluation.final, case)
           left == BudgetAfter(evaluation.left, text)
           used == evaluation.used + text
           spent == evaluation.spent + late
           at == IF process \in {"resource_limited", "timed_out"} \/ Len(marks) = Cases
                 THEN "scored" ELSE "next"
<1>6. /\ text \in Nat /\ GrownBy(text) \subseteq {"text"}
      /\ GrownBy(text) = {} => text <= evaluation.left
  BY <1>1, TextFacts
<1>7. /\ process \in {"succeeded", "runtime_error", "timed_out", "resource_limited"}
      /\ case \in {"passed", "wrong_answer", "runtime_error", "timed_out",
                   "resource_limited"}
      /\ process \in {"resource_limited", "timed_out"} => case = process
  BY ProcessFacts DEF CaseStatus
<1>8. case # "passed" => case \in GradeResults /\ case # "system_error"
  BY <1>7, SeverityFacts
<1>9. actual \in Nat /\ t \in TestResult /\ t.status = case /\ t.actual = actual
  BY <1>6, <1>7, SeverityFacts DEF TestResult
<1>10. /\ late \in Nat /\ late <= KillTime /\ spent \in Nat
  <2>1. KillTime \in Nat
    OBVIOUS
  <2>2. late \in Nat /\ late <= KillTime
    BY <2>1
  <2>3. spent \in Nat
    BY <1>1, <2>2, BudgetFacts, Zenon
  <2>4. QED BY <2>2, <2>3
<1>11. /\ left \in Nat /\ left <= evaluation.left /\ used \in Nat
       /\ text <= evaluation.left => used + left = evaluation.used + evaluation.left
  BY <1>1, <1>6, BudgetFacts, Zenon
<1>12. /\ final \in GradeResults
       /\ Severity[evaluation.final] <= Severity[final]
       /\ case = "passed" => final = evaluation.final
       /\ case # "passed" => /\ final \in {evaluation.final, case}
                             /\ Severity[case] <= Severity[final]
  <2>1. CASE case = "passed"
    <3>1. final = evaluation.final /\ Severity[evaluation.final] \in Nat
      BY <1>1, <2>1, SeverityType
    <3> HIDE DEF final
    <3>2. QED BY <1>1, <2>1, <3>1
  <2>2. CASE case # "passed"
    <3>1. case \in GradeResults /\ final = MoreSevere(evaluation.final, case)
      BY <1>8, <2>2
    <3> HIDE DEF final
    <3>2. QED BY <1>1, <2>2, <3>1, MoreSevereFacts
  <2>3. QED BY <2>1, <2>2
<1>13. evaluation' = [evaluation EXCEPT !.spent = spent, !.left = left, !.used = used,
                        !.final = final, !.tests = marks, !.at = at]
       /\ causes' = causes \union GrownBy(text)
  BY <1>5
<1>14. /\ marks \in Seq(TestResult) /\ Len(marks) = Len(evaluation.tests) + 1
       /\ \A i \in DOMAIN marks : \/ i \in DOMAIN evaluation.tests
                                     /\ marks[i] = evaluation.tests[i]
                                  \/ marks[i] = t
       /\ Failed(marks) <=> Failed(evaluation.tests) \/ t.status # "passed"
  BY <1>1, <1>9, AppendFacts
<1>15. /\ at \in {"scored", "next"}
       /\ at = "scored" <=> \/ process \in {"resource_limited", "timed_out"}
                            \/ Len(marks) = Cases
  OBVIOUS
<1> HIDE DEF t, marks, final, left, used, spent, at
<1>16. /\ evaluation' \in Evaluation /\ evaluation'.at = at
       /\ evaluation'.kind = "grade" /\ evaluation'.spent = spent
       /\ evaluation'.left = left /\ evaluation'.used = used
       /\ evaluation'.tests = marks /\ evaluation'.final = final
  BY <1>1, <1>2, <1>10, <1>11, <1>12, <1>13, <1>14, <1>15 DEF Evaluation
<1>17. GraderTypeOK'
  BY <1>1, <1>3, <1>6, <1>13, <1>16, StartFacts DEF GraderTypeOK
<1>18. VerdictExplained'
  BY <1>15, <1>16 DEF VerdictExplained
<1>19. /\ evaluation.final # "system_error" /\ Len(evaluation.tests) < Cases
       /\ \A i \in DOMAIN evaluation.tests :
            evaluation.tests[i].status # "passed"
              => Severity[evaluation.tests[i].status] <= Severity[evaluation.final]
       /\ evaluation.final # "succeeded" => Failed(evaluation.tests)
  BY <1>2, InvParts DEF CasesExplained
<1>20. final # "system_error"
  BY <1>8, <1>12, <1>19
<1>21. \A i \in DOMAIN marks :
          marks[i].status # "passed" => Severity[marks[i].status] <= Severity[final]
  <2> TAKE i \in DOMAIN marks
  <2> HAVE marks[i].status # "passed"
  <2>1. CASE marks[i] = t
    BY <1>9, <1>12, <2>1
  <2>2. CASE i \in DOMAIN evaluation.tests /\ marks[i] = evaluation.tests[i]
    <3>1. evaluation.tests[i] \in TestResult
      BY <1>1, <2>2
    <3>2. evaluation.tests[i].status \in GradeResults
      BY <2>2, <3>1, TestFacts
    <3>3. /\ Severity[evaluation.tests[i].status] \in Nat
          /\ Severity[evaluation.final] \in Nat /\ Severity[final] \in Nat
      BY <1>1, <1>12, <3>2, SeverityType
    <3>4. Severity[evaluation.tests[i].status] <= Severity[evaluation.final]
      BY <1>19, <2>2
    <3>5. QED BY <1>12, <2>2, <3>3, <3>4
  <2>3. QED BY <1>14, <2>1, <2>2
<1>22. final # "succeeded" => Failed(marks)
  BY <1>9, <1>12, <1>14, <1>19
<1>23. at = "scored" /\ Len(marks) < Cases => final \in {"timed_out", "resource_limited"}
  <2> HAVE at = "scored" /\ Len(marks) < Cases
  <2>1. Len(marks) # Cases
    BY <1>1, <1>14
  <2>2. process \in {"resource_limited", "timed_out"} /\ case = process
    BY <1>7, <1>15, <2>1
  <2>3. Severity[case] >= 3 /\ Severity[case] \in Nat /\ case # "passed"
    <3>1. CASE case = "resource_limited"
      BY <3>1, SeverityFacts
    <3>2. CASE case = "timed_out"
      BY <3>2, SeverityFacts
    <3>3. QED BY <2>2, <3>1, <3>2
  <2>4. Severity[final] \in Nat
    BY <1>12, SeverityType
  <2>5. Severity[final] >= 3
    BY SMTT(30), <1>12, <2>3, <2>4
  <2>6. QED BY <1>12, <1>20, <2>5, SeverityType
<1>24. IF at = "scored" THEN Len(marks) <= Cases ELSE Len(marks) < Cases
  BY SMTT(30), <1>1, <1>14, <1>15, <1>19
<1>25. CasesExplained'
  <2>1. final = "wrong_answer" => Failed(marks)
    BY <1>22
  <2>2. QED BY <1>15, <1>16, <1>20, <1>21, <1>22, <1>23, <1>24, <2>1 DEF CasesExplained
<1>26. /\ evaluation.left <= OutputBytes /\ outcome = "none"
  BY <1>2, InvParts DEF WithinBudget
<1>27. left <= OutputBytes
  BY <1>1, <1>11, <1>26
<1>28. ASSUME causes' = {}
       PROVE  /\ used + left = OutputBytes
              /\ \A i \in DOMAIN marks : marks[i].actual <= OutputBytes
              /\ spent <= TaskTime + KillTime
  <2>1. causes = {} /\ GrownBy(text) = {}
    BY <1>13, <1>28
  <2>2. text <= evaluation.left
    BY <1>6, <2>1
  <2>3. /\ evaluation.used + evaluation.left = OutputBytes
        /\ \A i \in DOMAIN evaluation.tests : evaluation.tests[i].actual <= OutputBytes
        /\ evaluation.spent <= program.deadline /\ program.deadline <= TaskTime
    BY <1>2, <2>1, InvParts DEF WithinBudget
  <2>4. actual <= OutputBytes
    BY SMTT(30), <1>1, <1>6, <1>26, <2>2
  <2>5. \A i \in DOMAIN marks : marks[i].actual <= OutputBytes
    BY <1>9, <1>14, <2>3, <2>4
  <2>6. evaluation.spent + late <= TaskTime + KillTime
    <3>1. evaluation.spent <= TaskTime
      BY SMTT(30), <1>1, <2>3
    <3>2. TaskTime \in Nat /\ KillTime \in Nat
      OBVIOUS
    <3>3. QED BY SMTT(30), <1>1, <1>10, <3>1, <3>2
  <2>7. spent <= TaskTime + KillTime
    BY <2>6 DEF spent
  <2>8. QED BY <1>11, <2>2, <2>3, <2>5, <2>7
<1>29. WithinBudget'
  BY <1>3, <1>15, <1>16, <1>26, <1>27, <1>28 DEF WithinBudget
<1>30. RefusedForCause'
  BY <1>3, <1>26 DEF RefusedForCause
<1>31. QED BY <1>17, <1>18, <1>25, <1>29, <1>30 DEF Kept, GraderInv

LEMMA CompleteResultStep ==
  ASSUME GraderInv, RefusedForCause, CompleteResult
  PROVE  Kept
<1>1. /\ evaluation \in Evaluation /\ GraderTypeOK
  BY InvParts DEF GraderTypeOK
<1>2. /\ evaluation.at = "reported"
      /\ evaluation' = [evaluation EXCEPT !.at = "done"]
      /\ outcome' = IF /\ SerializerAccepts(sent) /\ ResultFits(sent)
                       /\ evaluation.kind = "grade" => ScoreFits(sent)
                    THEN "stored" ELSE "refused"
      /\ UNCHANGED <<program, cancelled, swept, sent, causes>>
  BY DEF CompleteResult
<1>3. /\ evaluation' \in Evaluation /\ evaluation'.at = "done"
      /\ evaluation'.kind = evaluation.kind /\ evaluation'.spent = evaluation.spent
      /\ evaluation'.left = evaluation.left /\ evaluation'.used = evaluation.used
      /\ evaluation'.tests = evaluation.tests
  BY <1>1, <1>2 DEF Evaluation
<1>4. GraderTypeOK'
  BY <1>1, <1>2, <1>3 DEF GraderTypeOK
<1>5. VerdictExplained'
  BY <1>2, <1>3, InvParts DEF VerdictExplained
<1>6. CasesExplained'
  BY <1>3 DEF CasesExplained
<1>7. WithinBudget'
  BY <1>2, <1>3, InvParts DEF WithinBudget
<1>8. RefusedForCause'
  BY <1>2, InvParts DEF RefusedForCause, WithinBudget
<1>9. QED BY <1>4, <1>5, <1>6, <1>7, <1>8 DEF Kept, GraderInv

\* A task of which nothing has been done yet.
LEMMA FreshTask ==
  ASSUME NEW kind \in {"run", "grade"}
  PROVE  /\ Fresh(kind).kind = kind /\ Fresh(kind).at = "next" /\ Fresh(kind).spent = 0
         /\ Fresh(kind).left = OutputBytes /\ Fresh(kind).final = "succeeded"
         /\ Fresh(kind).tests = << >> /\ Fresh(kind).used = 0
  BY DEF Fresh

LEMMA InitialTask ==
  GraderInit => GraderInv /\ RefusedForCause
<1> SUFFICES ASSUME GraderInit PROVE GraderInv /\ RefusedForCause
  OBVIOUS
<1>1. PICK kind \in {"run", "grade"} : evaluation = Fresh(kind)
  BY DEF GraderInit
<1>2. /\ program = NoProgram /\ cancelled = FALSE /\ swept = FALSE
      /\ sent = Nothing /\ outcome = "none" /\ causes = {}
  BY DEF GraderInit
<1>3. GraderTypeOK
  BY <1>1, <1>2, StartFacts DEF GraderTypeOK
<1>4. VerdictExplained
  BY <1>1, FreshTask DEF VerdictExplained
<1>5. CasesExplained
  BY SMTT(30), <1>1, FreshTask, StartFacts DEF CasesExplained
<1>6. WithinBudget
  BY SMTT(30), <1>1, <1>2, FreshTask, StartFacts DEF WithinBudget
<1>7. RefusedForCause
  BY <1>2 DEF RefusedForCause
<1>8. QED BY <1>3, <1>4, <1>5, <1>6, <1>7 DEF GraderInv

LEMMA TakeTaskStep ==
  ASSUME TakeTask
  PROVE  Kept
<1>1. GraderInit'
  BY DEF TakeTask, GraderInit
<1>2. QED BY <1>1, InitialTask, PTL DEF Kept

LEMMA EveryStepKept ==
  ASSUME GraderInv, RefusedForCause, [GraderNext]_graderVars
  PROVE  Kept
<1>1. CASE StartProgram BY <1>1, StartProgramStep
<1>2. CASE ProgramWrites \/ ProgramEnds \/ SetCancel \/ TerminateAll \/ UNCHANGED graderVars
  BY <1>2, ProgramSteps
<1>3. CASE ProgramTakesTime BY <1>3, ProgramTakesTimeStep
<1>4. CASE EndRun BY <1>4, EndRunStep
<1>5. CASE FailGrade BY <1>5, FailGradeStep
<1>6. CASE EndCase BY <1>6, EndCaseStep
<1>7. CASE OutOfBudget BY <1>7, OutOfBudgetStep
<1>8. CASE SendScore BY <1>8, SendScoreStep
<1>9. CASE EvaluationFails BY <1>9, EvaluationFailsStep
<1>10. CASE CompleteResult BY <1>10, CompleteResultStep
<1>11. CASE TakeTask BY <1>11, TakeTaskStep
<1>12. QED
  BY <1>1, <1>2, <1>3, <1>4, <1>5, <1>6, <1>7, <1>8, <1>9, <1>10, <1>11 DEF GraderNext

-----------------------------------------------------------------------------
(* Theorems *)

\* What _grade reports explains itself, for any number of test cases: full marks
\* exactly when every case passed, no status milder than that of a case, cases
\* left out only for a limit or a failure.  With it, output and time stay within
\* the budgets as long as no text grew and no case had more time than was left.
THEOREM GraderInvHolds == GraderSpec => []GraderInv
<1>1. GraderInit => GraderInv /\ RefusedForCause
  BY InitialTask
<1>2. (GraderInv /\ RefusedForCause) /\ [GraderNext]_graderVars
        => (GraderInv /\ RefusedForCause)'
  BY EveryStepKept DEF Kept
<1>3. QED BY <1>1, <1>2, PTL DEF GraderSpec

\* complete_task refuses no result a runner makes, whatever the limits, as long
\* as those of the two sides agree: a refusal means that a text grew when it was
\* decoded or encoded, that the output of a free run contained NUL, or that a case was
\* given more time than was left.
THEOREM RefusalsHaveCauses == GraderSpec => []RefusedForCause
<1>1. GraderInit => GraderInv /\ RefusedForCause
  BY InitialTask
<1>2. (GraderInv /\ RefusedForCause) /\ [GraderNext]_graderVars
        => (GraderInv /\ RefusedForCause)'
  BY EveryStepKept DEF Kept
<1>3. QED BY <1>1, <1>2, PTL DEF GraderSpec

-----------------------------------------------------------------------------
(* Submissions: requests with the same key *)

USE SubmissionsAssumption, NoTaskAssumption

\* What the digest of a request is made of.
Shape == [kind : Kind, tests : Version \union {"none", "broken"}]

\* What a sender's request can be.
Requests == {Resting} \union OnTheWay \union Answers

\* What SubmissionsInv says of one request r, the table of tasks being tab.
Sound(tab, r) ==
  /\ r.at \in {"received", "inserting"} /\ r.was # NoTask => tab[r.key] # NoTask
  /\ r.at = "inserting" => r.was = NoTask
  /\ r.at = "answered" /\ r.code = "accepted" =>
       r.told = r.digest /\ tab[r.key] # NoTask /\ tab[r.key].digest = r.digest
  /\ r.at = "answered" /\ r.was # NoTask =>
       r.code \notin {"running_limit_reached", "queue_limit_reached", "runner_unavailable"}

LEMMA SoundRequests ==
  SubmissionsInv <=> /\ tasks \in [IdKey -> Task \union {NoTask}]
                     /\ tests \in Version \union {"broken"}
                     /\ sender \in [Sender -> Requests]
                     /\ \A w \in Sender : Sound(tasks, sender[w])
  BY DEF SubmissionsInv, RequestsKnown, AnswersMatch, RepeatsRecognised, Sound, Requests

\* A request of the type of its stage.
LEMMA RequestStages ==
  ASSUME NEW r \in Requests
  PROVE  /\ r.at \in {"received", "inserting"} => r \in OnTheWay
         /\ r.at = "answered" => r \in Answers
  BY DEF Requests, Resting, OnTheWay, Answers

LEMMA DigestType ==
  ASSUME tests \in Version \union {"broken"}, NEW kind \in Kind
  PROVE  /\ DigestOf(kind) \in Shape
         /\ ~(kind = "grade" /\ tests = "broken") => DigestOf(kind) \in Digest
         /\ Digest \subseteq Shape
  BY DEF DigestOf, Digest, Kind, Shape

\* Refusals and acceptances are answers that keep what the request was.
LEMMA AnswerFacts ==
  ASSUME NEW r, r.key \in IdKey, r.was \in Task \union {NoTask}, r.digest \in Shape
  PROVE  /\ \A code \in {"invalid_test_snapshot", "idempotency_conflict",
                         "runner_unavailable", "attempt_not_active",
                         "running_limit_reached", "queue_limit_reached"} :
              LET a == Refused(r, code) IN
              /\ a \in Requests /\ a.at = "answered" /\ a.code = code
              /\ a.key = r.key /\ a.was = r.was
         /\ r.digest \in Digest =>
              LET a == Accepted(r, r.digest) IN
              /\ a \in Requests /\ a.at = "answered" /\ a.code = "accepted"
              /\ a.key = r.key /\ a.was = r.was
              /\ a.digest = r.digest /\ a.told = r.digest
  BY DEF Refused, Accepted, Requests, Answers, Shape

\* The limits answer with an acceptance or one of the two refusals.
LEMMA CapacityFacts ==
  ASSUME NEW r, r.key \in IdKey, r.was \in Task \union {NoTask}, r.digest \in Digest,
         r.digest \in Shape
  PROVE  LET a == Capacity(r) IN
         /\ a \in Requests /\ a.at = "answered" /\ a.key = r.key /\ a.was = r.was
         /\ a.code \in {"accepted", "running_limit_reached", "queue_limit_reached"}
         /\ a.code = "accepted" => a.digest = r.digest /\ a.told = r.digest
  BY AnswerFacts DEF Capacity

\* The task of the key answers for the request if it executes the same.
LEMMA ExistingFacts ==
  ASSUME NEW r, r.key \in IdKey, r.was \in Task \union {NoTask}, r.digest \in Digest,
         r.digest \in Shape, tasks[r.key] # NoTask
  PROVE  Existing(r) \in Requests /\ Sound(tasks, Existing(r))
<1>1. CASE tasks[r.key].digest = r.digest
  <2>1. Existing(r) = Accepted(r, r.digest)
    BY <1>1 DEF Existing
  <2>2. QED BY <1>1, <2>1, AnswerFacts DEF Sound
<1>2. CASE tasks[r.key].digest # r.digest
  <2>1. Existing(r) = Refused(r, "idempotency_conflict")
    BY <1>2 DEF Existing
  <2>2. QED BY <2>1, AnswerFacts DEF Sound
<1>3. QED BY <1>1, <1>2

-----------------------------------------------------------------------------
(* Steps *)

\* Tasks are never deleted, nor made to execute something else.
TasksStay ==
  \A k \in IdKey : tasks[k] # NoTask =>
    tasks'[k] # NoTask /\ tasks'[k].digest = tasks[k].digest

LEMMA SoundStays ==
  ASSUME TasksStay, NEW r \in Requests, Sound(tasks, r)
  PROVE  Sound(tasks', r)
<1>1. CASE r.at = "idle"
  BY <1>1 DEF Sound
<1>2. CASE r.at # "idle"
  <2>1. r.key \in IdKey
    BY <1>2 DEF Requests, Resting, OnTheWay, Answers
  <2>2. QED BY <2>1 DEF Sound, TasksStay
<1>3. QED BY <1>1, <1>2

\* A step of one request that changes the table at most at one key.
LEMMA SenderStep ==
  ASSUME SubmissionsInv, NEW w \in Sender, NEW a \in Requests, AnswerBy(w, a),
         tasks' \in [IdKey -> Task \union {NoTask}], tests' = tests,
         TasksStay, Sound(tasks', a)
  PROVE  SubmissionsInv'
<1>1. /\ tasks \in [IdKey -> Task \union {NoTask}]
      /\ tests \in Version \union {"broken"}
      /\ sender \in [Sender -> Requests]
      /\ \A v \in Sender : Sound(tasks, sender[v])
  BY SoundRequests
<1>2. sender' = [sender EXCEPT ![w] = a]
  BY DEF AnswerBy
<1>3. sender' \in [Sender -> Requests]
  BY <1>1, <1>2
<1>4. ASSUME NEW v \in Sender PROVE Sound(tasks', sender'[v])
  BY <1>1, <1>2, SoundStays
<1>5. QED BY <1>1, <1>3, <1>4
        DEF SubmissionsInv, RequestsKnown, AnswersMatch, RepeatsRecognised, Sound, Requests

LEMMA ReceiveStep ==
  ASSUME SubmissionsInv, NEW w \in Sender, NEW k \in IdKey, NEW kind \in Kind,
         ReceiveCode(w, k, kind)
  PROVE  SubmissionsInv'
<1> DEFINE r == [at |-> "received", key |-> k, was |-> tasks[k], digest |-> DigestOf(kind)]
           a == IF kind = "grade" /\ tests = "broken"
                THEN Refused(r, "invalid_test_snapshot") ELSE r
<1>1. tasks \in [IdKey -> Task \union {NoTask}] /\ tests \in Version \union {"broken"}
  BY SoundRequests
<1>2. r.key = k /\ r.was = tasks[k] /\ r.digest = DigestOf(kind) /\ r.at = "received"
  OBVIOUS
<1>3. a \in Requests /\ Sound(tasks, a)
  <2>1. CASE kind = "grade" /\ tests = "broken"
    <3>1. r.was \in Task \union {NoTask} /\ r.digest \in Shape /\ r.key \in IdKey
      BY <1>1, DigestType
    <3>2. Refused(r, "invalid_test_snapshot") \in Requests
          /\ Sound(tasks, Refused(r, "invalid_test_snapshot"))
      BY <3>1, AnswerFacts DEF Sound
    <3>3. QED BY <2>1, <3>2
  <2>2. CASE ~(kind = "grade" /\ tests = "broken")
    <3>1. r \in OnTheWay
      BY <1>1, <2>2, DigestType DEF OnTheWay
    <3>2. QED BY <2>2, <3>1 DEF Sound, Requests
  <2>3. QED BY <2>1, <2>2
<1>4. AnswerBy(w, a) /\ tasks' = tasks /\ tests' = tests /\ TasksStay
  BY DEF ReceiveCode, TasksStay
<1>5. QED BY <1>1, <1>3, <1>4, SenderStep

LEMMA LookUpStep ==
  ASSUME SubmissionsInv, NEW w \in Sender, LookUp(w)
  PROVE  SubmissionsInv'
<1> DEFINE r == sender[w]
           a == IF tasks[r.key] # NoTask THEN Existing(r)
                ELSE IF ~runner THEN Refused(r, "runner_unavailable")
                ELSE [r EXCEPT !.at = "inserting"]
<1>1. tasks \in [IdKey -> Task \union {NoTask}] /\ sender[w] \in Requests
      /\ Sound(tasks, sender[w]) /\ sender[w].at = "received"
  BY SoundRequests DEF LookUp
<1>2. r \in OnTheWay /\ r.digest \in Shape
  <2>1. r \in OnTheWay
    BY <1>1, RequestStages
  <2>2. QED BY <2>1 DEF OnTheWay, Digest, Shape, Kind
<1>3. r.key \in IdKey /\ r.was \in Task \union {NoTask} /\ r.digest \in Digest
  BY <1>2 DEF OnTheWay
<1>4. a \in Requests /\ Sound(tasks, a)
  <2>1. CASE tasks[r.key] # NoTask
    BY <1>2, <1>3, <2>1, ExistingFacts
  <2>2. CASE tasks[r.key] = NoTask /\ ~runner
    <3>1. r.was = NoTask
      BY <1>1, <2>2 DEF Sound
    <3>2. Refused(r, "runner_unavailable") \in Requests
          /\ Sound(tasks, Refused(r, "runner_unavailable"))
      BY <1>2, <1>3, <3>1, AnswerFacts DEF Sound
    <3>3. QED BY <2>2, <3>2
  <2>3. CASE tasks[r.key] = NoTask /\ runner
    <3>1. r.was = NoTask
      BY <1>1, <2>3 DEF Sound
    <3>2. [r EXCEPT !.at = "inserting"] \in OnTheWay
          /\ Sound(tasks, [r EXCEPT !.at = "inserting"])
      BY <1>2, <3>1 DEF OnTheWay, Sound
    <3>3. QED BY <2>3, <3>2 DEF Requests
  <2>4. QED BY <2>1, <2>2, <2>3
<1>5. AnswerBy(w, a) /\ tasks' = tasks /\ tests' = tests /\ TasksStay
  BY DEF LookUp, TasksStay
<1>6. QED BY <1>1, <1>4, <1>5, SenderStep

\* The insert shared by the code and the quiz views: the limits, then the key.
LEMMA InsertOutcome ==
  ASSUME SubmissionsInv, NEW w \in Sender, NEW r,
         r.key \in IdKey, r.was \in Task \union {NoTask}, r.digest \in Digest,
         r.digest \in Shape, r.was # NoTask => tasks[r.key] # NoTask,
         NEW a, a.code = "accepted" => a = Capacity(r),
         a.code # "accepted" => a \in Requests /\ Sound(tasks, a),
         tasks' = IF a.code = "accepted" /\ tasks[r.key] = NoTask
                  THEN [tasks EXCEPT ![r.key] = NewTask(r.digest)] ELSE tasks,
         tests' = tests
  PROVE  /\ tasks' \in [IdKey -> Task \union {NoTask}]
         /\ TasksStay
         /\ a.code = "accepted" /\ tasks[r.key] = NoTask
              => a \in Requests /\ Sound(tasks', a)
<1>1. tasks \in [IdKey -> Task \union {NoTask}]
  BY SoundRequests
<1>2. NewTask(r.digest) \in Task /\ NewTask(r.digest).digest = r.digest
      /\ NewTask(r.digest) # NoTask
  <2>1. NewTask(r.digest) \in Task
    BY DEF NewTask, Task
  <2>2. QED BY <2>1 DEF NewTask
<1>3. CASE a.code = "accepted" /\ tasks[r.key] = NoTask
  <2>1. tasks' = [tasks EXCEPT ![r.key] = NewTask(r.digest)]
    BY <1>3
  <2>2. tasks'[r.key] # NoTask /\ tasks'[r.key].digest = r.digest
        /\ tasks' \in [IdKey -> Task \union {NoTask}]
    BY <1>1, <1>2, <2>1
  <2>3. TasksStay
    BY <1>1, <1>3, <2>1 DEF TasksStay
  <2>4. /\ a \in Requests /\ a.at = "answered" /\ a.key = r.key
        /\ a.digest = r.digest /\ a.told = r.digest
    BY <1>3, CapacityFacts
  <2>5. Sound(tasks', a)
    BY <1>3, <2>2, <2>4 DEF Sound
  <2>6. QED BY <2>2, <2>3, <2>4, <2>5
<1>4. CASE ~(a.code = "accepted" /\ tasks[r.key] = NoTask)
  BY <1>1, <1>4 DEF TasksStay
<1>5. QED BY <1>3, <1>4

LEMMA InsertStep ==
  ASSUME SubmissionsInv, NEW w \in Sender, InsertTask(w)
  PROVE  SubmissionsInv'
<1> DEFINE r == sender[w]
           c == Capacity(r)
           a == IF c.code = "accepted" /\ tasks[r.key] # NoTask THEN Existing(r) ELSE c
<1>1. tasks \in [IdKey -> Task \union {NoTask}] /\ sender[w] \in Requests
      /\ Sound(tasks, sender[w]) /\ sender[w].at = "inserting"
  BY SoundRequests DEF InsertTask
<1>2. r \in OnTheWay /\ r.digest \in Shape /\ r.was = NoTask
  <2>1. r \in OnTheWay /\ r.was = NoTask
    BY <1>1, RequestStages DEF Sound
  <2>2. QED BY <2>1 DEF OnTheWay, Digest, Shape, Kind
<1>3. r.key \in IdKey /\ r.was \in Task \union {NoTask} /\ r.digest \in Digest
  BY <1>2 DEF OnTheWay
<1>4. /\ AnswerBy(w, a) /\ tests' = tests
      /\ tasks' = IF c.code = "accepted" /\ tasks[r.key] = NoTask
                  THEN [tasks EXCEPT ![r.key] = NewTask(r.digest)] ELSE tasks
  BY DEF InsertTask
<1>5. /\ c \in Requests /\ c.at = "answered" /\ c.was = r.was
      /\ c.code # "accepted" => Sound(tasks, c)
  BY <1>2, <1>3, CapacityFacts DEF Sound
<1>6. /\ tasks' \in [IdKey -> Task \union {NoTask}] /\ TasksStay
      /\ c.code = "accepted" /\ tasks[r.key] = NoTask => Sound(tasks', c)
  BY <1>2, <1>3, <1>4, <1>5, InsertOutcome
<1>7. a \in Requests /\ Sound(tasks', a)
  <2>1. CASE c.code = "accepted" /\ tasks[r.key] # NoTask
    <3>1. Existing(r) \in Requests /\ Sound(tasks, Existing(r))
      BY <1>2, <1>3, <2>1, ExistingFacts
    <3>2. QED BY <1>6, <2>1, <3>1, SoundStays
  <2>2. CASE c.code = "accepted" /\ tasks[r.key] = NoTask
    BY <1>5, <1>6, <2>2
  <2>3. CASE c.code # "accepted"
    BY <1>5, <1>6, <2>3, SoundStays
  <2>4. QED BY <2>1, <2>2, <2>3
<1>8. QED BY <1>4, <1>6, <1>7, SenderStep

LEMMA QuizStep ==
  ASSUME SubmissionsInv, NEW w \in Sender, NEW k \in IdKey, QuizTask(w, k)
  PROVE  SubmissionsInv'
<1> DEFINE r == [key |-> k, was |-> tasks[k], digest |-> DigestOf("quiz")]
           a == IF ~paper THEN Refused(r, "attempt_not_active")
                ELSE IF tasks[k] # NoTask THEN Existing(r)
                ELSE IF ~runner THEN Refused(r, "runner_unavailable")
                ELSE Capacity(r)
<1>1. tasks \in [IdKey -> Task \union {NoTask}] /\ tests \in Version \union {"broken"}
  BY SoundRequests
<1>2. r.key = k /\ r.was = tasks[k] /\ r.digest = DigestOf("quiz")
  OBVIOUS
<1>3. r.key \in IdKey /\ r.was \in Task \union {NoTask} /\ r.digest \in Digest
      /\ r.digest \in Shape
  BY <1>1, <1>2, DigestType DEF Kind
<1>4. /\ AnswerBy(w, a) /\ tests' = tests
      /\ tasks' = IF a.code = "accepted" /\ tasks[k] = NoTask
                  THEN [tasks EXCEPT ![k] = NewTask(DigestOf("quiz"))] ELSE tasks
  BY DEF QuizTask
<1>5. CASE ~paper \/ tasks[k] # NoTask \/ ~runner
  <2>1. a \in Requests /\ Sound(tasks, a)
    <3>1. CASE ~paper
      BY <1>3, <3>1, AnswerFacts DEF Sound
    <3>2. CASE paper /\ tasks[k] # NoTask
      BY <1>2, <1>3, <3>2, ExistingFacts
    <3>3. CASE paper /\ tasks[k] = NoTask /\ ~runner
      BY <1>2, <1>3, <3>3, AnswerFacts DEF Sound
    <3>4. QED BY <1>5, <3>1, <3>2, <3>3
  <2>2. tasks' = tasks
    <3>1. CASE tasks[k] # NoTask
      BY <1>4, <3>1
    <3>2. CASE tasks[k] = NoTask
      <4>1. a.code # "accepted"
        BY <1>3, <1>5, <3>2, AnswerFacts
      <4>2. QED BY <1>4, <4>1
    <3>3. QED BY <3>1, <3>2
  <2>3. TasksStay
    BY <2>2 DEF TasksStay
  <2>4. QED BY <1>1, <1>4, <2>1, <2>2, <2>3, SenderStep
<1>6. CASE paper /\ tasks[k] = NoTask /\ runner
  <2>1. a = Capacity(r)
    BY <1>6
  <2>2. a \in Requests /\ a.at = "answered" /\ a.was = NoTask
    BY <1>2, <1>3, <1>6, <2>1, CapacityFacts
  <2>3. a.code # "accepted" => Sound(tasks, a)
    BY <2>2 DEF Sound
  <2>4. tasks' = IF a.code = "accepted" /\ tasks[r.key] = NoTask
                 THEN [tasks EXCEPT ![r.key] = NewTask(r.digest)] ELSE tasks
    BY <1>2, <1>4
  <2>5. /\ tasks' \in [IdKey -> Task \union {NoTask}] /\ TasksStay
        /\ a.code = "accepted" => Sound(tasks', a)
    <3> HIDE DEF a, r
    <3>1. QED BY <1>2, <1>3, <1>4, <1>6, <2>1, <2>2, <2>3, <2>4, InsertOutcome
  <2>6. Sound(tasks', a)
    <3> HIDE DEF a
    <3>1. QED BY <2>2, <2>3, <2>5, SoundStays
  <2>7. QED BY <1>4, <2>2, <2>5, <2>6, SenderStep
<1>7. QED BY <1>5, <1>6

\* The queue moves tasks on, and the world changes around them.
LEMMA MeanwhileStep ==
  ASSUME SubmissionsInv, sender' = sender, tests' \in Version \union {"broken"},
         tasks' \in [IdKey -> Task \union {NoTask}], TasksStay
  PROVE  SubmissionsInv'
<1>1. /\ sender \in [Sender -> Requests]
      /\ \A v \in Sender : Sound(tasks, sender[v])
  BY SoundRequests
<1>2. ASSUME NEW v \in Sender PROVE Sound(tasks', sender'[v])
  BY <1>1, SoundStays
<1>3. QED BY <1>1, <1>2
        DEF SubmissionsInv, RequestsKnown, AnswersMatch, RepeatsRecognised, Sound, Requests

LEMMA QueueMovesStep ==
  ASSUME SubmissionsInv, NEW k \in IdKey, QueueMoves(k)
  PROVE  SubmissionsInv'
<1>1. tasks \in [IdKey -> Task \union {NoTask}] /\ tests \in Version \union {"broken"}
  BY SoundRequests
<1>2. PICK status \in {"queued", "running", "finished"} :
        tasks' = [tasks EXCEPT ![k].status = status]
  BY DEF QueueMoves
<1>3. tasks[k] \in Task /\ tasks[k] # NoTask
  BY <1>1 DEF QueueMoves
<1>4. [tasks[k] EXCEPT !.status = status] \in Task
      /\ [tasks[k] EXCEPT !.status = status].digest = tasks[k].digest
  BY <1>3 DEF Task
<1>5. [tasks[k] EXCEPT !.status = status] # NoTask
  BY <1>4
<1>6. tasks' = [tasks EXCEPT ![k] = [tasks[k] EXCEPT !.status = status]]
  BY <1>2
<1>7. tasks' \in [IdKey -> Task \union {NoTask}] /\ TasksStay
  BY <1>1, <1>4, <1>5, <1>6 DEF TasksStay
<1>8. QED BY <1>1, <1>7, MeanwhileStep DEF QueueMoves

LEMMA SubmissionsInitInv == SubmissionsInit => SubmissionsInv
<1> SUFFICES ASSUME SubmissionsInit PROVE SubmissionsInv
  OBVIOUS
<1>1. \A w \in Sender : sender[w].at = "idle" /\ sender[w] \in Requests
  BY DEF SubmissionsInit, Resting, Requests
<1>2. \A w \in Sender : Sound(tasks, sender[w])
  BY <1>1 DEF Sound
<1>3. sender \in [Sender -> Requests]
  BY DEF SubmissionsInit, Requests
<1>4. QED BY <1>2, <1>3, SoundRequests DEF SubmissionsInit

LEMMA SubmissionsNextInv ==
  SubmissionsInv /\ [SubmissionsNext]_subVars => SubmissionsInv'
<1> SUFFICES ASSUME SubmissionsInv, [SubmissionsNext]_subVars PROVE SubmissionsInv'
  OBVIOUS
<1>1. tasks \in [IdKey -> Task \union {NoTask}] /\ tests \in Version \union {"broken"}
  BY SoundRequests
<1>2. ASSUME NEW w \in Sender, NEW k \in IdKey, QuizTask(w, k)
      PROVE  SubmissionsInv'
  BY <1>2, QuizStep
<1>3. ASSUME NEW w \in Sender, NEW k \in IdKey, NEW kind \in Kind, ReceiveCode(w, k, kind)
      PROVE  SubmissionsInv'
  BY <1>3, ReceiveStep
<1>4. ASSUME NEW w \in Sender, LookUp(w)
      PROVE  SubmissionsInv'
  BY <1>4, LookUpStep
<1>5. ASSUME NEW w \in Sender, InsertTask(w)
      PROVE  SubmissionsInv'
  BY <1>5, InsertStep
<1>6. ASSUME NEW w \in Sender, Answered(w)
      PROVE  SubmissionsInv'
  <2>1. Resting \in Requests /\ Sound(tasks', Resting) /\ tasks' = tasks /\ tests' = tests
        /\ TasksStay /\ AnswerBy(w, Resting)
    BY <1>6 DEF Answered, Requests, Resting, Sound, TasksStay
  <2>2. QED BY <1>1, <2>1, SenderStep
<1>7. ASSUME NEW k \in IdKey, QueueMoves(k)
      PROVE  SubmissionsInv'
  BY <1>7, QueueMovesStep
<1>8. CASE TestsChange \/ RunnerChange \/ PaperEnds \/ UNCHANGED subVars
  <2>1. sender' = sender /\ tests' \in Version \union {"broken"} /\ tasks' = tasks
    BY <1>1, <1>8 DEF TestsChange, RunnerChange, PaperEnds, subVars
  <2>2. QED BY <1>1, <2>1, MeanwhileStep DEF TasksStay
<1>9. QED BY <1>2, <1>3, <1>4, <1>5, <1>6, <1>7, <1>8 DEF SubmissionsNext

\* The inductive invariant of the requests: besides the two promises below, that
\* a task a request found is still there, and that it inserts one only if it
\* found none.
THEOREM SubmissionsInvHolds == SubmissionsSpec => []SubmissionsInv
  BY SubmissionsInitInv, SubmissionsNextInv, PTL DEF SubmissionsSpec

\* Whoever is told that code was accepted is told of the task that the table has
\* for the key, and it executes what the request sent: neither a request that
\* overlaps nor one under the same key with other code or other tests is
\* answered for another.
THEOREM AnswersAreTrue == SubmissionsSpec => []AnswersMatch
<1>1. SubmissionsInv => AnswersMatch
  BY DEF SubmissionsInv
<1>2. QED BY <1>1, SubmissionsInvHolds, PTL

\* A request that repeats one whose task exists is never refused for the limits
\* or for want of a runner.
THEOREM RepeatsAreRecognised == SubmissionsSpec => []RepeatsRecognised
<1>1. SubmissionsInv => RepeatsRecognised
  BY DEF SubmissionsInv
<1>2. QED BY <1>1, SubmissionsInvHolds, PTL

-----------------------------------------------------------------------------
(* Receipts: copies of one request *)

USE RequestAssumption, TimeAssumption, ReceiptAssumption

\* The copies of a request that is new, and a try later.
LEMMA TimesOfTries ==
  ASSUME NEW n \in Nat, n <= Retries
  PROVE  /\ Retries - n \in Nat
         /\ (Retries - n) * TryTime \in Nat
         /\ n < Retries =>
              (Retries - n) * TryTime = (Retries - (n + 1)) * TryTime + TryTime
<1>1. Retries - n \in Nat
  OBVIOUS
<1>2. ASSUME NEW m \in Nat
      PROVE  m * TryTime \in Nat /\ (m + 1) * TryTime = m * TryTime + TryTime
  OBVIOUS
<1>3. n < Retries => Retries - (n + 1) \in Nat /\ (Retries - (n + 1)) + 1 = Retries - n
  OBVIOUS
<1>4. QED BY <1>1, <1>2, <1>3

LEMMA Times ==
  /\ ReceiptTTL \in Nat /\ ServeTime \in Nat /\ ValidFor \in Nat \ {0}
  /\ TryTime \in Nat /\ Retries \in Nat
  /\ Retries * TryTime \in Nat
  /\ Retries * TryTime + ValidFor + ServeTime <= ReceiptTTL + 1
  /\ Retries >= 1 => (Retries - 1) * TryTime + TryTime = Retries * TryTime
                     /\ (Retries - 1) * TryTime \in Nat
<1>1. Retries * TryTime \in Nat
  OBVIOUS
<1>2. Retries >= 1 => (Retries - 1) * TryTime + TryTime = Retries * TryTime
                      /\ (Retries - 1) * TryTime \in Nat
  OBVIOUS
<1>3. QED BY <1>1, <1>2

\* What ReceiptsInv says of one request.
Outlives(q) ==
  effects[q] > 0 =>
    \/ receipt[q].state = "stored"
    \/ /\ \A c \in inside : c.req # q
       /\ \A c \in wire : c.req = q => c.left = 0
       /\ client[q].at # "waiting" \/ client[q].try = Retries + 1 \/ q \in Claims

\* Its effect and its receipt agree with the call that was made.
Known(q) ==
  /\ client[q].at = "idle" =>
       /\ effects[q] = 0 /\ receipt[q] = NoReceipt
       /\ \A c \in wire \union inside : c.req # q
  /\ receipt[q].state = "stored" => effects[q] = 1

\* Whatever can still be accepted for it comes before its receipt is removed.
InTime(q) ==
  /\ \A c \in inside : c.req = q => receipt[q].age + c.left <= ReceiptTTL
  /\ \A c \in wire : c.req = q /\ c.left > 0 =>
       receipt[q].age + c.left + ServeTime <= ReceiptTTL + 1
  /\ MayRepeat(q) =>
       receipt[q].age + client[q].left + (Retries - client[q].try) * TryTime
         + ValidFor + ServeTime <= ReceiptTTL + 1

\* All that is kept of a request.
Guarded(q) == Outlives(q) /\ Known(q) /\ InTime(q)

LEMMA GuardedRequests == ReceiptsInv <=> TypeOK /\ \A q \in Request : Guarded(q)
  BY DEF ReceiptsInv, ReceiptOutlivesCopies, EffectsKnown, CopiesInTime, Guarded,
         Outlives, Known, InTime

\* A request of which a step only takes copies away, or whose call ends.
LEMMA LeftAlone ==
  ASSUME NEW q \in Request, Guarded(q),
         receipt'[q] = receipt[q], effects'[q] = effects[q],
         \/ client'[q] = client[q]
         \/ client'[q].at \in {"done", "failed"},
         \A c \in wire' : c.req = q => c \in wire,
         \A c \in inside' : c.req = q => c \in inside
  PROVE  Guarded(q)'
<1>1. CASE client'[q] = client[q]
  <2>1. Outlives(q)'
    BY <1>1 DEF Guarded, Outlives
  <2>2. Known(q)'
    BY <1>1 DEF Guarded, Known
  <2>3. InTime(q)'
    BY <1>1 DEF Guarded, InTime, MayRepeat
  <2>4. QED BY <2>1, <2>2, <2>3 DEF Guarded
<1>2. CASE client'[q].at \in {"done", "failed"}
  <2>1. Outlives(q)'
    BY <1>2 DEF Guarded, Outlives
  <2>2. Known(q)'
    BY <1>2 DEF Guarded, Known
  <2>3. InTime(q)'
    BY <1>2 DEF Guarded, InTime, MayRepeat
  <2>4. QED BY <2>1, <2>2, <2>3 DEF Guarded
<1>3. QED BY <1>1, <1>2

\* While a copy is in hand, its request has either taken effect, and the receipt
\* is stored, or has not.
LEMMA CopyInside ==
  ASSUME TypeOK, NEW c \in inside, Guarded(c.req)
  PROVE  /\ c.req \in Request /\ effects[c.req] \in Nat
         /\ client[c.req].at # "idle"
         /\ receipt[c.req].state # "stored" => effects[c.req] = 0
<1>1. c.req \in Request /\ effects[c.req] \in Nat
  BY DEF TypeOK, Served
<1>2. client[c.req].at # "idle"
  BY DEF Guarded, Known
<1>3. receipt[c.req].state # "stored" => ~(effects[c.req] > 0)
  BY DEF Guarded, Outlives
<1>4. QED BY <1>1, <1>2, <1>3

-----------------------------------------------------------------------------
(* Receipts: type correctness *)

LEMMA AnswerType ==
  ASSUME client \in [Request -> Call], NEW c, c.req \in Request,
         NEW answer \in {"done", "failed"}, Answer(c, answer)
  PROVE  /\ client' \in [Request -> Call]
         /\ \A q \in Request :
              \/ client'[q] = client[q]
              \/ client'[q].at = answer /\ q = c.req
<1>1. [client[c.req] EXCEPT !.at = answer] \in Call
      /\ [client[c.req] EXCEPT !.at = answer].at = answer
  BY DEF Call
<1>2. \/ client' = [client EXCEPT ![c.req] = [client[c.req] EXCEPT !.at = answer]]
      \/ client' = client
  BY DEF Answer
<1>3. QED BY <1>1, <1>2

LEMMA StartType ==
  ASSUME TypeOK, NEW q \in Request, StartCall(q)
  PROVE  TypeOK'
<1>1. [at |-> "waiting", try |-> 1, left |-> TryTime] \in Call
  BY DEF Call, Try
<1>2. Signed(q, 1) \in Wired
  BY DEF Signed, Wired, Try
<1>3. QED BY <1>1, <1>2 DEF StartCall, TypeOK

LEMMA RepeatType ==
  ASSUME TypeOK, NEW q \in Request, RepeatCall(q)
  PROVE  TypeOK'
<1>1. client[q] \in Call /\ client[q].try <= Retries /\ client[q].try + 1 \in Try
  BY DEF TypeOK, RepeatCall, Call, Try
<1>2. [client[q] EXCEPT !.try = client[q].try + 1, !.left = TryTime] \in Call
  <2>1. ASSUME NEW a \in Call, NEW n \in Try
        PROVE  [a EXCEPT !.try = n, !.left = TryTime] \in Call
    <3>1. TryTime \in 0..TryTime
      BY Times
    <3>2. n \in Try \union {0}
      OBVIOUS
    <3>3. QED BY <3>1, <3>2 DEF Call
  <2>2. QED BY <1>1, <2>1
<1>3. Signed(q, client[q].try + 1) \in Wired
  BY <1>1 DEF Signed, Wired
<1>4. client' = [client EXCEPT ![q] =
                   [client[q] EXCEPT !.try = client[q].try + 1, !.left = TryTime]]
  BY DEF RepeatCall
<1>5. QED BY <1>2, <1>3, <1>4 DEF RepeatCall, TypeOK

LEMMA GiveUpType ==
  ASSUME TypeOK, NEW q \in Request, GiveUp(q)
  PROVE  TypeOK' /\ client'[q].at = "failed"
         /\ \A p \in Request \ {q} : client'[p] = client[p]
<1>1. [client[q] EXCEPT !.at = "failed"] \in Call
  BY DEF TypeOK, Call
<1>2. client' = [client EXCEPT ![q] = [client[q] EXCEPT !.at = "failed"]]
  BY DEF GiveUp
<1>3. client[q] \in Call
  BY DEF TypeOK
<1>4. QED BY <1>1, <1>2, <1>3 DEF GiveUp, TypeOK, Call

LEMMA AdmitType ==
  ASSUME TypeOK, NEW c \in wire, Admit(c)
  PROVE  TypeOK'
<1>1. [c EXCEPT !.left = ServeTime] \in Served
  BY DEF TypeOK, Wired, Served
<1>2. QED BY <1>1 DEF Admit, TypeOK

LEMMA InsertType ==
  ASSUME TypeOK, NEW c \in inside, InsertReceipt(c)
  PROVE  TypeOK'
<1>1. [state |-> "open", by |-> c.try, age |-> 0] \in Receipt /\ c.req \in Request
  BY DEF TypeOK, Served, Receipt
<1>2. QED BY <1>1 DEF InsertReceipt, TypeOK

LEMMA CommitType ==
  ASSUME TypeOK, NEW c \in inside, CommitEffect(c)
  PROVE  TypeOK'
<1>1. c.req \in Request
  BY DEF TypeOK, Served
<1>2. effects' \in [Request -> Nat]
  BY <1>1 DEF CommitEffect, TypeOK
<1>3. receipt' \in [Request -> Receipt]
  <2>1. [receipt[c.req] EXCEPT !.state = "stored"] \in Receipt
    BY <1>1 DEF TypeOK, Receipt
  <2>2. receipt' = [receipt EXCEPT ![c.req] = [receipt[c.req] EXCEPT !.state = "stored"]]
    BY DEF CommitEffect
  <2>3. QED BY <2>1, <2>2 DEF TypeOK
<1>4. client' \in [Request -> Call]
  BY <1>1, AnswerType DEF CommitEffect, TypeOK
<1>5. QED BY <1>2, <1>3, <1>4 DEF CommitEffect, TypeOK

LEMMA RollBackType ==
  ASSUME TypeOK, NEW c \in inside, RollBack(c)
  PROVE  TypeOK'
<1>1. c.req \in Request /\ NoReceipt \in Receipt
  BY DEF TypeOK, Served, NoReceipt, Receipt
<1>2. client' \in [Request -> Call]
  BY <1>1, AnswerType DEF RollBack, TypeOK
<1>3. QED BY <1>1, <1>2 DEF RollBack, TypeOK

\* What is left of the copies' lives after a tick.
LEMMA AgedFacts ==
  ASSUME NEW S, NEW n \in Nat, NEW c \in Aged(S),
         S \subseteq [req : Request, try : Try, left : 0..n]
  PROVE  /\ c \in [req : Request, try : Try, left : 0..n]
         /\ \E d \in S : /\ d.req = c.req
                         /\ \/ d.left > 0 /\ c.left = d.left - 1
                            \/ d.left = 0 /\ c.left = 0
<1>1. CASE \E d \in S : d.left > 0 /\ c = [d EXCEPT !.left = d.left - 1]
  <2>1. PICK d \in S : d.left > 0 /\ c = [d EXCEPT !.left = d.left - 1]
    BY <1>1
  <2>2. d \in [req : Request, try : Try, left : 0..n]
    OBVIOUS
  <2>3. /\ c.req = d.req /\ c.left = d.left - 1
        /\ c \in [req : Request, try : Try, left : 0..n]
    BY <2>1, <2>2
  <2>4. QED BY <2>1, <2>3
<1>2. CASE c \in S /\ c.left = 0
  BY <1>2
<1>3. QED BY <1>1, <1>2 DEF Aged

LEMMA TickType ==
  ASSUME TypeOK, Tick
  PROVE  TypeOK'
<1>1. client' \in [Request -> Call]
  <2>1. ASSUME NEW q \in Request, client[q].at = "waiting"
        PROVE  [client[q] EXCEPT !.left = client[q].left - 1] \in Call
    BY <2>1 DEF Tick, TypeOK, Call
  <2>2. QED BY <2>1 DEF Tick, TypeOK
<1>2. wire' \subseteq Wired
  BY AgedFacts DEF Tick, TypeOK, Wired
<1>3. inside' \subseteq Served
  BY AgedFacts DEF Tick, TypeOK, Served
<1>4. receipt' \in [Request -> Receipt]
  <2>1. ASSUME NEW q \in Request, receipt[q].age <= ReceiptTTL
        PROVE  [receipt[q] EXCEPT !.age = receipt[q].age + 1] \in Receipt
    BY <2>1 DEF TypeOK, Receipt
  <2>2. QED BY <2>1 DEF Tick, TypeOK
<1>5. QED BY <1>1, <1>2, <1>3, <1>4 DEF Tick, TypeOK

-----------------------------------------------------------------------------
(* Receipts: steps *)

LEMMA StartGuards ==
  ASSUME ReceiptsInv, NEW q \in Request, StartCall(q), NEW p \in Request
  PROVE  Guarded(p)'
<1>1. TypeOK /\ Guarded(p)
  BY GuardedRequests
<1>2. CASE p # q
  <2>1. client'[p] = client[p] /\ receipt'[p] = receipt[p] /\ effects'[p] = effects[p]
    BY <1>1, <1>2 DEF StartCall, TypeOK
  <2>2. (\A c \in wire' : c.req = p => c \in wire) /\ inside' = inside
    BY <1>2 DEF StartCall, Signed
  <2>3. QED BY <1>1, <2>1, <2>2, LeftAlone
<1>3. CASE p = q
  <2>1. client'[p] = [at |-> "waiting", try |-> 1, left |-> TryTime]
    BY <1>1, <1>3 DEF StartCall, TypeOK
  <2>2. /\ effects[p] = 0 /\ effects' = effects /\ receipt' = receipt
        /\ receipt[p].state # "stored"
        /\ \A c \in inside' : c.req # p
        /\ \A c \in wire' : c.req = p => c.left = ValidFor
    BY <1>1, <1>3 DEF StartCall, Guarded, Known, Signed, NoReceipt
  <2>3. Outlives(p)' /\ Known(p)'
    BY <2>1, <2>2 DEF Outlives, Known
  <2>4. receipt[p].age = 0
    BY <1>1, <1>3 DEF StartCall, Guarded, Known, NoReceipt
  <2>5. InTime(p)'
    BY <2>1, <2>2, <2>4, Times DEF InTime, MayRepeat
  <2>6. QED BY <2>3, <2>5 DEF Guarded
<1>4. QED BY <1>2, <1>3

LEMMA RepeatGuards ==
  ASSUME ReceiptsInv, NEW q \in Request, RepeatCall(q), NEW p \in Request
  PROVE  Guarded(p)'
<1>1. TypeOK /\ Guarded(p)
  BY GuardedRequests
<1>2. CASE p # q
  <2>1. client'[p] = client[p] /\ receipt'[p] = receipt[p] /\ effects'[p] = effects[p]
    BY <1>1, <1>2 DEF RepeatCall, TypeOK
  <2>2. (\A c \in wire' : c.req = p => c \in wire) /\ inside' = inside
    BY <1>2 DEF RepeatCall, Signed
  <2>3. QED BY <1>1, <2>1, <2>2, LeftAlone
<1>3. CASE p = q
  <2> DEFINE n == client[p].try
  <2>1. /\ client[p].at = "waiting" /\ p \notin Claims
        /\ n \in Nat /\ n <= Retries /\ client[p].left \in Nat
        /\ receipt[p].age \in Nat
    BY <1>1, <1>3 DEF RepeatCall, TypeOK, Call, Try, Receipt
  <2>2. client'[p].at = "waiting" /\ client'[p].try = n + 1 /\ client'[p].left = TryTime
    BY <1>1, <1>3 DEF RepeatCall, TypeOK, Call
  <2>3. /\ effects' = effects /\ receipt' = receipt /\ inside' = inside
        /\ \A c \in wire' : c.req = p => c \in wire \/ c.left = ValidFor
    BY <1>3 DEF RepeatCall, Signed
  <2>4. receipt[p].state = "stored" \/ ~(effects[p] > 0)
    BY <1>1, <2>1 DEF Guarded, Outlives
  <2>5. Outlives(p)' /\ Known(p)'
    BY <1>1, <2>2, <2>3, <2>4 DEF Outlives, Known, Guarded
  <2>6. receipt[p].age + client[p].left + (Retries - n) * TryTime
          + ValidFor + ServeTime <= ReceiptTTL + 1
    BY <1>1, <2>1 DEF Guarded, InTime, MayRepeat
  <2>7. /\ (Retries - n) * TryTime \in Nat
        /\ n < Retries => /\ (Retries - (n + 1)) * TryTime \in Nat
                          /\ (Retries - n) * TryTime
                                = (Retries - (n + 1)) * TryTime + TryTime
    <3>1. n < Retries => n + 1 \in Nat /\ n + 1 <= Retries
      BY <2>1
    <3>2. QED BY <2>1, <3>1, TimesOfTries
  <2>8. receipt[p].age + ValidFor + ServeTime <= ReceiptTTL + 1
    BY <2>1, <2>6, <2>7
  <2>9. n < Retries => receipt[p].age + TryTime + (Retries - (n + 1)) * TryTime
                         + ValidFor + ServeTime <= ReceiptTTL + 1
    BY <2>1, <2>6, <2>7
  <2>10. InTime(p)'
    <3>1. \A c \in inside' : c.req = p => receipt'[p].age + c.left <= ReceiptTTL
      BY <1>1, <2>3 DEF Guarded, InTime
    <3>2. \A c \in wire' : c.req = p /\ c.left > 0 =>
            receipt'[p].age + c.left + ServeTime <= ReceiptTTL + 1
      BY <1>1, <2>3, <2>8 DEF Guarded, InTime
    <3>3. MayRepeat(p)' =>
            receipt'[p].age + client'[p].left + (Retries - client'[p].try) * TryTime
              + ValidFor + ServeTime <= ReceiptTTL + 1
      <4>1. MayRepeat(p)' => n + 1 <= Retries
        BY <2>2 DEF MayRepeat
      <4>2. QED BY <2>1, <2>2, <2>3, <2>9, <4>1
    <3>4. QED BY <3>1, <3>2, <3>3 DEF InTime
  <2>11. QED BY <2>5, <2>10 DEF Guarded
<1>4. QED BY <1>2, <1>3

LEMMA AdmitGuards ==
  ASSUME ReceiptsInv, NEW d \in wire, Admit(d), NEW p \in Request
  PROVE  Guarded(p)'
<1>1. TypeOK /\ Guarded(p)
  BY GuardedRequests
<1>2. CASE p # d.req
  <2>1. \A c \in inside' : c.req = p => c \in inside
    BY <1>1, <1>2 DEF Admit, TypeOK, Wired
  <2>2. QED BY <1>1, <2>1, LeftAlone DEF Admit
<1>3. CASE p = d.req
  <2>1. /\ d.left \in Nat /\ d.left > 0 /\ receipt[p].age \in Nat
        /\ client' = client /\ effects' = effects /\ receipt' = receipt
        /\ wire' \subseteq wire
    BY <1>1 DEF Admit, TypeOK, Wired, Receipt
  <2>2. \A c \in inside' : c \in inside \/ (c.left = ServeTime /\ c.req = p)
    BY <1>1, <1>3 DEF Admit, TypeOK, Wired
  <2>3. receipt[p].state = "stored" \/ ~(effects[p] > 0)
    BY <1>1, <1>3, <2>1 DEF Guarded, Outlives
  <2>4. Outlives(p)'
    BY <2>1, <2>3 DEF Outlives
  <2>5. Known(p)'
    BY <1>1, <1>3, <2>1 DEF Guarded, Known
  <2>6. receipt[p].age + d.left + ServeTime <= ReceiptTTL + 1
    BY <1>1, <1>3, <2>1 DEF Guarded, InTime
  <2>7. receipt[p].age + ServeTime <= ReceiptTTL
    BY <2>1, <2>6
  <2>8. InTime(p)'
    BY <1>1, <2>1, <2>2, <2>7 DEF Guarded, InTime, MayRepeat
  <2>9. QED BY <2>4, <2>5, <2>8 DEF Guarded
<1>4. QED BY <1>2, <1>3

\* Where the step is about copy d and other requests keep all they have.
LEMMA OtherRequests ==
  ASSUME TypeOK, NEW d \in inside, NEW p \in Request, p # d.req, Guarded(p),
         receipt'[p] = receipt[p], effects'[p] = effects[p],
         UNCHANGED client \/ \E answer \in {"done", "failed"} : Answer(d, answer),
         wire' = wire, inside' \subseteq inside
  PROVE  Guarded(p)'
<1>1. d.req \in Request
  BY DEF TypeOK, Served
<1>2. client'[p] = client[p]
  BY <1>1, AnswerType DEF TypeOK
<1>3. QED BY <1>2, LeftAlone

LEMMA InsertGuards ==
  ASSUME ReceiptsInv, NEW d \in inside, InsertReceipt(d), NEW p \in Request
  PROVE  Guarded(p)'
<1>1. TypeOK /\ Guarded(p)
  BY GuardedRequests
<1>2. CASE p # d.req
  BY <1>1, <1>2, OtherRequests DEF InsertReceipt, TypeOK
<1>3. CASE p = d.req
  <2>1. /\ receipt'[p] = [state |-> "open", by |-> d.try, age |-> 0]
        /\ client' = client /\ effects' = effects /\ wire' = wire /\ inside' = inside
        /\ receipt[p].age \in Nat
    BY <1>1, <1>3 DEF InsertReceipt, TypeOK, Receipt
  <2>2. effects[p] = 0 /\ client[p].at # "idle"
    BY <1>1, <1>3, CopyInside DEF InsertReceipt
  <2>3. Outlives(p)' /\ Known(p)'
    BY <2>1, <2>2 DEF Outlives, Known
  <2>4. InTime(p)'
    <3>1. \A c \in inside : c.req = p => c.left \in Nat /\ receipt[p].age + c.left <= ReceiptTTL
      BY <1>1 DEF Guarded, InTime, TypeOK, Served
    <3>2. \A c \in wire : c.req = p /\ c.left > 0 =>
            c.left \in Nat /\ receipt[p].age + c.left + ServeTime <= ReceiptTTL + 1
      BY <1>1 DEF Guarded, InTime, TypeOK, Wired
    <3>3. MayRepeat(p) =>
            /\ client[p].left \in Nat /\ (Retries - client[p].try) * TryTime \in Nat
            /\ receipt[p].age + client[p].left + (Retries - client[p].try) * TryTime
                 + ValidFor + ServeTime <= ReceiptTTL + 1
      <4>1. client[p].left \in Nat /\ client[p].try \in Nat
        BY <1>1 DEF TypeOK, Call, Try
      <4>2. QED BY <1>1, <4>1, TimesOfTries DEF Guarded, InTime, MayRepeat
    <3>4. \A c \in inside' : c.req = p => receipt'[p].age + c.left <= ReceiptTTL
      BY <2>1, <3>1
    <3>5. \A c \in wire' : c.req = p /\ c.left > 0 =>
            receipt'[p].age + c.left + ServeTime <= ReceiptTTL + 1
      BY <2>1, <3>2
    <3>6. MayRepeat(p)' => receipt'[p].age + client'[p].left
              + (Retries - client'[p].try) * TryTime
              + ValidFor + ServeTime <= ReceiptTTL + 1
      BY <2>1, <3>3 DEF MayRepeat
    <3>7. QED BY <3>4, <3>5, <3>6 DEF InTime
  <2>5. QED BY <2>3, <2>4 DEF Guarded
<1>4. QED BY <1>2, <1>3

LEMMA CommitGuards ==
  ASSUME ReceiptsInv, NEW d \in inside, CommitEffect(d), NEW p \in Request
  PROVE  /\ Guarded(p)'
         /\ effects'[p] = IF p = d.req THEN 1 ELSE effects[p]
         /\ p = d.req => effects[p] = 0
<1>1. TypeOK /\ Guarded(p)
  BY GuardedRequests
<1>2. CASE p # d.req
  <2>1. effects'[p] = effects[p] /\ receipt'[p] = receipt[p]
    BY <1>1, <1>2 DEF CommitEffect, TypeOK
  <2>2. Guarded(p)'
    BY <1>1, <1>2, <2>1, OtherRequests DEF CommitEffect
  <2>3. QED BY <1>2, <2>1, <2>2
<1>3. CASE p = d.req
  <2>1. receipt[p].state = "open"
    BY <1>3 DEF CommitEffect, Opened
  <2>2. effects[p] = 0 /\ client[p].at # "idle"
    BY <1>1, <1>3, <2>1, CopyInside
  <2>3. /\ effects'[p] = 1 /\ wire' = wire /\ inside' \subseteq inside
        /\ receipt'[p].state = "stored" /\ receipt'[p].age = receipt[p].age
    <3>1. receipt[p] \in Receipt /\ p \in DOMAIN receipt /\ p \in DOMAIN effects
      BY <1>1 DEF TypeOK
    <3>2. QED BY <1>3, <2>2, <3>1 DEF CommitEffect, Receipt
  <2>4. client'[p] = client[p] \/ client'[p].at = "done"
    BY <1>1, <1>3, AnswerType DEF CommitEffect, TypeOK
  <2>5. Outlives(p)' /\ Known(p)'
    BY <2>2, <2>3, <2>4 DEF Outlives, Known
  <2>6. InTime(p)'
    <3>1. CASE client'[p] = client[p]
      BY <1>1, <2>3, <3>1 DEF Guarded, InTime, MayRepeat
    <3>2. CASE client'[p].at = "done"
      BY <1>1, <2>3, <3>2 DEF Guarded, InTime, MayRepeat
    <3>3. QED BY <2>4, <3>1, <3>2
  <2>7. QED BY <1>3, <2>2, <2>3, <2>5, <2>6 DEF Guarded
<1>4. QED BY <1>2, <1>3

\* Without its receipt a request has nothing left that would bind it to a time.
LEMMA ShorterAge ==
  ASSUME TypeOK, NEW p \in Request, InTime(p),
         wire' \subseteq wire, inside' \subseteq inside, receipt'[p].age = 0,
         \/ client'[p] = client[p]
         \/ client'[p].at \in {"done", "failed"}
  PROVE  InTime(p)'
<1>1. receipt[p].age \in Nat
  BY DEF TypeOK, Receipt
<1>2. \A c \in inside : c.req = p => c.left \in Nat /\ receipt[p].age + c.left <= ReceiptTTL
  BY DEF InTime, TypeOK, Served
<1>3. \A c \in wire : c.req = p /\ c.left > 0 =>
        c.left \in Nat /\ receipt[p].age + c.left + ServeTime <= ReceiptTTL + 1
  BY DEF InTime, TypeOK, Wired
<1>4. MayRepeat(p) =>
        /\ client[p].left \in Nat /\ (Retries - client[p].try) * TryTime \in Nat
        /\ receipt[p].age + client[p].left + (Retries - client[p].try) * TryTime
             + ValidFor + ServeTime <= ReceiptTTL + 1
  <2>1. client[p].left \in Nat /\ client[p].try \in Nat
    BY DEF TypeOK, Call, Try
  <2>2. QED BY <2>1, TimesOfTries DEF InTime, MayRepeat
<1>5. \A c \in inside' : c.req = p => receipt'[p].age + c.left <= ReceiptTTL
  BY <1>1, <1>2
<1>6. \A c \in wire' : c.req = p /\ c.left > 0 =>
        receipt'[p].age + c.left + ServeTime <= ReceiptTTL + 1
  BY <1>1, <1>3
<1>7. MayRepeat(p)' => receipt'[p].age + client'[p].left
          + (Retries - client'[p].try) * TryTime + ValidFor + ServeTime <= ReceiptTTL + 1
  <2>1. MayRepeat(p)' => client'[p] = client[p] /\ MayRepeat(p)
    BY DEF MayRepeat
  <2>2. QED BY <1>1, <1>4, <2>1
<1>8. QED BY <1>5, <1>6, <1>7 DEF InTime

LEMMA RollBackGuards ==
  ASSUME ReceiptsInv, NEW d \in inside, RollBack(d), NEW p \in Request
  PROVE  Guarded(p)'
<1>1. TypeOK /\ Guarded(p)
  BY GuardedRequests
<1>2. CASE p # d.req
  <2>1. receipt'[p] = receipt[p]
    BY <1>1, <1>2 DEF RollBack, TypeOK
  <2>2. QED BY <1>1, <1>2, <2>1, OtherRequests DEF RollBack
<1>3. CASE p = d.req
  <2>1. receipt[p].state = "open"
    BY <1>3 DEF RollBack, Opened
  <2>2. effects[p] = 0 /\ client[p].at # "idle"
    BY <1>1, <1>3, <2>1, CopyInside
  <2>3. /\ effects' = effects /\ wire' = wire /\ inside' \subseteq inside
        /\ receipt'[p].state = "none" /\ receipt'[p].age = 0
    BY <1>1, <1>3 DEF RollBack, TypeOK, NoReceipt
  <2>4. client'[p] = client[p] \/ client'[p].at = "failed"
    BY <1>1, <1>3, AnswerType DEF RollBack, TypeOK
  <2>5. Outlives(p)' /\ Known(p)'
    BY <2>2, <2>3, <2>4 DEF Outlives, Known
  <2>6. InTime(p)'
    BY <1>1, <2>3, <2>4, ShorterAge DEF Guarded
  <2>7. QED BY <2>5, <2>6 DEF Guarded
<1>4. QED BY <1>2, <1>3

\* A step that only takes a copy away and answers it.
LEMMA CopyGone ==
  ASSUME ReceiptsInv, NEW p \in Request, NEW d, d.req \in Request,
         UNCHANGED client \/ \E answer \in {"done", "failed"} : Answer(d, answer),
         wire' \subseteq wire, inside' \subseteq inside, UNCHANGED <<receipt, effects>>
  PROVE  Guarded(p)'
<1>1. TypeOK /\ Guarded(p)
  BY GuardedRequests
<1>2. client'[p] = client[p] \/ client'[p].at \in {"done", "failed"}
  BY <1>1, AnswerType DEF TypeOK
<1>3. QED BY <1>1, <1>2, LeftAlone

\* A receipt is deleted when nothing is left for it to stop.
LEMMA PruneGuards ==
  ASSUME ReceiptsInv, PruneReceipts, NEW p \in Request
  PROVE  Guarded(p)'
<1>1. TypeOK /\ Guarded(p)
  BY GuardedRequests
<1>2. CASE ~(receipt[p].state = "stored" /\ receipt[p].age > ReceiptTTL)
  BY <1>1, <1>2, LeftAlone DEF PruneReceipts
<1>3. CASE receipt[p].state = "stored" /\ receipt[p].age > ReceiptTTL
  <2>1. /\ receipt'[p] = NoReceipt /\ client' = client /\ wire' = wire
        /\ inside' = inside /\ effects' = effects
    BY <1>3 DEF PruneReceipts
  <2>2. receipt[p].age \in Nat /\ receipt[p].age > ReceiptTTL /\ ReceiptTTL \in Nat
    BY <1>1, <1>3 DEF TypeOK, Receipt
  <2>3. \A c \in inside : c.req # p
    BY <1>1, <2>2 DEF Guarded, InTime, TypeOK, Served
  <2>4. \A c \in wire : c.req = p => c.left = 0
    <3>1. ASSUME NEW c \in wire, c.req = p, c.left > 0
          PROVE  FALSE
      <4>1. c.left \in Nat /\ receipt[p].age + c.left + ServeTime <= ReceiptTTL + 1
        BY <1>1, <3>1 DEF Guarded, InTime, TypeOK, Wired
      <4>2. QED BY <2>2, <3>1, <4>1
    <3>2. \A c \in wire : c.left \in Nat
      BY <1>1 DEF TypeOK, Wired
    <3>3. QED BY <3>1, <3>2
  <2>5. ~MayRepeat(p)
    <3>1. SUFFICES ASSUME MayRepeat(p) PROVE FALSE
      OBVIOUS
    <3>2. client[p].left \in Nat /\ client[p].try \in Nat /\ client[p].try <= Retries
      BY <1>1, <3>1 DEF TypeOK, Call, Try, MayRepeat
    <3>3. (Retries - client[p].try) * TryTime \in Nat
      BY <3>2, TimesOfTries
    <3>4. receipt[p].age + client[p].left + (Retries - client[p].try) * TryTime
            + ValidFor + ServeTime <= ReceiptTTL + 1
      BY <1>1, <3>1 DEF Guarded, InTime
    <3>5. ServeTime \in Nat /\ ValidFor \in Nat /\ ValidFor > 0
      BY TimeAssumption
    <3>6. QED BY SMTT(30), <2>2, <3>2, <3>3, <3>4, <3>5
  <2>6. client[p].at = "waiting" /\ p \notin Claims => client[p].try = Retries + 1
    <3>1. client[p].try \in (1..(Retries + 1)) \union {0} /\ Retries \in Nat
      BY <1>1 DEF TypeOK, Call, Try
    <3>2. client[p].at = "waiting" /\ p \notin Claims => ~(client[p].try <= Retries)
      BY <2>5 DEF MayRepeat
    <3> DEFINE n == client[p].try
    <3> HIDE DEF n
    <3>3. ~(n <= Retries) /\ n \in (1..(Retries + 1)) \union {0} => n = Retries + 1
      BY SMTT(30), <3>1
    <3>4. QED BY <3>1, <3>2, <3>3 DEF n
  <2>7. Outlives(p)'
    BY <2>1, <2>3, <2>4, <2>6 DEF Outlives
  <2>8. Known(p)'
    BY <1>1, <2>1 DEF Guarded, Known, NoReceipt
  <2>9. InTime(p)'
    BY <2>1, <2>3, <2>4, <2>5 DEF InTime, MayRepeat
  <2>10. QED BY <2>7, <2>8, <2>9 DEF Guarded
<1>4. QED BY <1>2, <1>3

\* Receipts age no faster than copies and calls.
LEMMA TickGuards ==
  ASSUME ReceiptsInv, Tick, NEW p \in Request
  PROVE  Guarded(p)'
<1>1. TypeOK /\ Guarded(p)
  BY GuardedRequests
<1>2. /\ receipt[p].age \in Nat /\ receipt'[p].age \in Nat
      /\ receipt'[p].age <= receipt[p].age + 1
      /\ receipt'[p].state = receipt[p].state
      /\ receipt[p] = NoReceipt => receipt'[p] = NoReceipt
      /\ effects' = effects
  BY <1>1 DEF Tick, TypeOK, Receipt, NoReceipt
<1>3. /\ client'[p].at = client[p].at /\ client'[p].try = client[p].try
      /\ client[p].at = "waiting" => client'[p].left = client[p].left - 1
  BY <1>1 DEF Tick, TypeOK, Call
<1>4. ASSUME NEW c \in inside'
      PROVE  \E d \in inside : d.req = c.req /\ d.left \in Nat /\ c.left = d.left - 1
  <2>1. inside \subseteq [req : Request, try : Try, left : 0..ServeTime]
        /\ c \in Aged(inside)
    BY <1>1 DEF Tick, TypeOK, Served
  <2>2. PICK d \in inside : /\ d.req = c.req
                            /\ \/ d.left > 0 /\ c.left = d.left - 1
                               \/ d.left = 0 /\ c.left = 0
    BY <2>1, AgedFacts
  <2>3. d.left > 0 /\ d.left \in Nat
    BY <2>1 DEF Tick
  <2>4. QED BY <2>2, <2>3
<1>5. ASSUME NEW c \in wire'
      PROVE  \E d \in wire : /\ d.req = c.req /\ d.left \in Nat
                             /\ \/ d.left > 0 /\ c.left = d.left - 1
                                \/ d.left = 0 /\ c.left = 0
  <2>1. wire \subseteq [req : Request, try : Try, left : 0..ValidFor]
        /\ c \in Aged(wire)
    BY <1>1 DEF Tick, TypeOK, Wired
  <2>2. QED BY <2>1, AgedFacts
<1>6. Outlives(p)'
  <2>1. \/ ~(effects[p] > 0) \/ receipt[p].state = "stored"
        \/ /\ \A c \in inside : c.req # p
           /\ \A c \in wire : c.req = p => c.left = 0
           /\ client[p].at # "waiting" \/ client[p].try = Retries + 1 \/ p \in Claims
    BY <1>1 DEF Guarded, Outlives
  <2>2. (\A c \in inside : c.req # p) => \A c \in inside' : c.req # p
    BY <1>4
  <2>3. (\A c \in wire : c.req = p => c.left = 0)
           => \A c \in wire' : c.req = p => c.left = 0
    BY <1>5
  <2>4. QED BY <1>2, <1>3, <2>1, <2>2, <2>3 DEF Outlives
<1>7. Known(p)'
  <2>1. (\A c \in wire \union inside : c.req # p)
           => \A c \in wire' \union inside' : c.req # p
    BY <1>4, <1>5
  <2>2. QED BY <1>1, <1>2, <1>3, <2>1 DEF Guarded, Known
<1>8. InTime(p)'
  <2>1. \A c \in inside' : c.req = p => receipt'[p].age + c.left <= ReceiptTTL
    <3>1. SUFFICES ASSUME NEW c \in inside', c.req = p
                   PROVE  receipt'[p].age + c.left <= ReceiptTTL
      OBVIOUS
    <3>2. PICK d \in inside : d.req = p /\ d.left \in Nat /\ c.left = d.left - 1
      BY <1>4, <3>1
    <3>3. receipt[p].age + d.left <= ReceiptTTL
      BY <1>1, <3>2 DEF Guarded, InTime
    <3>4. QED BY <1>2, <3>2, <3>3
  <2>2. \A c \in wire' : c.req = p /\ c.left > 0 =>
          receipt'[p].age + c.left + ServeTime <= ReceiptTTL + 1
    <3>1. SUFFICES ASSUME NEW c \in wire', c.req = p, c.left > 0
                   PROVE  receipt'[p].age + c.left + ServeTime <= ReceiptTTL + 1
      OBVIOUS
    <3>2. PICK d \in wire : d.req = p /\ d.left \in Nat /\ d.left > 0 /\ c.left = d.left - 1
      BY <1>5, <3>1
    <3>3. receipt[p].age + d.left + ServeTime <= ReceiptTTL + 1
      BY <1>1, <3>2 DEF Guarded, InTime
    <3>4. QED BY <1>2, <3>2, <3>3
  <2>3. MayRepeat(p)' => receipt'[p].age + client'[p].left
          + (Retries - client'[p].try) * TryTime + ValidFor + ServeTime <= ReceiptTTL + 1
    <3>1. SUFFICES ASSUME MayRepeat(p)'
                   PROVE  receipt'[p].age + client'[p].left
                            + (Retries - client'[p].try) * TryTime
                            + ValidFor + ServeTime <= ReceiptTTL + 1
      OBVIOUS
    <3>2. MayRepeat(p) /\ client'[p].left = client[p].left - 1
      BY <1>3, <3>1 DEF MayRepeat
    <3>3. client[p].left \in Nat /\ client[p].try \in Nat /\ client[p].try <= Retries
      BY <1>1, <3>2 DEF TypeOK, Call, Try, MayRepeat
    <3>4. (Retries - client[p].try) * TryTime \in Nat
      BY <3>3, TimesOfTries
    <3>5. receipt[p].age + client[p].left + (Retries - client[p].try) * TryTime
            + ValidFor + ServeTime <= ReceiptTTL + 1
      BY <1>1, <3>2 DEF Guarded, InTime
    <3>6. QED BY <1>2, <1>3, <3>2, <3>3, <3>4, <3>5
  <2>4. QED BY <2>1, <2>2, <2>3 DEF InTime
<1>9. QED BY <1>6, <1>7, <1>8 DEF Guarded

-----------------------------------------------------------------------------
(* Receipts: the theorems *)

LEMMA ReceiptsInit == Init => ReceiptsInv
<1> SUFFICES ASSUME Init PROVE ReceiptsInv
  OBVIOUS
<1>1. TypeOK
  BY DEF Init, TypeOK, Call, Receipt, NoReceipt
<1>2. ASSUME NEW q \in Request PROVE Guarded(q)
  BY DEF Init, Guarded, Outlives, Known, InTime, MayRepeat, NoReceipt
<1>3. QED BY <1>1, <1>2, GuardedRequests

LEMMA ReceiptsNext == ReceiptsInv /\ [Next]_vars => ReceiptsInv'
<1> SUFFICES ASSUME ReceiptsInv, [Next]_vars PROVE ReceiptsInv'
  OBVIOUS
<1> SUFFICES TypeOK' /\ \A p \in Request : Guarded(p)'
  BY GuardedRequests DEF ReceiptsInv, ReceiptOutlivesCopies, EffectsKnown, CopiesInTime,
                         Guarded, Outlives, Known, InTime
<1>1. TypeOK /\ \A p \in Request : Guarded(p)
  BY GuardedRequests
<1>2. \A c \in wire \union inside : c.req \in Request
  BY <1>1 DEF TypeOK, Wired, Served
<1>3. ASSUME NEW q \in Request, StartCall(q)
      PROVE  TypeOK' /\ \A p \in Request : Guarded(p)'
  BY <1>1, <1>3, StartType, StartGuards
<1>4. ASSUME NEW q \in Request, RepeatCall(q)
      PROVE  TypeOK' /\ \A p \in Request : Guarded(p)'
  BY <1>1, <1>4, RepeatType, RepeatGuards
<1>5. ASSUME NEW q \in Request, GiveUp(q)
      PROVE  TypeOK' /\ \A p \in Request : Guarded(p)'
  <2>1. TypeOK' /\ client'[q].at = "failed"
        /\ \A p \in Request \ {q} : client'[p] = client[p]
    BY <1>1, <1>5, GiveUpType
  <2>2. UNCHANGED <<wire, inside, receipt, effects>>
    BY <1>5 DEF GiveUp
  <2>3. ASSUME NEW p \in Request PROVE Guarded(p)'
    BY <1>1, <2>1, <2>2, LeftAlone
  <2>4. QED BY <2>1, <2>3
<1>6. ASSUME NEW c \in wire, LoseCopy(c) \/ RejectExpired(c)
      PROVE  TypeOK' /\ \A p \in Request : Guarded(p)'
  <2>1. /\ UNCHANGED client \/ Answer(c, "failed")
        /\ wire' \subseteq wire /\ UNCHANGED <<inside, receipt, effects>>
    BY <1>6 DEF LoseCopy, RejectExpired
  <2>2. client' \in [Request -> Call]
    BY <1>1, <1>2, <2>1, AnswerType DEF TypeOK
  <2>3. QED BY <1>1, <1>2, <2>1, <2>2, CopyGone DEF TypeOK
<1>7. ASSUME NEW c \in wire, Admit(c)
      PROVE  TypeOK' /\ \A p \in Request : Guarded(p)'
  BY <1>1, <1>7, AdmitType, AdmitGuards
<1>8. ASSUME NEW c \in inside, InsertReceipt(c)
      PROVE  TypeOK' /\ \A p \in Request : Guarded(p)'
  BY <1>1, <1>8, InsertType, InsertGuards
<1>9. ASSUME NEW c \in inside, CommitEffect(c)
      PROVE  TypeOK' /\ \A p \in Request : Guarded(p)'
  BY <1>1, <1>9, CommitType, CommitGuards
<1>10. ASSUME NEW c \in inside, RollBack(c)
       PROVE  TypeOK' /\ \A p \in Request : Guarded(p)'
  BY <1>1, <1>10, RollBackType, RollBackGuards
<1>11. ASSUME NEW c \in inside, ReplayAnswer(c)
       PROVE  TypeOK' /\ \A p \in Request : Guarded(p)'
  <2>1. /\ \E answer \in {"done", "failed"} : Answer(c, answer)
        /\ inside' \subseteq inside /\ UNCHANGED <<wire, receipt, effects>>
    BY <1>11 DEF ReplayAnswer
  <2>2. client' \in [Request -> Call]
    BY <1>1, <1>2, <2>1, AnswerType DEF TypeOK
  <2>3. QED BY <1>1, <1>2, <2>1, <2>2, CopyGone DEF TypeOK
<1>12. CASE PruneReceipts
  <2>1. TypeOK'
    BY <1>1, <1>12 DEF PruneReceipts, TypeOK, NoReceipt, Receipt
  <2>2. QED BY <1>12, <2>1, PruneGuards
<1>13. CASE Tick
  BY <1>1, <1>13, TickType, TickGuards
<1>14. CASE UNCHANGED vars
  <2>1. TypeOK'
    BY <1>1, <1>14 DEF vars, TypeOK
  <2>2. ASSUME NEW p \in Request PROVE Guarded(p)'
    BY <1>1, <1>14, LeftAlone DEF vars
  <2>3. QED BY <2>1, <2>2
<1>15. QED BY <1>3, <1>4, <1>5, <1>6, <1>7, <1>8, <1>9, <1>10, <1>11, <1>12, <1>13,
              <1>14 DEF Next

\* The inductive invariant of the receipts: while a copy of a request that took
\* effect may be served, its receipt is stored, because what is left of the life
\* of any copy fits into what is left of the life of the receipt.
THEOREM ReceiptsInvHolds == Spec => []ReceiptsInv
  BY ReceiptsInit, ReceiptsNext, PTL DEF Spec

\* Only a commit changes the count of effects, and it found none.
LEMMA EffectSteps ==
  ASSUME ReceiptsInv, [Next]_vars, NEW q \in Request
  PROVE  \/ effects'[q] = effects[q]
         \/ effects[q] = 0 /\ effects'[q] = 1
<1>1. ASSUME NEW c \in inside, CommitEffect(c)
      PROVE  \/ effects'[q] = effects[q]
             \/ effects[q] = 0 /\ effects'[q] = 1
  BY <1>1, CommitGuards
<1>2. CASE ~ \E c \in inside : CommitEffect(c)
  <2>1. effects' = effects
    BY <1>2 DEF Next, vars, StartCall, RepeatCall, GiveUp, LoseCopy, Admit, RejectExpired,
                InsertReceipt, RollBack, ReplayAnswer, PruneReceipts, Tick
  <2>2. QED BY <2>1
<1>3. QED BY <1>1, <1>2

\* A signed request takes effect at most once, for any number of retries, any
\* clock skew and any order, loss or delay of its copies, if receipts are kept as
\* long as ReceiptAssumption says.
THEOREM EffectsAtMostOnce == Spec => []AtMostOnce
<1>1. Init => AtMostOnce
  <2> SUFFICES ASSUME Init, NEW q \in Request PROVE effects[q] <= 1
    BY DEF AtMostOnce
  <2>1. effects[q] = 0
    BY DEF Init
  <2>2. QED BY <2>1
<1>2. ReceiptsInv /\ AtMostOnce /\ [Next]_vars => AtMostOnce'
  BY EffectSteps DEF AtMostOnce
<1>3. QED BY <1>1, <1>2, ReceiptsInvHolds, PTL DEF Spec

\* A caller that was told of success has had its effect, exactly once.
THEOREM SuccessIsTrue == Spec => []ToldTheTruth
<1>1. Init => ToldTheTruth
  BY DEF Init, ToldTheTruth
<1>2. ReceiptsInv /\ ToldTheTruth /\ [Next]_vars => ToldTheTruth'
  <2> SUFFICES ASSUME ReceiptsInv, ToldTheTruth, [Next]_vars,
                      NEW q \in Request, client'[q].at = "done"
               PROVE  effects'[q] = 1
    BY DEF ToldTheTruth
  <2>1. TypeOK /\ Known(q)
    BY GuardedRequests DEF Guarded
  <2>2. CASE client[q].at = "done"
    <3>1. effects[q] = 1
      BY <2>2 DEF ToldTheTruth
    <3>2. QED BY <3>1, EffectSteps
  <2>3. CASE client[q].at # "done"
    <3>1. ASSUME NEW c \in inside, CommitEffect(c)
          PROVE  effects'[q] = 1
      <4>1. c.req = q
        BY <2>1, <2>3, <3>1, AnswerType DEF CommitEffect, TypeOK, Served
      <4>2. QED BY <3>1, <4>1, CommitGuards
    <3>2. ASSUME NEW c \in inside, ReplayAnswer(c)
          PROVE  effects'[q] = 1
      <4>1. c.req = q
        BY <2>1, <2>3, <3>2, AnswerType DEF ReplayAnswer, TypeOK, Served
      <4>2. effects[q] = 1 /\ effects' = effects
        BY <2>1, <3>2, <4>1 DEF ReplayAnswer, Known
      <4>3. QED BY <4>2
    <3>3. ASSUME NEW c, c.req \in Request, UNCHANGED client \/ Answer(c, "failed")
          PROVE  FALSE
      BY <2>1, <2>3, <3>3, AnswerType DEF TypeOK
    <3>4. ASSUME NEW c \in wire, LoseCopy(c) \/ Admit(c) \/ RejectExpired(c)
          PROVE  FALSE
      <4>1. c.req \in Request
        BY <2>1 DEF TypeOK, Wired
      <4>2. QED BY <3>3, <3>4, <4>1 DEF LoseCopy, Admit, RejectExpired
    <3>5. ASSUME NEW c \in inside, InsertReceipt(c) \/ RollBack(c)
          PROVE  FALSE
      <4>1. c.req \in Request
        BY <2>1 DEF TypeOK, Served
      <4>2. QED BY <3>3, <3>5, <4>1 DEF InsertReceipt, RollBack
    <3>6. ASSUME NEW p \in Request, StartCall(p) \/ RepeatCall(p) \/ GiveUp(p)
          PROVE  FALSE
      BY SMTT(30), <2>1, <2>3, <3>6 DEF StartCall, RepeatCall, GiveUp, TypeOK, Call
    <3>7. CASE PruneReceipts \/ UNCHANGED vars
      BY <2>3, <3>7 DEF PruneReceipts, vars
    <3>8. CASE Tick
      BY <2>1, <2>3, <3>8 DEF Tick, TypeOK, Call
    <3>9. QED BY <2>3, <3>1, <3>2, <3>4, <3>5, <3>6, <3>7, <3>8 DEF Next
  <2>4. QED BY <2>2, <2>3
<1>3. QED BY <1>1, <1>2, ReceiptsInvHolds, PTL DEF Spec
=============================================================================
