------------------------------- MODULE Grader -------------------------------
(***************************************************************************)
(* What a runner makes of one task and what the web process makes of that: *)
(* TaskEvaluator (runner/grader.py) takes the test cases one after another *)
(* within a time and an output budget, LocalProcessExecutor runs the       *)
(* student's program for each, complete_task (execution/queue.py) stores   *)
(* the result or refuses it.                                               *)
(*                                                                         *)
(* Output is counted in bytes: those the program wrote, those of the text  *)
(* they are decoded to, and those of its JSON.  Of the characters only one *)
(* matters: a text may contain NUL.  Ticks of time are coarse; the poll    *)
(* loop of the executor looks far more often.                              *)
(***************************************************************************)
EXTENDS Naturals, Sequences, FiniteSets

CONSTANTS
  Cases,         \* the number of test cases
  CaseTime,      \* case_wall_seconds, and wall_seconds of a free run
  TaskTime,      \* task_wall_seconds
  ShortestWall,  \* the shortest limit _bounded_number accepts, 0.05 s
  FallbackTime,  \* the limit it gives instead of a shorter one, 10 s
  KillTime,      \* what ending a process tree may take
  ReportSlack,   \* what a result may take more than TaskTime, 5 s
  OutputBytes,   \* output_bytes of the runner and of the task
  MaxOutput,     \* EXECUTION_MAX_OUTPUT_BYTES
  MaxResult,     \* EXECUTION_MAX_RESULT_BYTES, less the fixed fields of the tests
  Growth         \* by how much a text may be longer than the bytes it is made of

ASSUME GraderAssumption ==
  /\ {Cases, CaseTime, TaskTime, FallbackTime, OutputBytes} \subseteq Nat \ {0}
  /\ {ShortestWall, KillTime, ReportSlack, MaxOutput, MaxResult, Growth} \subseteq Nat
  /\ ShortestWall <= CaseTime /\ CaseTime <= TaskTime

\* As the settings are delivered: a result within the limits of the runner is
\* within those of the web process.
ASSUME LimitsAgree ==
  /\ KillTime <= ReportSlack
  /\ OutputBytes <= MaxOutput /\ OutputBytes <= MaxResult

VARIABLES
  evaluation,  \* the task and the local variables of _grade
  program,     \* the child process of execute
  cancelled,   \* the cancel event of the task
  swept,       \* the shutdown has been through terminate_all
  sent,        \* the result as it is reported
  outcome,     \* what complete_task did with it
  causes       \* history: what brings a result beyond the limits

graderVars == <<evaluation, program, cancelled, swept, sent, outcome, causes>>

NoScore == Cases + 1

\* STATUS_PRIORITY
Severity == [succeeded |-> 0, wrong_answer |-> 1, runtime_error |-> 2,
             timed_out |-> 3, resource_limited |-> 4, system_error |-> 5]
GradeResults == DOMAIN Severity
RunResults == GradeResults \ {"wrong_answer"}

TestResult == [status : {"passed"} \union (GradeResults \ {"succeeded", "system_error"}),
               actual : Nat]

Fresh(kind) == [kind |-> kind, at |-> "next", spent |-> 0, left |-> OutputBytes,
                final |-> "succeeded", tests |-> << >>, used |-> 0]
NoProgram == [alive |-> FALSE, code |-> 0, wrote |-> 0, start |-> 0, deadline |-> 0]
Nothing == [status |-> "system_error", score |-> NoScore, text |-> 0, nul |-> FALSE,
            detail |-> 0, spent |-> 0, tests |-> << >>]

\* Faulty: the comparison is the wrong way round.
LessSevere(current, candidate) ==
  IF Severity[candidate] < Severity[current] THEN candidate ELSE current

MoreSevere(current, candidate) ==
  IF Severity[candidate] > Severity[current] THEN candidate ELSE current

Smaller(a, b) == IF a < b THEN a ELSE b
Passed(tests) == Cardinality({i \in DOMAIN tests : tests[i].status = "passed"})

-----------------------------------------------------------------------------
(* The program and what happens to it *)

Running == evaluation.at = "running"

\* The next test case, or the program of a free run.
StartProgram ==
  LET asked == IF evaluation.kind = "run" THEN CaseTime
               ELSE Smaller(CaseTime, TaskTime - evaluation.spent)
      tiny == asked < ShortestWall
      wall == IF tiny THEN FallbackTime ELSE asked IN
  /\ evaluation.at = "next"
  /\ evaluation.spent < TaskTime /\ evaluation.left > 0
  /\ evaluation' = [evaluation EXCEPT !.at = "running"]
  /\ program' = [alive |-> TRUE, code |-> 0, wrote |-> 0, start |-> evaluation.spent,
                 deadline |-> evaluation.spent + wall]
  /\ causes' = IF tiny THEN causes \union {"fallback"} ELSE causes
  /\ UNCHANGED <<cancelled, swept, sent, outcome>>

\* Up to one byte more than it may, which is as good as any number more.
ProgramWrites ==
  /\ Running /\ program.alive
  /\ program.wrote <= evaluation.left
  /\ program' = [program EXCEPT !.wrote = @ + 1]
  /\ UNCHANGED <<evaluation, cancelled, swept, sent, outcome, causes>>

ProgramEnds ==
  /\ Running /\ program.alive
  /\ \E code \in {0, 1} : program' = [program EXCEPT !.alive = FALSE, !.code = code]
  /\ UNCHANGED <<evaluation, cancelled, swept, sent, outcome, causes>>

ProgramTakesTime ==
  /\ Running /\ program.alive
  /\ evaluation.spent < program.deadline
  /\ evaluation' = [evaluation EXCEPT !.spent = @ + 1]
  /\ UNCHANGED <<program, cancelled, swept, sent, outcome, causes>>

\* The lease is lost, or the shutdown finds the task among the active ones.
SetCancel ==
  /\ evaluation.at \in {"next", "running"} /\ ~cancelled
  /\ cancelled' = TRUE
  /\ UNCHANGED <<evaluation, program, swept, sent, outcome, causes>>

\* terminate_all kills the children there are; a later one it does not meet.
TerminateAll ==
  /\ evaluation.at \in {"next", "running"} /\ ~swept
  /\ swept' = TRUE
  /\ program' = IF program.alive THEN [program EXCEPT !.alive = FALSE, !.code = 1]
                ELSE program
  /\ UNCHANGED <<evaluation, cancelled, sent, outcome, causes>>

\* How the poll loop ends.  It looks at the process first, then at the cancel
\* event, the limits and the deadline.  Memory and processes may be beyond their
\* limits at any time, and the executor itself may fail.
ProcessStatus ==
  {"system_error"} \union
  IF program.alive
  THEN IF cancelled THEN {}
       ELSE {"resource_limited"} \union
            (IF evaluation.spent >= program.deadline THEN {"timed_out"} ELSE {})
  ELSE IF program.wrote > evaluation.left THEN {"resource_limited"}
       ELSE IF program.code = 0 THEN {"succeeded"} ELSE {"runtime_error"}

\* The bytes the readers took.
BytesRead == Smaller(program.wrote, evaluation.left)

\* By how much n bytes may grow.
GrowthOf(n) == IF n = 0 THEN 0 ELSE Growth

\* They are decoded, an invalid or cut character to a longer one, the two bytes
\* of a line end to one.
Texts == ((BytesRead + 1) \div 2)..(BytesRead + GrowthOf(BytesRead))

GrownBy(text) == IF text > BytesRead THEN {"text"} ELSE {}

-----------------------------------------------------------------------------
(* TaskEvaluator *)

\* _run: the result is that of the process, its text with every character.
EndRun ==
  /\ Running /\ evaluation.kind = "run"
  /\ \E status \in ProcessStatus, text \in Texts, late \in {0, KillTime} :
     \E nul \in {FALSE, text # 0} :
       /\ sent' = [Nothing EXCEPT !.status = status, !.text = text, !.nul = nul,
                                  !.spent = evaluation.spent + late]
       /\ causes' = causes \union GrownBy(text) \union (IF nul THEN {"nul"} ELSE {})
  /\ evaluation' = [evaluation EXCEPT !.at = "reported"]
  /\ program' = NoProgram
  /\ UNCHANGED <<cancelled, swept, outcome>>

\* The result of a grade.  Its outputs are in the detail: as JSON they may be longer again.
Report(status, score, spent) ==
  /\ \E detail \in evaluation.used..(evaluation.used + GrowthOf(evaluation.used)) :
       /\ sent' = [Nothing EXCEPT !.status = status, !.score = score, !.spent = spent,
                                  !.tests = evaluation.tests, !.detail = detail]
       /\ causes' = causes \union (IF detail > evaluation.used THEN {"text"} ELSE {})
  /\ evaluation' = [evaluation EXCEPT !.at = "reported"]
  /\ program' = NoProgram
  /\ UNCHANGED <<cancelled, swept, outcome>>

\* Faulty: the cases passed so far are the score.
FailGradeScored ==
  /\ Running /\ evaluation.kind = "grade"
  /\ "system_error" \in ProcessStatus
  /\ \E late \in {0, KillTime} :
       Report("system_error", Passed(evaluation.tests), evaluation.spent + late)

\* A case the runner could not execute ends the task: no score.
FailGrade ==
  /\ Running /\ evaluation.kind = "grade"
  /\ "system_error" \in ProcessStatus
  /\ \E late \in {0, KillTime} : Report("system_error", NoScore, evaluation.spent + late)

BudgetAfter(left, text) == IF text < left THEN left - text ELSE 0

CaseStatus(status) ==
  IF status = "succeeded" THEN {"passed", "wrong_answer"} ELSE {status}

\* A case is over: its output, on one of two streams, is taken off the budget,
\* and a case that met a limit is the last.
EndCase ==
  /\ Running /\ evaluation.kind = "grade"
  /\ \E process \in ProcessStatus \ {"system_error"} :
     \E case \in CaseStatus(process), text \in Texts, late \in {0, KillTime} :
     \E actual \in {0, text} :
       LET tests == Append(evaluation.tests, [status |-> case, actual |-> actual]) IN
       /\ evaluation' = [evaluation EXCEPT
         !.spent = @ + late,
         !.left = BudgetAfter(@, text),
         !.used = @ + text,
         !.final = IF case = "passed" THEN @ ELSE MoreSevere(@, case),
         !.tests = tests,
         !.at = IF process \in {"resource_limited", "timed_out"} \/ Len(tests) = Cases
                THEN "scored" ELSE "next"]
       /\ causes' = causes \union GrownBy(text)
  /\ program' = NoProgram
  /\ UNCHANGED <<cancelled, swept, sent, outcome>>

\* Time or output are used up before all cases were taken.
OutOfBudget ==
  LET trouble == IF evaluation.spent >= TaskTime THEN "timed_out" ELSE "resource_limited" IN
  /\ evaluation.at = "next"
  /\ evaluation.spent >= TaskTime \/ evaluation.left = 0
  /\ evaluation' = [evaluation EXCEPT !.at = "scored", !.final = MoreSevere(@, trouble)]
  /\ UNCHANGED <<program, cancelled, swept, sent, outcome, causes>>

\* The score is the number of cases passed, as its share of all.
SendScore ==
  LET passed == Passed(evaluation.tests)
      short == evaluation.final = "succeeded" /\ passed # Cases IN
  /\ evaluation.at = "scored"
  /\ Report(IF short THEN "wrong_answer" ELSE evaluation.final, passed, evaluation.spent)

\* Whatever else goes wrong in the runner: process_task reports a bare failure.
EvaluationFails ==
  /\ evaluation.at \in {"next", "running", "scored"}
  /\ sent' = Nothing
  /\ evaluation' = [evaluation EXCEPT !.at = "reported"]
  /\ program' = NoProgram
  /\ UNCHANGED <<cancelled, swept, outcome, causes>>

-----------------------------------------------------------------------------
(* complete_task, for a lease that is still held; ExecutionQueue has the others *)

\* CompletionSerializer: its CharFields, stdout and stderr, contain no NUL.  The detail is
\* taken as it is, and of decoded bytes no surrogate is left to refuse.
SerializerAccepts(r) == ~r.nul

\* _validate_result
ResultFits(r) ==
  /\ r.status \in (IF evaluation.kind = "grade" THEN GradeResults ELSE RunResults)
  /\ r.text <= MaxOutput
  /\ r.spent <= TaskTime + ReportSlack
  /\ r.detail <= MaxResult

\* _sanitize_grade_result
ScoreFits(r) ==
  /\ r.status = "succeeded" => r.score = Cases
  /\ r.status = "wrong_answer" => r.score < Cases
  /\ r.status = "system_error" => r.score = NoScore
  /\ Len(r.tests) <= Cases
  /\ \A i \in DOMAIN r.tests : r.tests[i].actual <= MaxOutput

\* A refused result is lost: the worker has forgotten the task, whose lease runs out.
CompleteResult ==
  /\ evaluation.at = "reported"
  /\ outcome' = IF /\ SerializerAccepts(sent) /\ ResultFits(sent)
                   /\ evaluation.kind = "grade" => ScoreFits(sent)
                THEN "stored" ELSE "refused"
  /\ evaluation' = [evaluation EXCEPT !.at = "done"]
  /\ UNCHANGED <<program, cancelled, swept, sent, causes>>

-----------------------------------------------------------------------------
\* The next task, or the same one again, with a cancel event of its own.
TakeTask ==
  /\ evaluation.at = "done"
  /\ \E kind \in {"run", "grade"} : evaluation' = Fresh(kind)
  /\ program' = NoProgram /\ cancelled' = FALSE /\ swept' = FALSE
  /\ sent' = Nothing /\ outcome' = "none" /\ causes' = {}

GraderInit ==
  /\ \E kind \in {"run", "grade"} : evaluation = Fresh(kind)
  /\ program = NoProgram /\ cancelled = FALSE /\ swept = FALSE
  /\ sent = Nothing /\ outcome = "none" /\ causes = {}

GraderNext ==
  \/ StartProgram \/ ProgramWrites \/ ProgramEnds \/ ProgramTakesTime
  \/ SetCancel \/ TerminateAll
  \/ EndRun \/ FailGrade \/ EndCase \/ OutOfBudget \/ SendScore \/ EvaluationFails
  \/ CompleteResult \/ TakeTask

GraderSpec == GraderInit /\ [][GraderNext]_graderVars

-----------------------------------------------------------------------------
(* Properties *)

Evaluation == [kind : {"run", "grade"},
               at : {"next", "running", "scored", "reported", "done"},
               spent : Nat, left : Nat, final : GradeResults,
               tests : Seq(TestResult), used : Nat]

Child == [alive : BOOLEAN, code : {0, 1}, wrote : Nat, start : Nat, deadline : Nat]

Reported == [status : GradeResults, score : 0..NoScore, text : Nat, nul : BOOLEAN,
             detail : Nat, spent : Nat, tests : Seq(TestResult)]

GraderTypeOK ==
  /\ evaluation \in Evaluation /\ program \in Child /\ sent \in Reported
  /\ cancelled \in BOOLEAN /\ swept \in BOOLEAN
  /\ outcome \in {"none", "stored", "refused"}
  /\ causes \subseteq {"text", "nul", "fallback"}

\* A grade says what the cases came to, however the task was cut short: full
\* marks exactly when every case passed, no status milder than that of a case,
\* and cases left out only for a limit or a failure of the runner.
VerdictExplained ==
  evaluation.at \in {"reported", "done"} /\ evaluation.kind = "grade" =>
    /\ sent.status = "succeeded" <=> Passed(sent.tests) = Cases /\ sent.score = Cases
    /\ sent.score \in {Passed(sent.tests), NoScore}
    /\ \A i \in DOMAIN sent.tests :
         sent.tests[i].status # "passed" => Severity[sent.tests[i].status] <= Severity[sent.status]
    /\ Len(sent.tests) < Cases =>
         sent.status \in {"timed_out", "resource_limited", "system_error"}

\* Before the result is made: the status so far is that of the worst case, or,
\* once the task is scored, the limit that left cases out; a free run has no
\* score to come to.
Failed(tests) == \E i \in DOMAIN tests : tests[i].status # "passed"

CasesExplained ==
  LET e == evaluation IN
  /\ e.at = "scored" => e.kind = "grade"
  /\ e.at \in {"next", "running", "scored"} =>
       /\ e.final # "system_error"
       /\ \A i \in DOMAIN e.tests :
            e.tests[i].status # "passed" => Severity[e.tests[i].status] <= Severity[e.final]
       /\ e.final = "wrong_answer" => Failed(e.tests)
       /\ e.final # "succeeded" => \/ Failed(e.tests)
                                   \/ e.at = "scored" /\ Len(e.tests) < Cases
       /\ e.at = "scored" /\ Len(e.tests) < Cases =>
            e.final \in {"timed_out", "resource_limited"}
       /\ IF e.at = "scored" THEN Len(e.tests) <= Cases ELSE Len(e.tests) < Cases

\* As long as no text grew or contained NUL and no case had more time than was left,
\* outputs and time are within the budgets, and the result is one that is stored.
WithinBudget ==
  LET e == evaluation IN
  /\ e.left <= OutputBytes
  /\ e.at # "done" => outcome = "none"
  /\ e.kind = "run" /\ e.at = "next" => e.spent = 0 /\ e.left = OutputBytes
  /\ causes = {} =>
       /\ e.used + e.left = OutputBytes
       /\ \A i \in DOMAIN e.tests : e.tests[i].actual <= OutputBytes
       /\ e.spent <= TaskTime + KillTime
       /\ e.at = "running" => e.spent <= program.deadline /\ program.deadline <= TaskTime
       /\ e.at = "reported" =>
            /\ SerializerAccepts(sent) /\ ResultFits(sent)
            /\ e.kind = "grade" => ScoreFits(sent)

\* The inductive invariant of a task on its way through the runner.
GraderInv == GraderTypeOK /\ VerdictExplained /\ CasesExplained /\ WithinBudget

\* The web process refuses no result of a runner, except for a text that grew
\* when it was decoded or encoded, for a NUL that the program of a free run wrote, or
\* for the time of a case that had more than was left: status, score, tests, output and
\* time agree with all its rules.
RefusedForCause == outcome = "refused" => causes # {}

\* docs/dev/2026-09-15-cross-platform-local-runner-dev.md:173: any bytes a program
\* writes make a text that is safely reported.
AnyOutputIsStored == outcome = "refused" => "fallback" \in causes

\* docs/dev/2026-09-15-cross-platform-local-runner-dev.md:180: a case is held to
\* case_wall_seconds, all of them to task_wall_seconds.  No run lists this
\* property: the README describes the counterexample TLC finds.
CaseHeldToItsLimit ==
  Running => /\ program.deadline - program.start <= CaseTime
             /\ program.deadline <= TaskTime
=============================================================================
