--------------------------- MODULE QuizSettlement ---------------------------
(***************************************************************************)
(* One published AI quiz (ai_courses.quizzes): its session row, the        *)
(* attempts of its students, the submissions of each attempt, and how an   *)
(* attempt is locked, graded and settled.                                  *)
(*                                                                         *)
(* Every student operation locks user, session and attempt, so each is one *)
(* action.  Three things are not in its transaction and are steps of their *)
(* own: finalize_attempt, which every path calls after its commit and      *)
(* which the settle command, a result query and the teacher's overview     *)
(* call again; the Runner's result (execution.queue); and the settlement   *)
(* of a closed quiz, an on_commit hook that lists the attempts first and   *)
(* then settles them one transaction at a time.                            *)
(*                                                                         *)
(* A paper has one programming item.  Its choice answers are known by      *)
(* answer_revision, the time by what is left of it.                        *)
(***************************************************************************)
EXTENDS Naturals, Sequences, FiniteSetsExt

CONSTANTS
  Student,
  Scores,          \* scores of a graded submission
  TimeLimit,       \* in ticks; 0 is a quiz without a time limit
  BrowserGrace,    \* BROWSER_SCORE_GRACE_SECONDS, in ticks
  QueuedLimit,     \* EXECUTION_USER_QUEUED_LIMIT
  Faults,          \* what can fail: "hook", the settlement of a closed quiz
  MaxAttempts,     \* bound: attempts of one student
  MaxRevision,     \* bound: accepted writes of one attempt
  MaxSubmissions,  \* bound: submissions of one attempt
  MaxVersion       \* bound: management operations

ASSUME ScoresAssumption == Scores \subseteq Nat /\ 0 \in Scores
ASSUME BoundsAssumption == {TimeLimit, BrowserGrace, QueuedLimit, MaxAttempts, MaxRevision,
                            MaxSubmissions, MaxVersion} \subseteq Nat

VARIABLES
  session,   \* the AIQuizSession row
  attempt,   \* [Student -> Seq(Attempt)]: AIQuizAttempt rows by attempt_no
  hooks,     \* close hooks that have not listed the attempts yet
  listed     \* attempts the close hooks have listed and not settled yet

vars == <<session, attempt, hooks, listed>>

\* version is management_version, less what publishing made it.
Session == [status : {"open", "closed"}, archived : BOOLEAN, version : 0..MaxVersion]

Reasons == {"submitted", "timed_out", "closed"}
Final == Reasons                      \* FINAL_STATUS_BY_REASON is the identity
Statuses == Final \union {"in_progress", "settling", "reset"}

\* A grade task with its Submission, or the browser's own score of the code.
Submission == [by : {"runner", "browser"}, status : {"active", "scored", "failed"},
               score : Scores, counts : BOOLEAN]

\* result is what the last settlement stored: graded is the answer_revision
\* it scored, issue is grading_issue_count, revision is result_revision.
Result == [score : Scores, graded : Nat, issue : 0..1, revision : Nat]
NoResult == [score |-> 0, graded |-> 0, issue |-> 0, revision |-> 0]

\* reason "" is not settled; age is the time since settled_at.
Attempt == [status : Statuses, current : BOOLEAN, reason : Reasons \union {""},
            left : 0..TimeLimit, rev : Nat, subs : Seq(Submission),
            result : Result, age : 0..(BrowserGrace + 1)]

Ids == {id \in Student \X (1..MaxAttempts) : id[2] <= Len(attempt[id[1]])}
Row(id) == attempt[id[1]][id[2]]
Write(id, row) == attempt' = [attempt EXCEPT ![id[1]][id[2]] = row]

-----------------------------------------------------------------------------
(* Scoring *)

Counted(a) == {i \in 1..Len(a.subs) : a.subs[i].counts}
\* Faulty: a failed grading is waited for.
UnscoredGrades(a) == {i \in Counted(a) : a.subs[i].status # "scored"}

ActiveGrades(a) == {i \in Counted(a) : a.subs[i].status = "active"}
Best(a) == {a.subs[i].score : i \in {j \in Counted(a) : a.subs[j].status = "scored"}}
HasIssue(a) == \E i \in Counted(a) : a.subs[i].status = "failed"

Score(a) == IF Best(a) = {} THEN 0 ELSE Max(Best(a))
Issues(a) == IF Best(a) = {} /\ HasIssue(a) THEN 1 ELSE 0

\* Faulty: whatever locked the paper, it ends as a submitted one.
FinalizedSubmitted(a) ==
  [a EXCEPT !.status = "submitted", !.age = 0,
            !.result = [score |-> Score(a), graded |-> a.rev, issue |-> Issues(a),
                        revision |-> a.result.revision + 1]]

Finalized(a) ==
  [a EXCEPT !.status = a.reason, !.age = 0,
            !.result = [score |-> Score(a), graded |-> a.rev, issue |-> Issues(a),
                        revision |-> a.result.revision + 1]]

\* Faulty: gradings under way are not waited for.
FinalizeAtOnce(id) ==
  /\ Row(id).status = "settling"
  /\ Write(id, Finalized(Row(id)))
  /\ UNCHANGED <<session, hooks, listed>>

FinalizeAttempt(id) ==
  /\ Row(id).status = "settling"
  /\ ActiveGrades(Row(id)) = {}
  /\ Write(id, Finalized(Row(id)))
  /\ UNCHANGED <<session, hooks, listed>>

-----------------------------------------------------------------------------
(* What a student does *)

Open == session.status = "open" /\ ~session.archived
Overdue(a) == TimeLimit > 0 /\ a.left = 0
Active(a) == a.status = "in_progress"

Settling(a, reason) == [a EXCEPT !.status = "settling", !.reason = reason]

\* A request that finds the time over locks the paper and answers 410.
MarkDeadlinePassed(id) ==
  /\ Active(Row(id)) /\ Overdue(Row(id))
  /\ Write(id, Settling(Row(id), "timed_out"))

NewAttempt ==
  [status |-> "in_progress", current |-> TRUE, reason |-> "", left |-> TimeLimit,
   rev |-> 0, subs |-> <<>>, result |-> NoResult, age |-> 0]

\* Faulty: the old attempt stays current.
HistoricCurrent(a) == a

Historic(a) == [a EXCEPT !.current = FALSE]

\* Resuming an attempt changes nothing, and so has no step.
StartAttempt(s) ==
  /\ Open
  /\ \/ \E n \in 1..Len(attempt[s]) : attempt[s][n].current /\ MarkDeadlinePassed(<<s, n>>)
     \/ /\ Len(attempt[s]) < MaxAttempts
        /\ \A n \in 1..Len(attempt[s]) :
              attempt[s][n].current => attempt[s][n].status \in Final \union {"reset"}
        /\ attempt' = [attempt EXCEPT ![s] =
              Append([n \in DOMAIN @ |-> Historic(@[n])], NewAttempt)]
  /\ UNCHANGED <<session, hooks, listed>>

\* Faulty: the status of the attempt is not looked at.
SaveAnyStatus(id) ==
  /\ Open /\ Row(id).current
  /\ \/ MarkDeadlinePassed(id)
     \/ /\ ~Overdue(Row(id))
        /\ Row(id).rev < MaxRevision
        /\ Write(id, [Row(id) EXCEPT !.rev = @ + 1])
  /\ UNCHANGED <<session, hooks, listed>>

SaveAnswers(id) ==
  /\ Open /\ Row(id).current
  /\ \/ MarkDeadlinePassed(id)
     \/ /\ Active(Row(id)) /\ ~Overdue(Row(id))
        /\ Row(id).rev < MaxRevision
        /\ Write(id, [Row(id) EXCEPT !.rev = @ + 1])
  /\ UNCHANGED <<session, hooks, listed>>

\* The grade tasks of a student that the queue has not finished.
UserActive(s) ==
  {grade \in (1..MaxAttempts) \X (1..MaxSubmissions) :
      LET n == grade[1]  i == grade[2] IN
        /\ n <= Len(attempt[s]) /\ i <= Len(attempt[s][n].subs)
        /\ attempt[s][n].subs[i].status = "active"}

WithGrade(a) ==
  [a EXCEPT !.subs = Append(@, [by |-> "runner", status |-> "active", score |-> 0, counts |-> TRUE])]

\* enqueue_quiz_grade, for a student and for a teacher's regrade.
QueueAccepts(id) ==
  /\ Cardinality(UserActive(id[1])) < QueuedLimit
  /\ Len(Row(id).subs) < MaxSubmissions

EnqueueGrade(id) ==
  /\ Open /\ Row(id).current
  /\ \/ MarkDeadlinePassed(id)
     \/ /\ Active(Row(id)) /\ ~Overdue(Row(id))
        /\ QueueAccepts(id)
        /\ Write(id, WithGrade(Row(id)))
  /\ UNCHANGED <<session, hooks, listed>>

\* What the browser sends with a submission: a score of the final code, no
\* score when its own grading failed, empty code, or no programming at all.
Local == {[given |-> "nothing", score |-> 0], [given |-> "empty", score |-> 0],
          [given |-> "failed", score |-> 0]}
         \union {[given |-> "scored", score |-> k] : k \in Scores}

StoreLocalProgramming(a, local) ==
  LET old == [i \in DOMAIN a.subs |-> [a.subs[i] EXCEPT !.counts = FALSE]]
  IN [a EXCEPT !.subs =
        IF local.given = "empty" THEN old
        ELSE Append(old, [by |-> "browser", status |-> local.given,
                          score |-> local.score, counts |-> TRUE])]

WithLocal(a, local) ==
  IF local.given = "nothing" THEN a ELSE StoreLocalProgramming(a, local)

\* Faulty: a result that was corrected once is corrected again.
LateScoreRepeated(a) ==
  /\ a.status \in {"timed_out", "closed"}
  /\ a.age <= BrowserGrace
  /\ \A i \in Counted(a) : a.subs[i].by # "browser"

LateScoreAccepted(a) ==
  /\ a.status \in {"timed_out", "closed"}
  /\ a.age <= BrowserGrace
  /\ a.result.revision = 1
  /\ \A i \in Counted(a) : a.subs[i].by # "browser"

\* Final answers that reach the server in time are saved with the paper.
Submitted(a, saves) ==
  IF Overdue(a) THEN Settling(a, "timed_out")
  ELSE Settling([a EXCEPT !.rev = IF saves THEN @ + 1 ELSE @], "submitted")

RequestSettlement(id, local, saves) ==
  LET a == Row(id)
  IN /\ a.current
     /\ local.given \in {"failed", "scored"} => Len(a.subs) < MaxSubmissions
     /\ \/ /\ LateScoreAccepted(a) /\ local.given # "nothing"
           /\ Write(id, [StoreLocalProgramming(a, local) EXCEPT !.status = "settling"])
        \/ /\ a.status = "settling" /\ local.given # "nothing"
           /\ Write(id, StoreLocalProgramming(a, local))
        \/ /\ Active(a) /\ Open
           /\ saves => a.rev < MaxRevision
           /\ Write(id, WithLocal(Submitted(a, saves), local))
     /\ UNCHANGED <<session, hooks, listed>>

-----------------------------------------------------------------------------
(* The Runner's result and the clock *)

\* complete_task stores a score, or an outcome without one; the recovery of
\* an expired or lost task only the latter.
GradeFinished(id, status, score) ==
  /\ \E i \in 1..Len(Row(id).subs) :
        /\ Row(id).subs[i].status = "active"
        /\ Write(id, [Row(id) EXCEPT !.subs[i].status = status, !.subs[i].score = score])
  /\ UNCHANGED <<session, hooks, listed>>

Older(a) ==
  CASE a.status = "in_progress" /\ a.left > 0 -> [a EXCEPT !.left = @ - 1]
    [] a.status \in Final /\ a.age <= BrowserGrace -> [a EXCEPT !.age = @ + 1]
    [] OTHER -> a

Tick ==
  /\ attempt' = [s \in Student |-> [n \in DOMAIN attempt[s] |-> Older(attempt[s][n])]]
  /\ UNCHANGED <<session, hooks, listed>>

\* request_system_settlement: the rows are listed, then locked and checked.
SystemSettlement(id, reason) ==
  /\ Active(Row(id))
  /\ Write(id, Settling(Row(id), reason))

\* Faulty: only open quizzes are looked through.
SettleDueOpen(id) ==
  /\ Open
  /\ Row(id).current /\ Overdue(Row(id))
  /\ SystemSettlement(id, "timed_out")
  /\ UNCHANGED <<session, hooks, listed>>

\* settle_due_attempts, a result query, the teacher's overview.
SettleDue(id) ==
  /\ Row(id).current /\ Overdue(Row(id))
  /\ SystemSettlement(id, "timed_out")
  /\ UNCHANGED <<session, hooks, listed>>

-----------------------------------------------------------------------------
(* What a teacher does *)

Managed(status, archived) ==
  /\ ~session.archived /\ session.version < MaxVersion
  /\ session' = [status |-> status, archived |-> archived, version |-> session.version + 1]

CloseQuiz ==
  /\ session.status = "open"
  /\ Managed("closed", FALSE)
  /\ hooks' = hooks + 1
  /\ UNCHANGED <<attempt, listed>>

ReopenQuiz ==
  /\ session.status = "closed"
  /\ Managed("open", FALSE)
  /\ UNCHANGED <<attempt, hooks, listed>>

ArchiveQuiz ==
  /\ Managed(session.status, TRUE)
  /\ UNCHANGED <<attempt, hooks, listed>>

\* Faulty: only overdue attempts are listed.
ListOverdue ==
  /\ hooks > 0
  /\ hooks' = hooks - 1
  /\ listed' = listed \union {id \in Ids : Active(Row(id)) /\ Row(id).current /\ Overdue(Row(id))}
  /\ UNCHANGED <<session, attempt>>

ListClosed ==
  /\ hooks > 0
  /\ hooks' = hooks - 1
  /\ listed' = listed \union {id \in Ids : Active(Row(id)) /\ Row(id).current}
  /\ UNCHANGED <<session, attempt>>

SettleClosed(id) ==
  /\ id \in listed
  /\ listed' = listed \ {id}
  /\ \/ SystemSettlement(id, "closed")
     \/ ~Active(Row(id)) /\ UNCHANGED attempt
  /\ UNCHANGED <<session, hooks>>

\* The process ends, or an exception is logged and the rest is not done.
HookLost ==
  /\ "hook" \in Faults
  /\ \/ hooks > 0 /\ hooks' = hooks - 1 /\ UNCHANGED listed
     \/ \E id \in listed : listed' = listed \ {id} /\ UNCHANGED hooks
  /\ UNCHANGED <<session, attempt>>

ResetAttempt(id) ==
  /\ Open /\ Row(id).current
  /\ Write(id, [Row(id) EXCEPT !.status = "reset", !.current = FALSE])
  /\ UNCHANGED <<session, hooks, listed>>

\* The archived flag and the status of the session do not matter.
RegradeItem(id) ==
  /\ Row(id).status \in Final /\ Row(id).result.issue > 0
  /\ Best(Row(id)) = {}
  /\ \E i \in 1..Len(Row(id).subs) : Row(id).subs[i].by = "runner" /\ Row(id).subs[i].status = "failed"
  /\ QueueAccepts(id)
  /\ Write(id, [WithGrade(Row(id)) EXCEPT !.status = "settling"])
  /\ UNCHANGED <<session, hooks, listed>>

-----------------------------------------------------------------------------
Init ==
  /\ session = [status |-> "open", archived |-> FALSE, version |-> 0]
  /\ attempt = [s \in Student |-> <<>>]
  /\ hooks = 0 /\ listed = {}

StudentStep(id) ==
  \/ SaveAnswers(id) \/ EnqueueGrade(id)
  \/ \E local \in Local, saves \in BOOLEAN : RequestSettlement(id, local, saves)

RunnerStep(id) ==
  \/ \E k \in Scores : GradeFinished(id, "scored", k)
  \/ GradeFinished(id, "failed", 0)

TeacherStep ==
  \/ CloseQuiz \/ ReopenQuiz \/ ArchiveQuiz
  \/ \E id \in Ids : ResetAttempt(id) \/ RegradeItem(id)

SystemStep(id) == SettleDue(id) \/ FinalizeAttempt(id)

HookStep == ListClosed \/ HookLost \/ \E id \in Ids : SettleClosed(id)

Next ==
  \/ \E s \in Student : StartAttempt(s)
  \/ \E id \in Ids : StudentStep(id) \/ RunnerStep(id) \/ SystemStep(id)
  \/ Tick \/ TeacherStep \/ HookStep

Spec == Init /\ [][Next]_vars

\* The queue finishes what it accepted, the settle command runs again and
\* again, time passes and a hook that is not lost runs.  A hook may be lost,
\* and nothing makes a student or a teacher act.
AllIds == Student \X (1..MaxAttempts)
Fairness ==
  /\ WF_vars(Tick) /\ WF_vars(HookStep)
  /\ \A id \in AllIds : WF_vars(id \in Ids /\ RunnerStep(id))
                        /\ WF_vars(id \in Ids /\ SystemStep(id))

FairSpec == Spec /\ Fairness

-----------------------------------------------------------------------------
(* Properties *)

\* Every row holds values of its fields, whatever operations interleave.
TypeOK ==
  /\ session \in Session
  /\ attempt \in [Student -> Seq(Attempt)]
  /\ \A s \in Student : Len(attempt[s]) <= MaxAttempts
  /\ hooks \in 0..session.version
  /\ listed \subseteq Ids

\* A settled attempt shows the score of everything that counts for it: the
\* Runner owes it no result, and neither an answer nor a submission came in
\* after finalize_attempt computed the score.  Grading, late browser scores,
\* regrades, saves and the settle command all race for it.
GradedOnEverything ==
  \A id \in Ids :
    Row(id).status \in Final =>
      LET a == Row(id)
      IN /\ ActiveGrades(a) = {}
         /\ a.result.score = Score(a) /\ a.result.issue = Issues(a)
         /\ a.result.graded = a.rev

\* An attempt in progress is its student's current one, and the only one: the
\* commands that settle overdue and closed attempts look at current ones only,
\* so that any other would stay open for ever.
InProgressIsCurrent ==
  \A id \in Ids :
    /\ Active(Row(id)) => Row(id).current
    /\ \A n \in 1..Len(attempt[id[1]]) :
          Row(id).current /\ attempt[id[1]][n].current => n = id[2]

\* Once locked, a paper takes no answers and no grade tasks of its student,
\* keeps the reason it was locked for and is never open again.  Only a regrade
\* of a settled attempt adds a task.
LockedPaper ==
  [][\A id \in Ids :
       ~Active(Row(id)) =>
         /\ Row(id)'.status # "in_progress"
         /\ Row(id)'.rev = Row(id).rev
         /\ Row(id)'.reason = Row(id).reason
         /\ Len(Row(id)'.subs) > Len(Row(id).subs)
              => \/ Row(id)'.subs[Len(Row(id)'.subs)].by = "browser"
                 \/ Row(id).status \in Final /\ Row(id).result.issue > 0]_vars

RunnerGrades(a) == {i \in 1..Len(a.subs) : a.subs[i].by = "runner"}

\* A late browser score corrects a settled result once: every result after the
\* second, the one on its way included, answers a grade task that a regrade put
\* in the queue after the first.  The Runner need not have failed again: a
\* browser score that comes while the regrade runs ends the settlement.
ResultsExplained ==
  \A id \in Ids :
    LET a == Row(id)
        results == a.result.revision + (IF a.status = "settling" THEN 1 ELSE 0)
    IN /\ Active(a) => results = 0
       /\ results <= 2 \/ results <= 1 + Cardinality(RunnerGrades(a))

\* An attempt that is being settled is settled in the end, or reset: no grade
\* task, hook or late score leaves it waiting for ever.
SettlingEnds ==
  \A id \in AllIds : (id \in Ids /\ Row(id).status = "settling")
                        ~> (id \in Ids /\ Row(id).status # "settling")

\* An attempt whose time is over does not stay in progress.
OverdueEnds ==
  \A id \in AllIds : (id \in Ids /\ Active(Row(id)) /\ Overdue(Row(id)))
                        ~> (id \in Ids /\ ~Active(Row(id)))

\* Closing a quiz ends the attempts in progress in it, even those of a quiz
\* without a time limit, unless the quiz is open again.
CloseSettles ==
  \A id \in AllIds : (id \in Ids /\ Active(Row(id)) /\ session.status = "closed")
                        ~> ((id \in Ids /\ ~Active(Row(id))) \/ session.status = "open")

\* A paper that is locked says why, and its status is that reason in the end.
ReasonKnown ==
  \A id \in Ids :
    /\ Row(id).status = "settling" => Row(id).reason \in Reasons
    /\ Row(id).status \in Final => Row(id).status = Row(id).reason

\* The attempts of the students: their fields, the one in progress, and why the
\* others are not.
AttemptsInv == TypeOK /\ InProgressIsCurrent /\ ReasonKnown
=============================================================================
