---------------------------- MODULE Submissions ----------------------------
(***************************************************************************)
(* How code that a student sends becomes one task: the practice and quiz   *)
(* views and the idempotency keys of execution/services.py.  One student;  *)
(* requests with the same key overlap, arrive late or are sent again after *)
(* the tests of the problem, the runner or the paper have changed.         *)
(*                                                                         *)
(* What becomes of a task in the queue is the matter of ExecutionQueue;    *)
(* here it only counts against the limits of its student.                  *)
(***************************************************************************)
EXTENDS Naturals, FiniteSets

CONSTANTS
  IdKey,        \* Idempotency-Key headers of the student's requests
  Sender,       \* requests the web process serves at a time
  Version,      \* versions of the test files of a problem
  NoTask,
  QueuedMost,   \* EXECUTION_USER_QUEUED_LIMIT
  RunningMost,  \* EXECUTION_USER_RUNNING_LIMIT
  MaxSends      \* bound: requests of a behaviour

ASSUME SubmissionsAssumption ==
  QueuedMost \in Nat \ {0} /\ RunningMost \in Nat \ {0} /\ MaxSends \in Nat

VARIABLES
  tasks,      \* [IdKey -> Task or NoTask]: one task for a user and a key
  tests,      \* the version of the test files, or "broken"
  runner,     \* is a runner online with a recent heartbeat, or none required?
  paper,      \* is the student's quiz attempt in progress, the quiz open?
  sender,     \* [Sender -> request and, in the end, its answer]
  sends       \* requests so far

subVars == <<tasks, tests, runner, paper, sender, sends>>

\* Code in the practice area with or without grading, or in a quiz, where the
\* tests are those of the blueprint.
Kind == {"run", "grade", "quiz"}

\* snapshot_digest: what the task executes, for a grading with its tests.
Digest == [kind : {"run", "quiz"}, tests : {"none"}] \union [kind : {"grade"}, tests : Version]
DigestOf(kind) == [kind |-> kind, tests |-> IF kind = "grade" THEN tests ELSE "none"]

Task == [digest : Digest, status : {"queued", "running", "finished"}]
ASSUME NoTaskAssumption == NoTask \notin Task
NewTask(d) == [digest |-> d, status |-> "queued"]

\* was is what the table held for the key when the request came in; told the
\* task an answer speaks of.
Resting == [at |-> "idle"]
Refused(r, code) == [at |-> "answered", key |-> r.key, was |-> r.was,
                     digest |-> r.digest, code |-> code, told |-> NoTask]
Accepted(r, d)   == [at |-> "answered", key |-> r.key, was |-> r.was,
                     digest |-> r.digest, code |-> "accepted", told |-> d]

SubmissionsInit ==
  /\ tasks = [k \in IdKey |-> NoTask]
  /\ tests \in Version
  /\ runner \in BOOLEAN
  /\ paper = TRUE
  /\ sender = [w \in Sender |-> Resting]
  /\ sends = 0

-----------------------------------------------------------------------------
(* Requests *)

AnswerBy(w, a) == sender' = [sender EXCEPT ![w] = a]

Count(status) ==
  Cardinality({k \in IdKey : tasks[k] # NoTask /\ tasks[k].status = status})

\* _lock_user_and_check_capacity; the lock lasts until the task is inserted.
Capacity(r) ==
  IF Count("running") >= RunningMost THEN Refused(r, "running_limit_reached")
  ELSE IF Count("queued") >= QueuedMost THEN Refused(r, "queue_limit_reached")
  ELSE Accepted(r, r.digest)

\* Faulty: the task of the key is returned, whatever it executes.
ExistingOfKey(r) == Accepted(r, tasks[r.key].digest)

\* _existing_task: the task of the key, if it executes the same.
Existing(r) ==
  IF tasks[r.key].digest = r.digest THEN Accepted(r, r.digest)
  ELSE Refused(r, "idempotency_conflict")

\* SubmissionView and CodeRunView: a grading reads the tests of the problem.
ReceiveCode(w, k, kind) ==
  /\ sender[w].at = "idle" /\ sends < MaxSends /\ kind # "quiz"
  /\ sends' = sends + 1
  /\ LET r == [at |-> "received", key |-> k, was |-> tasks[k], digest |-> DigestOf(kind)]
     IN AnswerBy(w, IF kind = "grade" /\ tests = "broken"
                  THEN Refused(r, "invalid_test_snapshot") ELSE r)
  /\ UNCHANGED <<tasks, tests, runner, paper>>

\* Faulty: the runner is asked for first.
LookUpLast(w) ==
  /\ sender[w].at = "received"
  /\ LET r == sender[w]
     IN AnswerBy(w, IF ~runner THEN Refused(r, "runner_unavailable")
                  ELSE IF tasks[r.key] # NoTask THEN Existing(r)
                  ELSE [r EXCEPT !.at = "inserting"])
  /\ UNCHANGED <<tasks, tests, runner, paper, sends>>

\* enqueue_run, enqueue_grade: a repeated request finds its task; any other
\* needs a runner.
LookUp(w) ==
  /\ sender[w].at = "received"
  /\ LET r == sender[w]
     IN AnswerBy(w, IF tasks[r.key] # NoTask THEN Existing(r)
                  ELSE IF ~runner THEN Refused(r, "runner_unavailable")
                  ELSE [r EXCEPT !.at = "inserting"])
  /\ UNCHANGED <<tasks, tests, runner, paper, sends>>

\* The task and its submission are inserted under the lock of the user, unless
\* the limits refuse it; the unique constraint finds a task that came first.
InsertTask(w) ==
  /\ sender[w].at = "inserting"
  /\ LET r == sender[w]
         a == Capacity(r)
     IN /\ AnswerBy(w, IF a.code = "accepted" /\ tasks[r.key] # NoTask THEN Existing(r) ELSE a)
        /\ tasks' = IF a.code = "accepted" /\ tasks[r.key] = NoTask
                    THEN [tasks EXCEPT ![r.key] = NewTask(r.digest)] ELSE tasks
  /\ UNCHANGED <<tests, runner, paper, sends>>

\* In a quiz the locks of user, quiz and attempt come first, so that requests
\* of one student follow each other; the attempt has to be in progress, also
\* for a request that is repeated.
QuizTask(w, k) ==
  /\ sender[w].at = "idle" /\ sends < MaxSends
  /\ sends' = sends + 1
  /\ LET r == [key |-> k, was |-> tasks[k], digest |-> DigestOf("quiz")]
         a == IF ~paper THEN Refused(r, "attempt_not_active")
              ELSE IF tasks[k] # NoTask THEN Existing(r)
              ELSE IF ~runner THEN Refused(r, "runner_unavailable")
              ELSE Capacity(r)
     IN /\ AnswerBy(w, a)
        /\ tasks' = IF a.code = "accepted" /\ tasks[k] = NoTask
                    THEN [tasks EXCEPT ![k] = NewTask(r.digest)] ELSE tasks
  /\ UNCHANGED <<tests, runner, paper>>

Answered(w) ==
  /\ sender[w].at = "answered"
  /\ AnswerBy(w, Resting)
  /\ UNCHANGED <<tasks, tests, runner, paper, sends>>

-----------------------------------------------------------------------------
(* What changes meanwhile *)

\* The queue starts a task, finishes it, or puts it back when its lease is lost.
QueueMoves(k) ==
  /\ tasks[k] # NoTask
  /\ \E status \in {"queued", "running", "finished"} :
       /\ <<tasks[k].status, status>> \in {<<"queued", "running">>, <<"queued", "finished">>,
                                           <<"running", "queued">>, <<"running", "finished">>}
       /\ tasks' = [tasks EXCEPT ![k].status = status]
  /\ UNCHANGED <<tests, runner, paper, sender, sends>>

\* The tests of the problem are changed on disk.
TestsChange ==
  /\ tests' \in (Version \union {"broken"}) \ {tests}
  /\ UNCHANGED <<tasks, runner, paper, sender, sends>>

\* The last runner goes offline or the first comes back.
RunnerChange ==
  /\ runner' = ~runner
  /\ UNCHANGED <<tasks, tests, paper, sender, sends>>

\* The paper is handed in, runs out of time or its quiz is closed.
PaperEnds ==
  /\ paper /\ paper' = FALSE
  /\ UNCHANGED <<tasks, tests, runner, sender, sends>>

SubmissionsNext ==
  \/ \E w \in Sender :
        \/ \E k \in IdKey : QuizTask(w, k) \/ \E kind \in Kind : ReceiveCode(w, k, kind)
        \/ LookUp(w) \/ InsertTask(w) \/ Answered(w)
  \/ \E k \in IdKey : QueueMoves(k)
  \/ TestsChange \/ RunnerChange \/ PaperEnds

SubmissionsSpec == SubmissionsInit /\ [][SubmissionsNext]_subVars

-----------------------------------------------------------------------------
(* Properties *)

\* An answer speaks of a task that executes what this request sent, never of
\* another one that was sent under the same key, before or at the same time; and
\* that task is the one the table has for the key.
AnswersMatch ==
  \A w \in Sender : sender[w].at = "answered" /\ sender[w].code = "accepted"
    => LET r == sender[w] IN
       r.told = r.digest /\ tasks[r.key] # NoTask /\ tasks[r.key].digest = r.digest

\* A request whose task exists is told so: neither the limits, which this very
\* task may have reached, nor a runner that has gone offline refuse it.
RepeatsRecognised ==
  \A w \in Sender :
    sender[w].at = "answered" /\ sender[w].was # NoTask
      => sender[w].code \notin {"running_limit_reached", "queue_limit_reached",
                                "runner_unavailable"}

\* What is known of a request on its way, which makes the two inductive: the
\* task it found when it came in is still there, and if it is about to insert
\* one it found none.
OnTheWay == [at : {"received", "inserting"}, key : IdKey,
             was : Task \union {NoTask}, digest : Digest]

Answers == [at : {"answered"}, key : IdKey, was : Task \union {NoTask},
            digest : [kind : Kind, tests : Version \union {"none", "broken"}],
            code : {"accepted", "invalid_test_snapshot", "idempotency_conflict",
                    "runner_unavailable", "attempt_not_active",
                    "running_limit_reached", "queue_limit_reached"},
            told : Digest \union {NoTask}]

RequestsKnown ==
  /\ tasks \in [IdKey -> Task \union {NoTask}]
  /\ tests \in Version \union {"broken"}
  /\ sender \in [Sender -> {Resting} \union OnTheWay \union Answers]
  /\ \A w \in Sender :
       LET r == sender[w] IN
       /\ r.at \in {"received", "inserting"} /\ r.was # NoTask => tasks[r.key] # NoTask
       /\ r.at = "inserting" => r.was = NoTask

SubmissionsInv == RequestsKnown /\ AnswersMatch /\ RepeatsRecognised

=============================================================================
