# A verification project for the school programming platform

The platform is a Django web application (`src/backend`) in which teachers publish
quizzes and students answer them, and in which student programs are executed by a
separate process, the Local Runner (`src/runner`), that fetches work from the web
application over signed HTTP. This directory holds TLA+ models of the parts where
several actors meet (students, teachers, runners, the clock, retries and crashes),
the TLC configurations that check them, and theorems proved with TLAPS.

## 1. Inventory

| Component | State it keeps | Operations | How it interacts |
|---|---|---|---|
| Execution queue (`backend/execution/{queue,services,models}.py`) | `ExecutionTask`, `RunnerNode`, the `Submission` of a grading | enqueue (run, grade, quiz run, quiz grade), claim, heartbeat, complete, node heartbeat, recovery | called by student views, by the internal API, by the AI quizzes; calls the settlement hook after a commit |
| Internal API (`views_internal.py`, `internal_auth.py`) | `RunnerRequestReceipt` | check of signature and timestamp, one transaction per request with its receipt, replay | between runner and queue |
| Runner (`runner/controller.py`, `api_client.py`, `local_executor.py`) | threads, `_active_tasks`, child processes | claim loop, execution, lease heartbeats, node heartbeats, stop | HTTP requests with retries; killed and restarted at any time |
| Grader (`runner/grader.py`, `results.py`, `local_executor.py`) | the budgets and results of the task in hand, a child process with its pipes | run, grade case by case, end a process tree, shut down | called by a worker thread; its result has to pass the rules of `complete_task` |
| Information technology quizzes (`backend/info_tech`) | `QuizSession`, `QuizSubmission` | start, save, submit, expiry; open, close, edit, delete, archive, reset | students and several teachers at once |
| AI quizzes: attempts and settlement (`ai_courses/quizzes/{attempt,execution,settlement}_services.py`) | `AIQuizAttempt`, `Submission` | start, save, grade, submit with browser scores, timeout, settlement, reset, regrade | the queue, hooks after commits, the settle command |
| AI quizzes: publishing (`quizzes/services.py`, `snapshot.py`) | `AIQuizSession`, audience, audit | draft, publish, close, reopen, copy, archive, delete, audience, all with `management_version` | freezes problems and questions into a blueprint |
| Question bank (`ai_courses/question_bank`) | `AIUnit` in two levels, `AIChoiceQuestion` with versions | create, move, archive, restore, delete units; create, copy, import, edit, delete questions | feeds the blueprints |
| Problems (`ai_courses/problems`, `models.py`) | `Problem`, its `ProblemAudience` rules, the directories on the disk | edit, publish by grade and class, archive, restore, sync from disk | feeds the blueprints and practice |
| Users (`backend/users`) | `CustomUser` with a readable password, tokens, `PasswordSecurityAudit` | register, login, logout, profile edits, delete, reset and reveal a password, rotate keys | permissions of all the others; the identity in information technology results |
| Chat, platform operations, settings, front end, scripts | little of their own | | see section 9 |

What makes this system hard:

* **Concurrency.** Web workers are processes; the only mutual exclusion is row locks
  of MySQL under READ COMMITTED (`school_platform/database.py:106`). A claim locks a
  node, a task and a user, one after the other. Teacher views of the information
  technology quizzes read a session without a lock and use it later. So do profile edits,
  the sync of problems and the checks of the parent of a unit. Question bank, problems and
  AI quizzes compare a `management_version` instead.
* **Failure.** Requests are lost, late or repeated; runners die with leases in hand;
  a web process dies between a commit and the hook it registered for it.
* **Time.** Queue TTL, leases, node freshness, deadlines with grace, the age of a
  signature and the life of a receipt all race with the operations they limit.
* **Order.** Grading results arrive before, during and after a settlement; an online
  heartbeat may be served after the draining one.

What makes each part correct is listed with its module in section 3; the places in
the code where it could go wrong are the `hazards` of `PROJECT.json`.

## 2. Modules

```
TaskLifecycle          what a task promises (abstract)
   ^ refines
ExecutionQueue  <----- ExecutionQueueProofs (theorems)
   ^ EXTENDS                ^
RunnerProtocol  <----- RunnerProtocolProofs
                       the queue with runners, threads and messages
RequestReceipts        one level down: how a message takes effect at most once
Submissions            one level up: how repeated and overlapping code becomes one task
Grader                 one task from its test cases to the stored or refused result
InfoQuiz               information technology quizzes
QuizSettlement         AI quizzes, with the queue reduced to grades that finish
QuizPublishing         AI quizzes as teachers draft, publish and manage them
QuestionBank           units and choice questions
Problems               programming problems and their publication
Accounts               students, tokens, passwords
Staff                  teachers, administrators, grades (constants of the last four)
MC*                    sets, symmetry and functions for TLC
WebRequestProofs       theorems about RequestReceipts, Submissions and Grader
CurriculumProofs       theorems about Problems and QuestionBank
InfoQuizProofs, QuizSettlementProofs, QuizPublishingProofs, AccountsProofs
                       theorems about the module each is named after
```

An invariant called `...Inv` (`QInv`, `ProtocolInv`, `ReceiptsInv`, `AttemptsInv`, `BankInv`,
`ProblemsInv`, `PublishingInv`, `AccountsInv`, `GraderInv`) is the conjunction of a module's
type invariant with the structural facts the other properties rest on; `LoadBounded` and
`PasswordsInv` join the limits of one thing. The runs check it as one property, the modules
define its parts by name. All of them are proved for every value of the constants (section 7).

Operators marked "Faulty:" stand before a definition and are a plausible mistake in
it. They are used by no specification; substituted for the definition they make TLC
find the property violated that is meant to catch the mistake (`mutants` of
`PROJECT.json`).

## 3. How the modules correspond to the code

### ExecutionQueue

One `Row` per `ExecutionTask`, with the status of its `Submission` (`sub`); one
`Node` per `RunnerNode`. A task id is its position in creation order, the order in
which `_lock_next_task` picks. A token numbers the random lease tokens of a task.

| Action | Code |
|---|---|
| `Enqueue` | `services.py` `enqueue_run`, `enqueue_grade`, `enqueue_quiz_*` with `_ensure_runner_available` and `_lock_user_and_check_capacity` |
| `ClaimNothing`, `ClaimSelect` | `claim_task` up to the lock of the picked task, with the recovery pass it starts with |
| `ClaimLease`, `ClaimRaced`, `ClaimAbort` | the rest of `claim_task`: the second look at the user, the lease; the loser's "no task"; the roll back |
| `HeartbeatTask`, `CompleteTask`, `NodeHeartbeat` | `heartbeat_task`, `complete_task`, `update_runner_node` |
| `Recover` | `recover_expired_tasks`, run by the management command |
| `Tick` | time |

Every operation is one transaction and one action. The claim is two, since its row
locks and its uncommitted recovery are what the other transactions meet:
`Locked` makes a `SELECT ... FOR UPDATE` wait and `SKIP LOCKED` pass over a row, and
`ClaimView` is what the transaction itself sees. `RunningLimit` is any positive number, as
in the settings (1 to 20); `RequireHealthyRunner` is `EXECUTION_REQUIRE_HEALTHY_RUNNER`,
without which a task is accepted when no runner is there.

Properties: a user never has two running tasks (`OneRunningPerUser`), a runner never
more leases than slots (`WithinCapacity`), an open claim keeps the slot it counted on
(`ClaimsFit`), a user has fewer unfinished tasks than may wait and run together, with the
default of one running task no more than may wait (`BacklogBounded`; the three are `LoadBounded`), an attempt limit that is neither missed nor exceeded
(`AttemptsBounded`), locked rows that stay what they were (`ClaimsHoldTheirRows`),
submissions that agree with tasks (`SubmissionMirrorsTask`), final results that stay
(`ResultsStick`), an end for every task (`EveryTaskFinishes`).

### TaskLifecycle

A task waits, is executed at most `MaxAttempts` times, and ends in an outcome that
needs an execution, or cancelled, or lost when its attempts are used up. The queue
implements it (`RefinesLifecycle`) under the mapping that reads `phase` and `tries`
off the rows; a system error without a holder of its lease is the one recovery wrote
("lost"), the other one a runner reported.

### RunnerProtocol

Extends the queue with the runner's processes, its worker threads, `_active_tasks`
and the requests in flight (`mail`). A request is served at any later time, also
after its sender gave up on it, and may be lost ("loss" in `Faults`); answers may be
lost as well. The open claim of the queue is the web process that serves it
(`serving` says for whom). `StartRunner`, `RequestStop`, `GraceOver`, `StopRunner` are
`RunnerController.run`; `Crash` is the death of the process; `StartClaim`,
`ClaimGivesUp`, `FinishExecution`, `ReportGivesUp` are `_worker_loop` and
`process_task`; `SendTaskBeat` and `RefuseLease` the lease thread and the cancel event
it sets; `Serve*`, `Grant*`, `RenewLease`, `StoreResult`, `ConfirmResult` the views of
`views_internal.py` and the arrival of their answers. `Verdicts` is what
`LocalProcessExecutor.execute` can return, given what cut the execution short.

Properties: a lease belongs to one thread (`OneThreadPerLease`), a report never meets
another execution's result under its own lease (`ReportsAgree`), and, with every
fault, `EveryTaskFinishes` again.

### RequestReceipts

A call (`_post` of `api_client.py`) is repeated under one id and signed again each
time; every signed copy lives as long as `authenticate_runner_request` accepts its
timestamp. `InsertReceipt`, `CommitEffect`, `RollBack` and `ReplayAnswer` are
`_execute_once`; `PruneReceipts` is the first statement of `recover_expired_tasks`.
The operation itself is a counter of effects. Properties: `AtMostOnce`,
`ToldTheTruth`, `ReceiptOutlivesCopies`. `ReceiptAssumption` relates the life of a
receipt to retries, skew and service time. The settings do not enforce it: a TTL of
300 seconds and a skew of 300 are both accepted. The defaults (86400 and 60) satisfy it.

### InfoQuiz

One session, its attempts by student (`Examinee`), and for each teacher (`Examiner`) the
request being served (`request`): `ReadSession` is `_teacher_session`, without a lock; the action that follows
uses what was seen then. `SettledByDraft` and `SettledBySubmit` are `_settle_locked`.
`told` records whether the last refused save said a result is available. Answers are
known by the revision that wrote them, so that "scored on the last accepted answers"
(`ScoredOnLastAnswers`) is `graded = rev`. Properties, with requests of several teachers that
overlap: a student works on one attempt, the newest (`AttemptsInv`), and what is settled stays
so (`SettledStick`). That a closed quiz has no attempt running (`ClosedMeansSettled`) is what
such requests break (section 6).

### QuizSettlement

One published quiz with one programming item. Student operations lock user, session
and attempt and are one action each; `finalize_attempt` runs after their commit and is
its own action (`FinalizeAttempt`), called again by the settle command, the result page
and the overview. `GradeFinished` is the queue's result or its recovery.
`CloseQuiz` registers a hook; `ListClosed` is the first query of
`settle_session_attempts`, `SettleClosed` one of its transactions, `HookLost` the death
of the process or the swallowed exception. A late browser score (`LateScoreAccepted`)
reopens a settlement. Properties: a settled attempt counts everything
(`GradedOnEverything`), every revision of a result has a reason (`ResultsExplained`: the first
settlement, one browser score after it, and beyond two results a grade task of the runner
for each of them), a
locked paper stays locked (`LockedPaper`), what is in progress is current and what has
ended did so for the reason it was locked for (`InProgressIsCurrent` and `ReasonKnown` of
`AttemptsInv`, checked with one attempt and its gradings in `QuizSettlement_grading`, with
a second attempt in `WebRequests`), settlements end (`SettlingEnds`, `OverdueEnds`, `CloseSettles`).

### Submissions

One student and the `Idempotency-Key` headers of his requests. `ReceiveCode` is the
practice view, which reads the tests of the problem for the digest; `LookUp` the query of
`_existing_task` with `_ensure_runner_available`; `InsertTask` the rest, from the lock of
the user to the commit, where the unique constraint may find a task. In an AI quiz the
locks of user, quiz and attempt come first, so `QuizTask` is one action. `TestsChange`,
`RunnerChange`, `PaperEnds` and `QueueMoves` are what others do meanwhile. Properties: an
accepted request is answered with a task that executes what it sent (`AnswersMatch`), a
repetition of an existing task is never told "limit reached" or "no runner"
(`RepeatsRecognised`, promised in
`docs/dev/2026-09-15-cross-platform-local-runner-dev.md:350`).

### Grader

`evaluation` holds the local variables of `_grade`, `program` the child process of `execute`.
`StartProgram` is the head of a case with `_limits`; `ProgramWrites`, `ProgramEnds` and
`ProgramTakesTime` are the program; `SetCancel` and `TerminateAll` the lease thread and the
shutdown. `ProcessStatus` is the poll loop, which looks at the process before the cancel event,
the limits and the deadline. `EndCase`, `FailGrade`, `OutOfBudget`, `SendScore` are `_grade`,
`EndRun` is `_run`, `EvaluationFails` the exception `process_task` catches, `CompleteResult` is
`_validate_result` with `_sanitize_grade_result`. Output is counted in bytes three times, as
the code does: as the program wrote it, as text, where decoding may make it longer and a
line end shorter (`Texts`), and as JSON. `causes` is a history variable. Properties: the
verdict, however a task was cut short, agrees with its cases (`VerdictExplained`), and the
web process refuses no result but for a text with a NUL, which `CompletionSerializer` does not
take (`SerializerAccepts`), for a text that grew, or for the time of a case that was given more
than was left (`RefusedForCause`). `LimitsAgree` says what this needs of the
settings. They are separate in the two programs: the 131072 of a task's `output_bytes` is
fixed (`services.py:56`), so a smaller `EXECUTION_MAX_OUTPUT_BYTES`, which is allowed, breaks
it, and so does a process tree that takes more than five seconds to end (up to about six and
a half on Windows, with the joins of the pipe threads).

### QuestionBank

The rows of `AIUnit` and `AIChoiceQuestion`, ids that are not used twice, the page each
teacher has open (the versions she sends are the page's), and the transaction she has
under way. A service that reads only rows it locks is one action. One that reads a row
without a lock (the parent of a unit, the section of a question) is two: the checks, which
take the row locks (`UnitLocks`, `QuestionLocks`: `select_related` locks the joined rows as
well) and prepare the rows, and `SaveUnit` or `SaveQuestions`, which wait for the shared
lock of the foreign key and fail on a parent that is gone. `Abort` is a lock wait that times
out or a deadlock that MySQL breaks. Properties: units form a forest in which sections have
the grade of their unit (`UnitsFormForest`), no question loses its section
(`QuestionsHaveUnits`), a version tells the content (`VersionTells`) and nobody replaces
what her page did not show her (`NothingUnseenIsReplaced`).

### Problems

The rows of `Problem` and `ProblemAudience`. The services lock the row and compare the
version; `ApplyGradeScope` is `_apply_grade_scope` with its deletions and upserts, `Sees` the
filter of student lists, `PublicationData` what managers are shown. `SyncRead` and
`SyncSave` are `sync_from_disk` for one problem: a read without a lock and a save with the
version read plus one; anything may happen between the two, as under the READ COMMITTED of
`database.py:106`. The history variables `writes` and `overtaken` count the writes to a problem
and name the problems a sync saved over a change it had not read. Properties: what managers are
shown of a publication is what students see (`PublicationShown`); only a decision by somebody
responsible for the grade, taken on the current version, makes a class see a problem, and no
sync that saves an old row does (`RevealedByItsManagers`); a version number tells what was
written last (`VersionTellsUnlessOvertaken`) and the tag of a problem agrees with its section
(`TagFollowsUnlessOvertaken`, in `ProblemsInv`) until a sync is overtaken. Without that
condition both are false: `VersionTellsProblem` is the run `Problems_sync`,
`TagFollowsSection` is in section 6.

### QuizPublishing

The rows of `AIQuizSession` with items and rules, and the papers drawn from them. A
service locks the session and is one action, except the check and the publication of a
draft: `StartBuild` locks the sections and counts the questions, `FinishBuild` locks the
problems, reads the questions and saves; in between the question bank changes where the
locks let it (`ChangeBankQuestion`, `TurnBankSection`, `ChangeBankProblem` stand for
`QuestionBank` and `Problems`). `SectionsLocked` is why the count still holds at the end.
Properties: `VersionTellsQuiz`, `OnlyViewedIsChanged`; a published quiz can always draw a
complete paper (`PaperDrawable`); all papers of a quiz come from one blueprint, also after it
was closed and reopened (`PapersAgree`); every rule of an audience was chosen by somebody
who may choose it (`RulesByManagers`). `ArchiveSomeQuiz` and the `ArchiveQuestion` of the
bank are services no view calls any more; rows they archived exist.

### Accounts

Requests are served by workers at the same time, and outside `transaction.atomic` every
statement commits: `Put` reads a student, `SaveStudent` writes all his fields,
`RenameSubmissions` updates the identity in his results; `Login`, `ReadToken`,
`IssueToken` are `LoginView` and `get_or_create_valid_token`. Operations under row locks are
one action, or two with the lock held in between (`CountReveals` to `Reveal`; `LockRows` to
`RotateKeys`). A student created or reset by a web process that was started before the
keys changed is encrypted under an older key. The audit rows of a teacher's attempts to read
passwords are a set of records with a number, what came of the attempt and its age. Properties: a password shown is one
that lets the student in (`RecoverableIsTrue`), the limit of passwords shown holds for
overlapping requests (`RevealsBounded`), a seat has one student (`OneSeatOneStudent`), the
identity in results is one the student has had (`SnapshotsHeld`), and nothing but a logout
ends a session that is not over (`FreshTokenStays`).

## 4. Runs

| Run | What it asks | Bounds |
|---|---|---|
| `ExecutionQueue_claims` | do the limits hold, does a submission agree with its task and is `TaskLifecycle` implemented when two runners, recovery and late requests overlap? | 3 tasks (enough for one user's running and waiting task next to another user's), 2 users, 2 runners of one slot, both kinds, two result statuses |
| `RunnerProtocol_takeover` | can two threads hold one lease, or a report meet another's result? | 1 task, 2 runners of one thread, loss and crashes |
| `RunnerProtocol_progress` | does the task end whatever is lost, killed or stopped? | 1 task, 1 runner of one thread, every fault |
| `WebRequests` | does a signed request take effect at most once; do overlapping requests about accounts keep passwords, seats and sessions; does a key name one task; does a verdict agree with its cases, and is it stored; are attempts of a closed and reopened AI quiz settled when no hook is lost? | five parts that share no state (`MCWebRequests`): a completion with one repetition and a claim, with a receipt that lives exactly as long as it has to; 3 requests by 2 workers on 2 students, 2 seats, 2 passwords, 2 keys (at first an account without a recoverable password or with an old session is the only one); 2 requests with 2 keys; 2 test cases, 2 bytes of output, 3 ticks for the task; `QuizSettlement` with 2 attempts without a time limit, 3 management operations |
| `Grader_output` | is every output within the limits a program is held to stored? **No** | 2 cases; a text may be a byte longer than its bytes |
| `Quizzes` | are attempts settled once and on the right answers? Is an AI quiz published as reviewed, and every paper complete and drawn from one blueprint? | two parts that share no state (`MCQuizzes`): 1 student with 2 attempts, 2 teachers whose requests overlap, every operation; a teacher and an administrator, a quiz and its copy, 4 writes, 2 questions of which one changes once, 2 students |
| `InfoQuiz_overlap` | does closing leave no attempt running, as documented? **No** | 1 student, 2 teachers who open, close and edit |
| `InfoQuiz_refusal` | does a late save settle the attempt, as documented? **No** | 1 student, 1 teacher |
| `QuizSettlement_grading` | is everything counted, is a locked paper locked, and do settlements end? | 1 attempt, 3 submissions, 2 scores, 3 management operations, lost hooks |
| `QuizSettlement_hook` | are attempts of a closed quiz settled if a hook may be lost? **No** | as the last part of `WebRequests`, with the loss |
| `Curriculum` | do units stay a forest, is nothing unseen overwritten, is a publication what it says? | `QuestionBank` and `Problems` side by side (`MCCurriculum`): a teacher and an administrator, 3 units, 1 question of 2 versions; 1 problem written 3 times, 2 grades, 2 classes, one sync between its read and its save |
| `Problems_sync` | does a version tell what was written, as documented, while problems are synced? **No** | the second part of `Curriculum` |

`MaxAttempts` is 2, as in the settings, so a task is leased, lost, requeued, leased
again and lost for good in every queue run. Spans of one or two ticks let every
deadline pass before, between and after the steps of every operation; a longer span
adds idle ticks only, since every guard compares with zero. One task suffices where
several threads compete for it; three where several claims compete for users. Users and
runners are compared for equality only and are symmetric in the safety runs; liveness
is checked without symmetry, or (`CloseSettles` in `WebRequests`) in a part whose
state holds nothing that is exchanged. Two units of work are enough where a property speaks of a
race, three where a third undoes what two did: three accounts requests (`MaxRequests`)
are a reset, an edit that read before it and a rotation. Two test cases
are a case and one that finds less time and output than the first; the spans of `Grader` let a
case end before, at and after each limit. Two teachers, one of each kind, are
every pair of rights. `MaxRows`, `MaxVersion`, `MaxProblemWrites`, `MaxWrites`,
`MaxBankChanges`, `MaxSends` bound rows and histories, not what happens at the same time.
A question or problem with two versions after the first has all orders of two
changes. `StaleAfter` 0 makes a node stale one tick after its heartbeat.
One sync between read and save at a time (`MaxSyncs`) is enough for a save that was overtaken,
since any other write does it; the theorems allow any number. `RequireHealthyRunner` is TRUE in
`RunnerProtocol_takeover` and FALSE elsewhere, which admits every behaviour of TRUE.
Every run checks for deadlock.

## 5. Fairness

* `ExecutionQueue`: time passes; a claim transaction ends in some way (a worker's
  request ends, or its connection is dropped and rolled back); the recovery pass runs
  again and again and is granted its row locks in turn (strong fairness: it is enabled
  whenever no claim holds an expired row). Recovery is part of every claim and a
  command of its own; a deployment whose runners are all gone depends on the command
  (`docs/deployment/local-runner-classroom.md:131`). A runner that keeps its lease alive
  reports in the end, since each execution has a wall clock limit. No claim and no
  enqueue is promised.
* `RunnerProtocol`: instead of reports that arrive, only that executions end and that
  threads give up on an unanswered report. Delivery of any message, a live runner, or
  its restart are not assumed.
* `QuizSettlement`: the queue finishes the grades it accepted (the property checked of
  the queue and its runners in `RunnerProtocol_progress`), `settle_ai_quiz_attempts` runs again and again
  (`docs/dev/2026-09-11-ai-mixed-question-bank-quiz-dev.md:458`), hooks run or are lost.
  Nothing makes students or teachers act. The settle command and the recovery command
  are run by operators; the liveness results hold for a deployment that runs them.

## 6. Where code and documents disagree

Five runs are expected to fail and show a behaviour of the code that a sentence of
the repository excludes; `findings` in `PROJECT.json` quotes it.

1. `InfoQuiz_refusal`: a save past the grace settles the attempt and then raises in the
   same `atomic` block; the settlement is rolled back although the answer says that a
   result is available (`quiz_services.py:252-258`).
2. `QuizSettlement_hook`: a closed quiz without a time limit whose hook was lost keeps
   its attempts in progress for ever: the settle command looks at deadlines only.
3. `InfoQuiz_overlap`: an edit saves every column of the row its view read, the status
   included (`info_tech/views.py:397`). It closes the quiz another teacher has opened again
   meanwhile, and the attempt of a student who has started stays in progress in a closed quiz.
4. `Problems_sync`: `sync_from_disk` writes the version it read plus one without a lock
   (`models.py:808`); a change in between gets the same number, and a teacher whose page shows
   the one overwrites the other without being told, which the message at
   `problems/management.py:111` promises to prevent.
5. `Grader_output`: a program that prints a NUL has its result refused with 400:
   `CompletionSerializer` does not accept the character in `stdout` and `stderr`
   (`serializers_internal.py:16`), and the executor passes it on. This is the trace of the run.
   With `nul` left FALSE in `EndRun` TLC finds another: a program whose output is cut at the limit, inside a character, or that
   writes invalid bytes, makes a text longer than the limit once it is decoded. The web
   process refuses it with 413. Either way the worker forgets the task, which is executed
   again and ends as a system error instead of its own result, `resource_limited` for the
   longer text. `while True: print("你好")` does it.

TLC refutes further statements that the modules define and no run lists. Each is found
within seconds by a configuration like the one named, with the change given.

* `CancelledMeansNotExecuted` (`ExecutionQueue_claims.cfg`, that invariant added): a task
  that ran, lost its lease, was requeued and then expired is reported as "code not
  executed" (`queue.py:74`).
* `TwoLevels` (`Curriculum.cfg`): one teacher files a section into a big unit while
  the unit is being made a section itself; each check (`models.py:103`) read the other's
  old row.
* `TagFollowsSection` (`Problems_sync.cfg` with this invariant instead): a sync that read a
  problem without a section writes the grade of its directory over the tag of the section an
  edit has put it in meanwhile.
* `CaseHeldToItsLimit` (`Grader_output.cfg`): a case that starts with less than 0.05 s left of
  the task is given 10 s (`local_executor.py:252`), although
  `docs/dev/2026-09-15-cross-platform-local-runner-dev.md:180` holds it to its own limit and
  the task's.
* `AttemptsPreserved` (`InfoQuiz_refusal.cfg`, operations open and delete): a student
  starts between the look for attempts and the delete, which cascades to the attempt.
* `ArchivedMeansSettled`, `ResetOnlyWhileOpen` (`InfoQuiz_overlap.cfg`, every operation): a
  delete that read the draft archives the quiz opened meanwhile without settling it; a reset
  that read the open quiz resets after the closure.
* `SlotFreedByConfirmation` (`RunnerProtocol_takeover.cfg` without symmetry, every fault): a report
  that fails for good frees the slot.
* `StoppedNodeIsDraining` (the same): an online heartbeat is served after the draining
  one, or that one is lost.
* `OutcomeIsTheProgramsOwn` (the same): the kill at the end of the grace period is
  reported as a runtime error of the program.
* `ExecutionsAreActive` (`RunnerProtocol_takeover.cfg`, both workers of `r1`, capacity 2):
  a task claimed twice by one process has one entry in `_active_tasks`.

Read off the code while modelling, with no property of their own:

* Accounts. A profile edit that read the row before a reset writes the old password back
  (`users/views.py:204-224`), and `save()` inserts a student again who was deleted
  meanwhile; a login checked before a reset creates its token after it, although
  `docs/prd/2026-09-01-account-student-data-security-prd.md:238` excludes a new password
  next to an old token; an edit that overlaps a rotation restores the old key id with its
  ciphertext; of two overlapping edits the identity in results may be the one that
  lost; a second first login at the same moment is a 500 (`authentication.py:24`).
  `SnapshotsHeld` and `RecoverableIsTrue` are what remains true.
* Publishing. The tests and the template of a problem are read from the disk at
  publication (`quizzes/services.py:491,505`) and may be of another version than its text;
  deletion of a quiz and publishing lock rows in another order than the queue and the
  edit of a problem; an audience may be emptied while the quiz is open; a copy with a
  blank title (`:673`) is a draft whose publication fails with an uncaught error.
* Question bank. The name of a big unit is not unique: the constraint has a NULL column.
  The archive services of questions and quizzes have no view.
* Enqueue. Two overlapping requests with one key: the second may be told that a limit
  is reached. A grading repeated after the tests changed is a conflict, a quiz submission
  repeated after the paper ended is refused.

Hazards that no property covers, besides the ones above: while an attempt of an AI quiz is
being settled, a browser score is accepted whatever the time and takes the place of a
regrade under way, so that an attempt may have more results than failed gradings
(`settlement_services.py:241`);
an open quiz without a time limit that is archived leaves its attempts in progress for ever
(`quizzes/services.py:712`); a quiz closed and reopened before its hook lists attempts
may settle one that started afterwards (`:627`); the best score of the list counts reset
and superseded attempts (`attempt_services.py:385`); a claim refused for its node rolls back
the recovery pass of its transaction (`queue.py:137`, made up for by the next pass, hence
`EveryTaskFinishes`).

## 7. Theorems

Everything here holds for every value of the constants that satisfies the named
assumptions of the modules: any number of users, tasks, runners, requests, teachers and
any limits. The proofs are laid out alike. A lemma says what each kind of row or message is
(`RowFields`, `ThreadFacts`, `RequestFacts`); one relation or operator says what a step may
do to one row (`RowStep`); each action is shown to move every row that way; and the
invariant is shown to be kept by any step that does so. TLC checked every inductive
invariant on the runs before it was proved.

### The queue (`ExecutionQueueProofs`)

* `TypeCorrect`: `Spec => []TypeOK`. `TypeOK` is inductive as it stands, given the lemmas
  that every operator which rewrites a row (`RecoveredRow`, `QueuedRow`, `LeasedRow`,
  `CompletedRow`) yields a row.
* `OneRunning`: `Spec => []OneRunningPerUser`. The property is inductive together with
  `TypeOK`: every action but `ClaimLease` starts nothing (`NothingStarted`,
  `RecoveredRunsNothing`), and `ClaimLease` starts a task only when the view of its
  transaction shows nothing running for the user. The view is the committed table with
  this transaction's recovery applied; recovery keeps users and starts nothing, so what
  does not run in the view and is not the picked task does not run afterwards. This is
  why the second look under the lock of the user row is needed and enough, whatever
  `_lock_next_task` read before. The proof does not use that the rows are locked: the
  property does not depend on the locks of other rows.

What a step does to a single row is one of seven things (`RowStep`: nothing, accept, recover,
start, renew, complete, wait). `StepRows` shows that every step of the queue moves every row by
`RowStep`; for the commit of a claim this is true only if the rows the claim read are still
as it read them, because `ClaimLease` writes them from what it saw when it locked them. So
the inductive invariant is

    QInv == TypeOK /\ RowsHold /\ ClaimsHoldTheirRows

where `RowsHold` says of each row which deadlines are in use and that its attempts are
within the limit (a waiting task has one left). `ClaimsHoldTheirRows` is preserved because
whoever writes a row first gets its lock: `KeepClaims` covers the steps that write only
unlocked rows or the rows of a claim that ends, `SelectClaims` the step that opens a claim,
`TickClaims` time (an expired row stays expired). From `QInvHolds`:

* `ClaimsHold`, `AttemptsLimited`: `Spec => []ClaimsHoldTheirRows`, `Spec => []AttemptsBounded`.
* `FinalRowsStick`: `Spec => ResultsStick`, from `RowStepFinal`: of the seven kinds of row
  step only waiting applies to a final row, and its deadlines are 0 already.
* `SubmissionsAgree`: `Spec => []SubmissionMirrorsTask`, from `RowStepMirror`.
* `QueueRefinesLifecycle`: `Spec => RefinesLifecycle`. Every `RowStep` is a step of
  `TaskLifecycle` for that task (`RowStepLifecycle`), and all tasks step at once. The
  mapping reads a `system_error` without a lease holder as "lost", which is why a completed
  row keeps `leased_by` in the model as it does in the code.
* `LoadStaysBounded`: `Spec => []LoadBounded`. `WithinCapacity` alone is not inductive: the
  lease is written by another step than the count of free slots. The strengthening is
  `ClaimsFit`: the slot an open claim counted on is still free, since one claim at a time
  holds the node row and every other operation only gives leases back. `LoadInv` adds that
  the accepted tasks are finite in number, without which the limits count nothing. The
  backlog, waiting and running tasks together, grows by an enqueue only, and that counted
  less of each than its limit allows; a task that loses its lease goes back to the waiting
  ones and leaves the sum as it is. So the sum of the limits bounds it, whatever they are.

### The runner protocol (`RunnerProtocolProofs`)

`ProtocolInvHolds`, `LateReportsAgree`, `ProtocolRefinesLifecycle`, `OneRunningUnderRunners`.
A step of the protocol moves the queue's variables by a step of the queue or by a heartbeat or
completion with any result, also one outside `Reported` (`ProtocolQueueStep`, `LeaseHolderStep`),
so `QInv`, the refinement and `OneRunningPerUser` carry over. Of the runners `ProtocolInv`
says that a thread waiting for a claim is answered once at most (`ClaimsAwaited`), that the lease a
thread or a report names was given out (`LeasesKnown`), that one thread works on it
(`OneThreadPerLease`), and that it is reported on once, with no result of it stored before
(`OneReportPerLease`). It is inductive together with `QInv` and `ReportsAgree` (`PInv`): a
lease is named by its task and its token, tokens are drawn in sequence, and a step that
stores no result leaves a row running or with the outcome it had (`Unreported`).
`WorkerAssumption`: a thread belongs to one runner.

### Requests (`WebRequestProofs`)

* `AnswersAreTrue`, `RepeatsAreRecognised` (`Submissions`), from `SubmissionsInv`: tasks are
  never deleted or rewritten (`TasksStay`), and a request that found a task never comes to the
  insert. `NoTaskAssumption`: the mark for "no task" is not a task.
* `ReceiptsInvHolds`, `EffectsAtMostOnce`, `SuccessIsTrue` (`RequestReceipts`). A count of
  effects is bounded because of time alone: as long as a copy of a request is under way, can
  still be signed, or is in service, the receipt is younger than its life by more than what
  is left of that copy (`CopiesInTime`). This is where `ReceiptAssumption` is used; without it
  TLC finds two effects. The clause for copies under way counts the time to serve them too.

### Grading (`WebRequestProofs`)

`GraderInvHolds` and `RefusalsHaveCauses`, for any number of cases. No status is milder than that of
a case, full marks mean that every case passed (`VerdictExplained`, from `CasesExplained` while the
cases run), and as long as no text grew or holds a NUL and no case had more time than was left,
the serializer takes every text, and output and time are within their budgets at every step
(`WithinBudget`). That the web process accepts such
a result needs `LimitsAgree`, which the settings as delivered satisfy and nothing enforces.

### Information technology quizzes (`InfoQuizProofs`)

* `OneAttemptAtATime`, `ScoresAreCurrent`, `SettledAttemptsStick`: `AttemptsInv`,
  `ScoredOnLastAnswers` and `SettledStick`. Every operation is a `RowStep` for every row of
  every student, or the start of one new row with all others set aside (`Restarted`). No lock
  is used but that of the student's row: the unlocked session reads do not matter to these.

### AI quizzes (`QuizSettlementProofs`)

* `OneCurrentAttempt`: `Spec => []AttemptsInv`, with `InProgressIsCurrent`.
* `ResultsAreComplete`: `Spec => []GradedOnEverything`, whatever the order in which
  grades, browser scores, regrades, hooks and the settle command come.
* `ResultsHaveCauses`: `Spec => []ResultsExplained`.
* `PapersStayLocked`: `Spec => LockedPaper`.

The three invariants are inductive together (`SettlementInv`); `RowInv` is what they say of a
row and `RowStep` what an operation may do to it. An earlier `ResultsExplained` bounded the results by the
failed gradings. The proof did not go through, and TLC showed why with seven submissions:
a browser score that comes while a regrade runs ends the settlement in its place, so the
grade that answers the regrade need not have failed. The statement is now about grade tasks.

### Quizzes as teachers manage them (`QuizPublishingProofs`)

`QuizzesHoldTogether` (`PublishingInv`), `PapersCanBeDrawn` (`PaperDrawable`),
`PapersAlwaysAgree` (`PapersAgree`) and `QuizzesAreSeen` (`OnlyViewedIsChanged`), for any
teachers, configurations and questions. The invariant is `PublishingIInv`:

* `BuildHolds`: between the two steps of a publication the draft is as its teacher's page
  shows it, its sections are locked and open, and hold the questions that were counted.
  The bank keeps this (`BankInductive`): a question leaves or enters a section only
  while nobody has that locked, so the pool of locked sections is the same before and after
  (`SamePool`). Problems are not locked until the second step, which checks them again.
* `EnoughToDraw`: if each difficulty has as many questions as the ratio asks for, there is
  a draw: a finite set has subsets of every smaller size (`SubsetOfSize`), and the
  difficulties do not overlap. `BuiltComplete` adds that it is not empty, which the
  checks of the configuration see to.
* `InOrder` and `Fit`: a quiz that is no draft has the blueprint of its configuration, and
  its papers come from it. A draft has no papers, so its configuration may change.
* `ViewsPast`: a page shows a quiz as it is or an older version, as in the question bank.

Assumed of the constants: the questions are finite in number, and `None` is neither a quiz nor
a configuration.

### Users, classes and sessions (`AccountsProofs`)

`AccountsHoldTogether`, `PasswordsAreTrue`, `FreshTokensStay`, from the invariant
`AccountsIInv` (`AccountsIInvHolds`) with a part for each concern:

* `RowsInv`: a stored password is readable exactly when it says so, and is then the one of the
  hash; so is the row a profile edit is about to write back. This is why the edit that
  overwrites a reset restores both, password and cipher text, or neither.
* `RotationsInv`: the rows a rotation locked are still as it read them, and two rotations
  share none. Without it a rotation would write the cipher text of an older password.
* `RevealsInv`: of one teacher's requests one at a time goes past the count, since it keeps
  the teacher's row locked until its audit row is written, and then there is room.
* `KeysInv`: no two tokens come from one request, and the token a request is about to remove
  as expired is still expired if it is still there. Hence `FreshTokenStays`: the removal
  names the token it saw, not the user.
* `OwnedInv`: tokens and submissions go with the row of their student.

The seat needs no strengthening: it is a unique constraint of the table. `NoValueAssumption`
says that the NULL of the model is none of the values.

### Question bank (`CurriculumProofs`)

`BankHoldsTogether` (`BankInv`) and `NothingUnseenReplaced` (`NothingUnseenIsReplaced`), under
READ COMMITTED and for any teachers, units and questions. The hard part is that a service
saves a step after its checks. The invariant `BankIInv` says what is then still true:

* `LocksApart`: no two transactions lock a row, so what is locked stays as it was read
  (`CheckedInductive`: whatever a service may lock, it adds to this).
* `UnitSaved`: a unit about to be written is still there if it has a row, and no section has
  been put under it while it becomes one itself, since whoever puts one there waits for its
  lock. Its new parent is not locked and may be gone; but ids are not used again and a
  unit keeps its grade, so if it is there it fits. `ForestGrows` is then the lemma that the
  write makes no cycle: the unit has no sections or gets no parent. That the parent is still
  at the top does not follow, and is not true (`TwoLevels`, section 6).
* `QuestionSaved`: a question about to be overwritten is still there, locked, and equal to
  what the page of its teacher shows.
* `PagesPast`: a page shows a question as it is or an older version. It is what makes
  `VersionTells` inductive; every write of a question counts its version up
  (`QuestionsAdvance`), and an id is not used again.

### Problems (`CurriculumProofs`)

All under READ COMMITTED: a sync saves a row it read any number of steps before.

* `PublicationsAreShown`: `ProblemsSpec => []PublicationShown`. The invariant (`RowsInv`) is
  that the rules of a grade are switched on and off together (`Uniform`): a decision replaces
  or switches off all of them.
* `ProblemsHoldTogether` (`ProblemsInv`), `VersionsTellProblems`
  (`VersionTellsUnlessOvertaken`) and `RevealedOnPurpose` (`RevealedByItsManagers`), from
  `ProblemsIInv`. As long as no sync was overtaken, the version of a problem is one more than
  the number of its writes (`Counted`), and so it was when a page showed it (`PagesCount`).
  Equal versions then mean equal counts: nothing was written since. What a sync is about to
  save fits the section it read (`SyncsFit`), which is still the problem's unless it is
  overtaken. An overtaken sync takes the version back; nothing is claimed of the version or
  the tag of such a problem, but it is shown to nobody without a decision, since a sync
  writes neither rules nor suspension nor archive.

### Only model-checked

* Every liveness property: `EveryTaskFinishes`, `SettlingEnds`, `OverdueEnds`, `CloseSettles`.
  They need fairness and `ENABLED`, which are beyond the prover used here.


## 8. Plan

Modules still to write, most important first:

1. `LockOrder`: the row locks of regrade, settlement, deletion, publishing and the queue;
   property: no cycle of waiting transactions but the ones section 6 names.
2. The front end's queue of unsent answers and its polling.

Every invariant and every action property that a passing run checks has its theorem. Proofs
still to write: those of the new modules.

## 9. Not modelled

* Signatures are unforgeable and bodies are delivered whole.
* The content of programs, tests and answers, the comparison of an output with the expected
  one, memory and process counts: any of their outcomes may come about. Descendants that
  outlive a process tree.
* Statistics, exports, lists and audit rows: reads, or writes nothing depends on.
* Trial runs in an AI quiz share the queue but count for nothing; `Submissions` has them.
* The validity of a blueprint, which `finalize_attempt` checks and which nothing in the
  modelled part changes; the shuffling of options.
* Names, titles, spreadsheet columns, password strength, the Django admin but for a
  teacher's rights, the backfill and acceptance commands, class imports.
* Accounts that are deactivated, whose tokens `authentication.py:36` deletes. That a problem
  or a quiz keeps a unit from being deleted (`question_bank/services.py:224-227`):
  `QuestionBank` has neither and allows more deletions.
* Chat, platform operations, the front end and the scripts (see the notes of
  `components` in `PROJECT.json`).
