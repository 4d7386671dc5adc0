------------------------ MODULE ExecutionQueueProofs ------------------------
(***************************************************************************)
(* Theorems about ExecutionQueue for every set of tasks, users and         *)
(* runners, every time-to-live and every limit.                            *)
(*                                                                         *)
(* Types and the one running task of a user come first.  The theorems      *)
(* after them share one argument: a step does one of a few things to each  *)
(* row (RowStep), provided that the rows of open claims are as the claims  *)
(* found them.  Hence open claims keep their rows, no task is started too  *)
(* often, final rows never change, submissions mirror tasks, the queue     *)
(* implements TaskLifecycle, and users and runners are not overloaded.     *)
(***************************************************************************)
EXTENDS ExecutionQueue, FiniteSetTheorems, TLAPS

USE TaskAssumption, NamesAssumption, InputsAssumption, TimesAssumption,
    LimitsAssumption

-----------------------------------------------------------------------------
(* Rows and the operators that rewrite them *)

\* What is left of a deadline never exceeds it.
LEMMA LeftType ==
  ASSUME NEW span \in Nat, NEW age \in Nat
  PROVE  Left(span, age) \in UpTo(span)
  BY DEF Left, UpTo

\* Nothing and everything may be left of a span; what is left of it stays
\* within it as time passes.
LEMMA UpToFacts ==
  ASSUME NEW n \in Nat
  PROVE  0 \in UpTo(n) /\ n \in UpTo(n)
         /\ \A m \in UpTo(n) : m \in Nat /\ Left(m, 1) \in UpTo(n)
  BY DEF UpTo, Left

\* The submission status a result maps to is one of the Submission statuses.
LEMMA SubmissionStatusType ==
  ASSUME NEW result PROVE SubmissionStatus(result) \in SubmissionStatuses
  BY DEF SubmissionStatus, SubmissionStatuses

\* Marking a row yields a Submission status.
LEMMA MarkedType ==
  ASSUME NEW row, NEW s \in SubmissionStatuses
  PROVE  Marked(row, s) \in SubmissionStatuses
  BY DEF Marked, SubmissionStatuses

\* Recovery keeps rows well formed.
LEMMA RecoveredRowType ==
  ASSUME NEW row \in Row, NEW age \in Nat
  PROVE  RecoveredRow(row, age) \in Row
<1>1. /\ Marked(row, "error") \in SubmissionStatuses
      /\ Marked(row, "pending") \in SubmissionStatuses
  BY MarkedType DEF SubmissionStatuses
<1>2. CancelledRow(row) \in Row
  <2>1. "cancelled" \in TaskStatuses
    BY DEF TaskStatuses, FinalStatuses
  <2>2. QED BY <1>1, <2>1, UpToFacts DEF CancelledRow, Row
<1>3. RequeuedRow(row, age) \in Row
  <2>1. "queued" \in TaskStatuses
    BY DEF TaskStatuses
  <2>2. Left(QueueTTL, age) \in UpTo(QueueTTL)
    BY LeftType
  <2>3. QED BY <1>1, <2>1, <2>2, UpToFacts DEF RequeuedRow, Row
<1>4. LostRow(row) \in Row
  <2>1. "system_error" \in TaskStatuses
    BY DEF TaskStatuses, FinalStatuses, GradeStatuses, RunStatuses
  <2>2. QED BY <1>1, <2>1, UpToFacts DEF LostRow, Row
<1>5. QED BY <1>2, <1>3, <1>4 DEF RecoveredRow

\* So do enqueueing, leasing and completing.
LEMMA QueuedRowType ==
  ASSUME NEW u \in User, NEW kind \in Requested
  PROVE  QueuedRow(u, kind) \in Row
  BY UpToFacts DEF QueuedRow, Absent, Row, TaskStatuses, Kinds, SubmissionStatuses

LEMMA LeasedRowType ==
  ASSUME NEW row \in Row, NEW r \in Runner, NEW age \in Nat
  PROVE  LeasedRow(row, r, age) \in Row
<1>1. Marked(row, "running") \in SubmissionStatuses
  BY MarkedType DEF SubmissionStatuses
<1>2. "running" \in TaskStatuses
  BY DEF TaskStatuses
<1>3. Left(LeaseTTL, age) \in UpTo(LeaseTTL)
  BY LeftType
<1>4. row.attempts + 1 \in Nat
  BY DEF Row
<1>5. 0 \in UpTo(QueueTTL)
  BY UpToFacts
<1>6. ASSUME NEW n \in Nat, NEW l \in UpTo(LeaseTTL), NEW z \in UpTo(QueueTTL),
             NEW s \in TaskStatuses, NEW m \in SubmissionStatuses
      PROVE  [row EXCEPT !.status = s, !.ttl = z, !.lease = l, !.leasedBy = r,
                         !.token = n, !.attempts = n, !.sub = m] \in Row
  BY DEF Row
<1>7. QED BY <1>1, <1>2, <1>3, <1>4, <1>5, <1>6 DEF LeasedRow

LEMMA CompletedRowType ==
  ASSUME NEW row \in Row, NEW result \in GradeStatuses
  PROVE  CompletedRow(row, result) \in Row
<1>1. Marked(row, SubmissionStatus(result)) \in SubmissionStatuses
  BY MarkedType, SubmissionStatusType
<1>2. result \in TaskStatuses
  BY DEF TaskStatuses, FinalStatuses
<1>3. QED BY <1>1, <1>2, UpToFacts DEF CompletedRow, Row

\* So the table a recovery pass commits is well formed.
LEMMA RecoveredType ==
  ASSUME task \in [Task -> Row], NEW S, NEW age \in Nat
  PROVE  Recovered(S, age) \in [Task -> Row]
  BY RecoveredRowType DEF Recovered

-----------------------------------------------------------------------------
(* Type correctness *)

LEMMA InitType == Init => TypeOK
  BY UpToFacts DEF Init, TypeOK, Absent, Row, Node, Claim, NoClaim, TaskStatuses, Kinds,
         SubmissionStatuses

LEMMA EnqueueType ==
  ASSUME TypeOK, NEW u \in User, NEW kind \in Requested, Enqueue(u, kind)
  PROVE  TypeOK'
  BY QueuedRowType DEF Enqueue, TypeOK

LEMMA ClaimLeaseType ==
  ASSUME TypeOK, NEW r \in Runner, ClaimLease(r)
  PROVE  TypeOK'
<1>1. claim[r].age \in Nat
  BY DEF TypeOK, Claim
<1>2. ClaimView(r) \in [Task -> Row]
  BY <1>1, RecoveredType DEF TypeOK, ClaimView
<1>3. task' \in [Task -> Row]
  BY <1>1, <1>2, LeasedRowType DEF ClaimLease
<1>4. claim' \in [Runner -> Claim]
  BY DEF ClaimLease, TypeOK, NoClaim, Claim
<1>5. QED BY <1>3, <1>4 DEF ClaimLease, TypeOK

LEMMA RunnerStepType ==
  ASSUME TypeOK, NEW r \in Runner, RunnerStep(r)
  PROVE  TypeOK'
<1>1. CASE ClaimNothing(r)
  BY <1>1, RecoveredType DEF ClaimNothing, TypeOK
<1>2. CASE ClaimSelect(r)
  <2>1. PICK t \in Task :
          claim' = [claim EXCEPT ![r] = [open |-> TRUE, pick |-> t,
                                         recovered |-> ExpiredTasks, age |-> 0]]
    BY <1>2 DEF ClaimSelect, Claimable
  <2>2. QED BY <1>2, <2>1 DEF ClaimSelect, TypeOK, Claim, ExpiredTasks
<1>3. CASE ClaimLease(r)
  BY <1>3, ClaimLeaseType
<1>4. CASE ClaimRaced(r)
  <2>1. claim[r].age \in Nat
    BY DEF TypeOK, Claim
  <2>2. QED BY <1>4, <2>1, RecoveredType DEF ClaimRaced, ClaimView, TypeOK, NoClaim, Claim
<1>5. CASE ClaimAbort(r)
  BY <1>5 DEF ClaimAbort, TypeOK, NoClaim, Claim
<1>6. ASSUME NEW status \in {"online", "draining"}, NodeHeartbeat(r, status)
      PROVE  TypeOK'
  BY <1>6, UpToFacts DEF NodeHeartbeat, TypeOK, Node
<1>7. ASSUME NEW t \in Task, NEW k \in Tokens(t), HeartbeatTask(t, r, k)
      PROVE  TypeOK'
  <2>1. [task[t] EXCEPT !.lease = LeaseTTL] \in Row
    BY UpToFacts DEF TypeOK, Row
  <2>2. QED BY <1>7, <2>1 DEF HeartbeatTask, TypeOK
<1>8. ASSUME NEW t \in Task, NEW k \in Tokens(t), NEW result \in Reported,
             CompleteTask(t, r, k, result)
      PROVE  TypeOK'
  <2>1. CompletedRow(task[t], result) \in Row
    BY CompletedRowType DEF TypeOK
  <2>2. QED BY <1>8, <2>1 DEF CompleteTask, TypeOK
<1>9. QED BY <1>1, <1>2, <1>3, <1>4, <1>5, <1>6, <1>7, <1>8 DEF RunnerStep

LEMMA TickType == ASSUME TypeOK, Tick PROVE TypeOK'
<1>1. ASSUME NEW t \in Task
      PROVE  [task[t] EXCEPT !.ttl = Left(task[t].ttl, 1),
                             !.lease = Left(task[t].lease, 1)] \in Row
  <2>1. task[t] \in Row
    BY DEF TypeOK
  <2>2. Left(task[t].ttl, 1) \in UpTo(QueueTTL) /\ Left(task[t].lease, 1) \in UpTo(LeaseTTL)
    BY <2>1, UpToFacts DEF Row
  <2>3. QED BY <2>1, <2>2 DEF Row
<1>2. ASSUME NEW r \in Runner
      PROVE  [node[r] EXCEPT !.fresh = Left(node[r].fresh, 1)] \in Node
  BY UpToFacts DEF TypeOK, Node
<1>3. MaxAge \in Nat
  BY DEF MaxAge
<1>4. ASSUME NEW r \in Runner
      PROVE  [claim[r] EXCEPT !.age = claim[r].age + 1] \in Claim
  BY DEF TypeOK, Claim
<1>5. QED BY <1>1, <1>2, <1>3, <1>4 DEF Tick, TypeOK

LEMMA NextType == TypeOK /\ [Next]_vars => TypeOK'
<1> SUFFICES ASSUME TypeOK, [Next]_vars PROVE TypeOK'
  OBVIOUS
<1>1. CASE Recover
  BY <1>1, RecoveredType DEF Recover, TypeOK
<1>2. CASE UNCHANGED vars
  BY <1>2 DEF vars, TypeOK
<1>3. QED
  BY <1>1, <1>2, EnqueueType, RunnerStepType, TickType DEF Next

\* Every reachable row, node and claim has the shape of its table.
THEOREM TypeCorrect == Spec => []TypeOK
  BY InitType, NextType, PTL DEF Spec

-----------------------------------------------------------------------------
(* At most one running task per user *)

\* Recovery starts nothing and gives no task to another user.
LEMMA RecoveredRunsNothing ==
  ASSUME TypeOK, NEW S, NEW age \in Nat, NEW t \in Task
  PROVE  /\ Recovered(S, age)[t].user = task[t].user
         /\ Recovered(S, age)[t].status = "running" => task[t].status = "running"
<1>1. task[t] \in Row
  BY DEF TypeOK
<1>2. CASE t \in S
  <2>1. Recovered(S, age)[t] = RecoveredRow(task[t], age)
    BY <1>2 DEF Recovered
  <2>2. QED BY <1>1, <2>1
              DEF RecoveredRow, CancelledRow, RequeuedRow, LostRow, Row
<1>3. CASE t \notin S
  BY <1>3 DEF Recovered
<1>4. QED BY <1>2, <1>3

\* A step after which nothing runs that did not run before keeps the property.
LEMMA NothingStarted ==
  ASSUME OneRunningPerUser,
         \A t \in Task : task'[t].status = "running" =>
            task[t].status = "running" /\ task'[t].user = task[t].user
  PROVE  OneRunningPerUser'
  BY DEF OneRunningPerUser

\* The one step that starts a task: the user had nothing running.
LEMMA ClaimLeaseOneRunning ==
  ASSUME TypeOK, OneRunningPerUser, NEW r \in Runner, ClaimLease(r)
  PROVE  OneRunningPerUser'
<1> DEFINE tab == ClaimView(r)
           p   == claim[r].pick
<1>1. claim[r].age \in Nat
  BY DEF TypeOK, Claim
<1>2. /\ tab \in [Task -> Row]
      /\ \A t \in Task : /\ tab[t].user = task[t].user
                         /\ tab[t].status = "running" => task[t].status = "running"
  BY <1>1, RecoveredType, RecoveredRunsNothing DEF ClaimView, TypeOK
<1>3. /\ task' = [tab EXCEPT ![p] = LeasedRow(tab[p], r, claim[r].age)]
      /\ \A t \in Task : tab[t].status = "running" => tab[t].user # tab[p].user
  BY DEF ClaimLease, HasRunning
<1>4. ASSUME NEW t \in Task, t # p
      PROVE  task'[t] = tab[t]
  BY <1>2, <1>3, <1>4
<1>5. p \in Task => task'[p].user = tab[p].user
  BY <1>2, <1>3 DEF LeasedRow, Row
<1>6. ASSUME NEW s \in Task, NEW t \in Task, s # t,
             task'[s].status = "running", task'[t].status = "running",
             task'[s].user = task'[t].user
      PROVE  FALSE
  <2>1. CASE s = p
    BY <1>3, <1>4, <1>5, <1>6, <2>1
  <2>2. CASE t = p
    BY <1>3, <1>4, <1>5, <1>6, <2>2
  <2>3. CASE s # p /\ t # p
    BY <1>2, <1>4, <1>6, <2>3 DEF OneRunningPerUser
  <2>4. QED BY <2>1, <2>2, <2>3
<1>7. QED BY <1>6 DEF OneRunningPerUser

LEMMA NextOneRunning ==
  TypeOK /\ OneRunningPerUser /\ [Next]_vars => OneRunningPerUser'
<1> SUFFICES ASSUME TypeOK, OneRunningPerUser, [Next]_vars
             PROVE  OneRunningPerUser'
  OBVIOUS
<1>1. ASSUME NEW u \in User, NEW kind \in Requested, Enqueue(u, kind)
      PROVE  OneRunningPerUser'
  BY <1>1, NothingStarted DEF Enqueue, QueuedRow, Absent, TypeOK
<1>2. ASSUME NEW r \in Runner, RunnerStep(r)
      PROVE  OneRunningPerUser'
  <2>1. CASE ClaimNothing(r)
    BY <2>1, RecoveredRunsNothing, NothingStarted DEF ClaimNothing
  <2>2. CASE ClaimSelect(r) \/ ClaimAbort(r) \/ \E status \in {"online", "draining"} :
                                                  NodeHeartbeat(r, status)
    BY <2>2 DEF ClaimSelect, ClaimAbort, NodeHeartbeat, OneRunningPerUser
  <2>3. CASE ClaimLease(r)
    BY <2>3, ClaimLeaseOneRunning
  <2>4. CASE ClaimRaced(r)
    <3>1. claim[r].age \in Nat
      BY DEF TypeOK, Claim
    <3>2. QED BY <2>4, <3>1, RecoveredRunsNothing, NothingStarted DEF ClaimRaced, ClaimView
  <2>5. ASSUME NEW t \in Task, NEW k \in Tokens(t), HeartbeatTask(t, r, k)
        PROVE  OneRunningPerUser'
    BY <2>5, NothingStarted DEF HeartbeatTask, TypeOK, Row
  <2>6. ASSUME NEW t \in Task, NEW k \in Tokens(t), NEW result \in Reported,
               CompleteTask(t, r, k, result)
        PROVE  OneRunningPerUser'
    <3>1. \A s \in Task : s # t => task'[s] = task[s]
      BY <2>6 DEF CompleteTask, TypeOK
    <3>2. task'[t].status = result
      BY <2>6 DEF CompleteTask, CompletedRow, TypeOK, Row
    <3>3. result # "running"
      BY DEF GradeStatuses, RunStatuses
    <3>4. QED BY <3>1, <3>2, <3>3, NothingStarted
  <2>7. QED BY <1>2, <2>1, <2>2, <2>3, <2>4, <2>5, <2>6 DEF RunnerStep
<1>3. CASE Recover
  BY <1>3, RecoveredRunsNothing, NothingStarted DEF Recover
<1>4. CASE Tick
  <2>1. ASSUME NEW t \in Task
        PROVE  task'[t].status = task[t].status /\ task'[t].user = task[t].user
    <3>1. task[t] \in Row
      BY DEF TypeOK
    <3>2. task'[t] = [task[t] EXCEPT !.ttl = Left(task[t].ttl, 1),
                                     !.lease = Left(task[t].lease, 1)]
      BY <1>4 DEF Tick
    <3>3. QED BY <3>1, <3>2 DEF Row
  <2>2. QED BY <2>1 DEF OneRunningPerUser
<1>5. CASE UNCHANGED vars
  BY <1>5 DEF vars, OneRunningPerUser
<1>6. QED BY <1>1, <1>2, <1>3, <1>4, <1>5 DEF Next

\* No user ever has two tasks running, however the claims of the runners, the
\* enqueues, the results and the recoveries interleave.
THEOREM OneRunning == Spec => []OneRunningPerUser
<1>1. Init => OneRunningPerUser
  BY DEF Init, OneRunningPerUser, Absent
<1>2. QED BY <1>1, TypeCorrect, NextOneRunning, PTL DEF Spec

-----------------------------------------------------------------------------
(* What a step may do to a row *)

Accepted(a, b) ==
  a.status = "absent" /\ \E u \in User, kind \in Requested : b = QueuedRow(u, kind)

Expiring(a, b) == Expired(a) /\ \E age \in Nat : b = RecoveredRow(a, age)

Started(a, b) ==
  \E r \in Runner, age \in Nat :
    \/ a.status = "queued" /\ b = LeasedRow(a, r, age)
    \/ /\ a.status = "running" /\ a.attempts < MaxAttempts
       /\ b = LeasedRow(RequeuedRow(a, age), r, age)

Renewed(a, b) == a.status = "running" /\ b = [a EXCEPT !.lease = LeaseTTL]

Completed(a, b) ==
  /\ a.status = "running" /\ a.leasedBy \in Runner
  /\ \E result \in GradeStatuses : b = CompletedRow(a, result)

Waited(a, b) == b = [a EXCEPT !.ttl = Left(a.ttl, 1), !.lease = Left(a.lease, 1)]

\* A step that neither accepts nor starts nor finishes an execution of the task.
Calm(a, b) == b = a \/ Expiring(a, b) \/ Renewed(a, b) \/ Waited(a, b)

\* A step that neither accepts nor starts the task.
Quiet(a, b) == Calm(a, b) \/ Completed(a, b)

RowStep(a, b) == Accepted(a, b) \/ Started(a, b) \/ Quiet(a, b)

-----------------------------------------------------------------------------
(* Single rows *)

LEMMA StatusFacts ==
  /\ "queued" \notin FinalStatuses /\ "running" \notin FinalStatuses
  /\ "absent" \notin FinalStatuses
  /\ GradeStatuses \subseteq FinalStatuses
  /\ "cancelled" \in FinalStatuses /\ "system_error" \in GradeStatuses
  /\ "cancelled" \notin GradeStatuses /\ "lost" \notin GradeStatuses
  /\ FinalStatuses = GradeStatuses \union {"cancelled"}
  BY DEF FinalStatuses, GradeStatuses, RunStatuses

\* Recovery of an expired row, case by case.
LEMMA ExpiredCases ==
  ASSUME NEW a \in Row, NEW age, Expired(a)
  PROVE  \/ a.status = "queued"  /\ RecoveredRow(a, age) = CancelledRow(a)
         \/ a.status = "running" /\ a.attempts < MaxAttempts
                                 /\ RecoveredRow(a, age) = RequeuedRow(a, age)
         \/ a.status = "running" /\ a.attempts >= MaxAttempts
                                 /\ RecoveredRow(a, age) = LostRow(a)
  BY DEF Expired, RecoveredRow, Row

\* What a requeued and a leased row look like.
LEMMA RequeuedFacts ==
  ASSUME NEW a \in Row, NEW age \in Nat
  PROVE  LET b == RequeuedRow(a, age) IN
         /\ b \in Row
         /\ b.status = "queued" /\ b.attempts = a.attempts /\ b.kind = a.kind
         /\ b.user = a.user
<1>1. RequeuedRow(a, age) \in Row
  <2>1. Marked(a, "pending") \in SubmissionStatuses
    BY MarkedType DEF SubmissionStatuses
  <2>2. "queued" \in TaskStatuses
    BY DEF TaskStatuses
  <2>3. QED BY <2>1, <2>2, LeftType, UpToFacts DEF RequeuedRow, Row
<1>2. QED BY <1>1 DEF RequeuedRow, Row

LEMMA LeasedFacts ==
  ASSUME NEW a \in Row, NEW r \in Runner, NEW age \in Nat
  PROVE  LET b == LeasedRow(a, r, age) IN
         /\ b.status = "running" /\ b.ttl = 0 /\ b.attempts = a.attempts + 1
         /\ b.kind = a.kind /\ b.user = a.user /\ b.sub = Marked(a, "running")
         /\ b.leasedBy = r
  BY DEF LeasedRow, Row

LEMMA RowStepInv ==
  ASSUME NEW a \in Row, NEW b \in Row, RowInv(a), RowStep(a, b)
  PROVE  RowInv(b)
<1>1. CASE b = a
  BY <1>1
<1>2. CASE Accepted(a, b)
  BY <1>2, StatusFacts DEF Accepted, QueuedRow, Absent, RowInv
<1>3. CASE Expiring(a, b)
  <2>1. PICK age \in Nat : b = RecoveredRow(a, age)
    BY <1>3 DEF Expiring
  <2>2. CASE a.status = "queued" /\ b = CancelledRow(a)
    BY <2>2, StatusFacts DEF RowInv, CancelledRow, Row
  <2>3. CASE a.status = "running" /\ a.attempts < MaxAttempts /\ b = RequeuedRow(a, age)
    BY <2>3, StatusFacts DEF RowInv, RequeuedRow, Row
  <2>4. CASE a.status = "running" /\ b = LostRow(a)
    BY <2>4, StatusFacts DEF RowInv, LostRow, Row
  <2>5. QED BY <1>3, <2>1, <2>2, <2>3, <2>4, ExpiredCases DEF Expiring
<1>4. CASE Started(a, b)
  <2>1. PICK r \in Runner, age \in Nat :
          \/ a.status = "queued" /\ b = LeasedRow(a, r, age)
          \/ /\ a.status = "running" /\ a.attempts < MaxAttempts
             /\ b = LeasedRow(RequeuedRow(a, age), r, age)
    BY <1>4 DEF Started
  <2>2. CASE a.status = "queued" /\ b = LeasedRow(a, r, age)
    BY <2>2, LeasedFacts, StatusFacts DEF RowInv, Row
  <2>3. CASE /\ a.status = "running" /\ a.attempts < MaxAttempts
             /\ b = LeasedRow(RequeuedRow(a, age), r, age)
    <3>1. PICK q \in Row : q.attempts = a.attempts /\ b = LeasedRow(q, r, age)
      BY <2>3, RequeuedFacts
    <3>2. b.status = "running" /\ b.ttl = 0 /\ b.attempts = a.attempts + 1
      BY <3>1, LeasedFacts
    <3>3. QED BY <2>3, <3>2, StatusFacts DEF RowInv, Row
  <2>4. QED BY <2>1, <2>2, <2>3
<1>5. CASE Renewed(a, b)
  BY <1>5, StatusFacts DEF Renewed, RowInv, Row
<1>6. CASE Completed(a, b)
  BY <1>6, StatusFacts DEF Completed, RowInv, CompletedRow, Row
<1>7. CASE Waited(a, b)
  BY <1>7 DEF Waited, RowInv, Left, Row
<1>8. QED BY <1>1, <1>2, <1>3, <1>4, <1>5, <1>6, <1>7 DEF RowStep, Quiet, Calm

\* A final row is left as it is.
LEMMA RowStepFinal ==
  ASSUME NEW a \in Row, NEW b, RowInv(a), RowStep(a, b), a.status \in FinalStatuses
  PROVE  b = a
<1>1. a.status # "absent" /\ a.status # "queued" /\ a.status # "running"
  BY StatusFacts
<1>2. b = a \/ Waited(a, b)
  BY <1>1 DEF RowStep, Quiet, Calm, Accepted, Expiring, Expired, Started, Renewed, Completed
<1>3. a.ttl = 0 /\ a.lease = 0 /\ Left(0, 1) = 0
  BY DEF RowInv, Left
<1>4. CASE Waited(a, b)
  <2>1. b = [a EXCEPT !.ttl = 0, !.lease = 0]
    BY <1>3, <1>4 DEF Waited
  <2>2. QED BY <1>3, <2>1 DEF Row
<1>5. QED BY <1>2, <1>4

\* What the submission of a row has to say.
Mirror(a) ==
  a.kind = "grade" =>
    a.sub = CASE a.status = "queued"  -> "pending"
              [] a.status = "running" -> "running"
              [] OTHER -> SubmissionStatus(a.status)

\* The status of a submission by the status of its task.
LEMMA SubmissionStatusFacts ==
  /\ SubmissionStatus("cancelled") = "error"
  /\ SubmissionStatus("system_error") = "error"
  BY DEF SubmissionStatus

LEMMA RowStepMirror ==
  ASSUME NEW a \in Row, NEW b \in Row, RowInv(a), Mirror(a), RowStep(a, b)
  PROVE  Mirror(b)
<1>1. CASE b = a
  BY <1>1
<1>2. CASE Accepted(a, b)
  BY <1>2 DEF Accepted, QueuedRow, Absent, Mirror
<1>3. CASE Expiring(a, b)
  <2>1. PICK age \in Nat : b = RecoveredRow(a, age)
    BY <1>3 DEF Expiring
  <2>2. CASE b = CancelledRow(a)
    BY <2>2, SubmissionStatusFacts DEF Mirror, CancelledRow, Marked, Row
  <2>3. CASE b = RequeuedRow(a, age)
    BY <2>3 DEF Mirror, RequeuedRow, Marked, Row
  <2>4. CASE b = LostRow(a)
    BY <2>4, SubmissionStatusFacts DEF Mirror, LostRow, Marked, Row
  <2>5. QED BY <1>3, <2>1, <2>2, <2>3, <2>4, ExpiredCases DEF Expiring
<1>4. CASE Started(a, b)
  <2>1. PICK r \in Runner, age \in Nat, q \in Row :
          q.kind = a.kind /\ b = LeasedRow(q, r, age)
    BY <1>4, RequeuedFacts DEF Started
  <2>2. b.status = "running" /\ b.kind = a.kind /\ b.sub = Marked(q, "running")
    BY <2>1, LeasedFacts
  <2>3. QED BY <2>1, <2>2 DEF Mirror, Marked
<1>5. CASE Renewed(a, b)
  BY <1>5 DEF Renewed, Mirror, Row
<1>6. CASE Completed(a, b)
  <2>1. PICK result \in GradeStatuses : b = CompletedRow(a, result)
    BY <1>6 DEF Completed
  <2>2. b.status = result /\ b.kind = a.kind
        /\ b.sub = Marked(a, SubmissionStatus(result))
    BY <2>1 DEF CompletedRow, Row
  <2>3. result # "queued" /\ result # "running"
    BY DEF GradeStatuses, RunStatuses
  <2>4. QED BY <2>2, <2>3 DEF Mirror, Marked
<1>7. CASE Waited(a, b)
  BY <1>7 DEF Waited, Mirror, Row
<1>8. QED BY <1>1, <1>2, <1>3, <1>4, <1>5, <1>6, <1>7 DEF RowStep, Quiet, Calm

-----------------------------------------------------------------------------
(* Steps of the queue, seen row by row *)

\* The rows of a recovery pass.
LEMMA RecoveredRows ==
  ASSUME TypeOK, NEW S, NEW age \in Nat, NEW t \in Task,
         t \in S => Expired(task[t])
  PROVE  /\ t \in S => /\ Recovered(S, age)[t] = RecoveredRow(task[t], age)
                       /\ Expiring(task[t], Recovered(S, age)[t])
         /\ t \notin S => Recovered(S, age)[t] = task[t]
  BY DEF Recovered, Expiring

\* The one row that starts, and the rows recovered with it.
LEMMA ClaimLeaseRows ==
  ASSUME QInv, NEW r \in Runner, ClaimLease(r), NEW t \in Task
  PROVE  /\ IF t = claim[r].pick THEN Started(task[t], task'[t])
                                  ELSE Calm(task[t], task'[t])
         /\ t \notin LockedBy(r) => task'[t] = task[t]
<1> DEFINE p == claim[r].pick
           S == claim[r].recovered
           a == claim[r].age
<1>1. /\ claim[r].open /\ a \in Nat /\ task \in [Task -> Row]
      /\ TypeOK
  BY DEF QInv, ClaimLease, TypeOK, Claim
<1>2. /\ \A s \in S : Expired(task[s])
      /\ p \in Task
      /\ \/ p \in S /\ task[p].status = "running" /\ task[p].attempts < MaxAttempts
         \/ p \notin S /\ task[p].status = "queued"
  BY <1>1 DEF QInv, ClaimsHoldTheirRows
<1>3. ClaimView(r) \in [Task -> Row]
  BY <1>1, RecoveredType DEF ClaimView
<1>4. /\ t # p => task'[t] = ClaimView(r)[t]
      /\ t = p => task'[t] = LeasedRow(ClaimView(r)[p], r, a)
  BY <1>3 DEF ClaimLease
<1>5. /\ t \in S => Expiring(task[t], ClaimView(r)[t])
      /\ t \notin S => ClaimView(r)[t] = task[t]
      /\ t \in S => ClaimView(r)[t] = RecoveredRow(task[t], a)
  BY <1>1, <1>2, RecoveredRows DEF ClaimView
<1>6. CASE t # p
  <2>1. Calm(task[t], task'[t])
    BY <1>4, <1>5, <1>6 DEF Calm
  <2>2. t \notin LockedBy(r) => t \notin S
    BY <1>1 DEF LockedBy
  <2>3. QED BY <1>4, <1>5, <1>6, <2>1, <2>2
<1>7. CASE t = p
  <2>1. CASE p \in S
    <3>1. RecoveredRow(task[p], a) = RequeuedRow(task[p], a)
      BY <1>2, <2>1 DEF RecoveredRow
    <3>2. task[p].status = "running" /\ task[p].attempts < MaxAttempts
      BY <1>2, <2>1
    <3>3. task'[p] = LeasedRow(RequeuedRow(task[p], a), r, a)
      BY <1>4, <1>5, <1>7, <2>1, <3>1
    <3>4. QED BY <1>1, <1>7, <3>2, <3>3 DEF Started, LockedBy
  <2>2. CASE p \notin S
    BY <1>1, <1>2, <1>4, <1>5, <1>7, <2>2 DEF Started, LockedBy
  <2>3. QED BY <2>1, <2>2
<1>8. QED BY <1>6, <1>7

LEMMA ClaimRacedRows ==
  ASSUME QInv, NEW r \in Runner, ClaimRaced(r), NEW t \in Task
  PROVE  /\ Calm(task[t], task'[t])
         /\ t \notin LockedBy(r) => task'[t] = task[t]
<1>1. /\ claim[r].open /\ claim[r].age \in Nat /\ TypeOK
      /\ task' = Recovered(claim[r].recovered, claim[r].age)
  BY DEF QInv, ClaimRaced, ClaimView, TypeOK, Claim
<1>2. \A s \in claim[r].recovered : Expired(task[s])
  BY <1>1 DEF QInv, ClaimsHoldTheirRows
<1>3. QED BY <1>1, <1>2, RecoveredRows DEF Calm, LockedBy

\* A recovery pass of its own, or that of a claim that finds nothing.
LEMMA RecoveryRows ==
  ASSUME TypeOK, task' = Recovered(ExpiredTasks, 0), NEW t \in Task
  PROVE  /\ Calm(task[t], task'[t])
         /\ t \notin ExpiredTasks => task'[t] = task[t]
  BY RecoveredRows DEF Calm, ExpiredTasks

LEMMA CompleteRows ==
  ASSUME TypeOK, NEW r \in Runner, NEW s \in Task, NEW k, NEW result,
         CompleteTask(s, r, k, result), NEW t \in Task
  PROVE  Quiet(task[t], task'[t]) /\ (t # s => task'[t] = task[t])
<1>1. /\ task' = [task EXCEPT ![s] = CompletedRow(task[s], result)]
      /\ task[s].status = "running" /\ task[s].leasedBy = r
      /\ result \in GradeStatuses
  BY DEF CompleteTask, HoldsLease, GradeStatuses
<1>2. QED BY <1>1 DEF TypeOK, Quiet, Calm, Completed

\* A step accepts one task, or starts the task an open claim picked, or does
\* neither to any task.
LEMMA StepKinds ==
  ASSUME QInv, [Next]_vars
  PROVE  \/ \E u \in User, kind \in Requested : Enqueue(u, kind)
         \/ \E r \in Runner : ClaimLease(r)
         \/ \A t \in Task : Quiet(task[t], task'[t])
<1> SUFFICES ASSUME ~ \E u \in User, kind \in Requested : Enqueue(u, kind),
                    ~ \E r \in Runner : ClaimLease(r),
                    NEW t \in Task
             PROVE  Quiet(task[t], task'[t])
  OBVIOUS
<1>1. TypeOK
  BY DEF QInv
<1>2. ASSUME NEW r \in Runner, RunnerStep(r)
      PROVE  Quiet(task[t], task'[t])
  <2>1. CASE ClaimNothing(r)
    BY <1>1, <2>1, RecoveryRows DEF ClaimNothing, Quiet
  <2>2. CASE \/ ClaimSelect(r) \/ ClaimAbort(r)
             \/ \E status \in {"online", "draining"} : NodeHeartbeat(r, status)
    BY <2>2 DEF ClaimSelect, ClaimAbort, NodeHeartbeat, Quiet, Calm
  <2>3. CASE ClaimRaced(r)
    BY <2>3, ClaimRacedRows DEF Quiet
  <2>4. ASSUME NEW s \in Task, NEW k \in Tokens(s), HeartbeatTask(s, r, k)
        PROVE  Quiet(task[t], task'[t])
    BY <1>1, <2>4 DEF HeartbeatTask, TypeOK, Quiet, Calm, Renewed
  <2>5. ASSUME NEW s \in Task, NEW k \in Tokens(s), NEW result \in Reported,
               CompleteTask(s, r, k, result)
        PROVE  Quiet(task[t], task'[t])
    BY <1>1, <2>5, CompleteRows
  <2>6. QED BY <1>2, <2>1, <2>2, <2>3, <2>4, <2>5 DEF RunnerStep
<1>3. CASE Recover
  BY <1>1, <1>3, RecoveryRows DEF Recover, Quiet
<1>4. CASE Tick
  BY <1>4 DEF Tick, Quiet, Calm, Waited
<1>5. CASE UNCHANGED vars
  BY <1>5 DEF vars, Quiet, Calm
<1>6. QED BY <1>2, <1>3, <1>4, <1>5 DEF Next

\* One task is accepted, the others are as they were.
LEMMA EnqueueRows ==
  ASSUME TypeOK, NEW u \in User, NEW kind \in Requested, Enqueue(u, kind),
         NEW t \in Task
  PROVE  RowStep(task[t], task'[t])
  BY DEF Enqueue, TypeOK, RowStep, Accepted, Quiet, Calm

LEMMA StepRows ==
  ASSUME QInv, [Next]_vars, NEW t \in Task
  PROVE  RowStep(task[t], task'[t])
  BY StepKinds, EnqueueRows, ClaimLeaseRows DEF QInv, RowStep, Quiet

-----------------------------------------------------------------------------
(* Open claims *)

\* What a claim has locked waits or runs.
LEMMA LockedRows ==
  ASSUME TypeOK, ClaimsHoldTheirRows, NEW q \in Runner, NEW t \in LockedBy(q)
  PROVE  t \in Task /\ task[t].status \in {"queued", "running"}
  BY DEF TypeOK, Claim, ClaimsHoldTheirRows, LockedBy, Expired

\* A step that opens no claim and writes no row of a claim that stays open.
LEMMA KeepClaims ==
  ASSUME TypeOK, ClaimsHoldTheirRows,
         \A q \in Runner : claim'[q] = claim[q] \/ ~claim'[q].open,
         \A q \in Runner : claim'[q].open =>
            \A t \in LockedBy(q) : task'[t] = task[t]
  PROVE  ClaimsHoldTheirRows'
<1>1. ASSUME NEW q \in Runner, claim'[q].open
      PROVE  /\ claim'[q] = claim[q] /\ claim[q].open
             /\ \A t \in claim[q].recovered : task'[t] = task[t]
             /\ task'[claim[q].pick] = task[claim[q].pick]
  BY <1>1 DEF LockedBy
<1>2. ASSUME NEW r \in Runner, claim'[r].open
      PROVE  LET t == claim'[r].pick IN
             /\ \A s \in claim'[r].recovered : Expired(task'[s])
             /\ t \in Task
             /\ \/ t \in claim'[r].recovered /\ task'[t].status = "running"
                   /\ task'[t].attempts < MaxAttempts
                \/ t \notin claim'[r].recovered /\ task'[t].status = "queued"
  BY <1>1, <1>2 DEF ClaimsHoldTheirRows
<1>3. ASSUME NEW q \in Runner
      PROVE  LockedBy(q)' \subseteq LockedBy(q)
  BY <1>1 DEF LockedBy
<1>4. ASSUME NEW q \in Runner, NEW r \in Runner, q # r
      PROVE  LockedBy(q)' \intersect LockedBy(r)' = {}
  BY <1>3, <1>4 DEF ClaimsHoldTheirRows
<1>5. QED BY <1>2, <1>4 DEF ClaimsHoldTheirRows

\* The step that opens a claim: what it recovers has expired, what it picks
\* waits or is about to wait again, and nobody else has locked any of it.
LEMMA SelectClaims ==
  ASSUME TypeOK, ClaimsHoldTheirRows, NEW r \in Runner, ClaimSelect(r)
  PROVE  ClaimsHoldTheirRows'
<1> DEFINE tab == Recovered(ExpiredTasks, 0)
<1>1. PICK p \in Claimable(tab, r) :
        claim' = [claim EXCEPT ![r] = [open |-> TRUE, pick |-> p,
                                       recovered |-> ExpiredTasks, age |-> 0]]
  BY DEF ClaimSelect
<1>2. /\ task' = task /\ p \in Task /\ tab[p].status = "queued"
      /\ \A q \in Runner \ {r} : p \notin LockedBy(q)
  BY DEF ClaimSelect, Claimable
<1>3. \A q \in Runner : ExpiredTasks \intersect LockedBy(q) = {}
  BY DEF ClaimSelect, ClaimReady, Locked
<1>4. /\ claim'[r].open /\ claim'[r].pick = p /\ claim'[r].recovered = ExpiredTasks
      /\ \A q \in Runner \ {r} : claim'[q] = claim[q]
  BY <1>1 DEF TypeOK
<1>5. LockedBy(r)' = ExpiredTasks \union {p}
      /\ \A q \in Runner \ {r} : LockedBy(q)' = LockedBy(q)
  BY <1>4 DEF LockedBy
<1>6. \A s \in ExpiredTasks : Expired(task[s])
  BY DEF ExpiredTasks
<1>7. \/ p \in ExpiredTasks /\ task[p].status = "running" /\ task[p].attempts < MaxAttempts
      \/ p \notin ExpiredTasks /\ task[p].status = "queued"
  <2>1. CASE p \in ExpiredTasks
    <3>1. tab[p] = RecoveredRow(task[p], 0) /\ Expired(task[p]) /\ task[p] \in Row
      BY <1>2, <1>6, <2>1 DEF Recovered, TypeOK
    <3>2. RecoveredRow(task[p], 0).status = "queued"
      BY <1>2, <3>1
    <3>3. CancelledRow(task[p]).status # "queued" /\ LostRow(task[p]).status # "queued"
      BY <3>1 DEF CancelledRow, LostRow, Row
    <3>4. QED BY <2>1, <3>1, <3>2, <3>3, ExpiredCases
  <2>2. CASE p \notin ExpiredTasks
    BY <1>2, <2>2 DEF Recovered
  <2>3. QED BY <2>1, <2>2
<1>8. ASSUME NEW q \in Runner, claim'[q].open
      PROVE  LET t == claim'[q].pick IN
             /\ \A s \in claim'[q].recovered : Expired(task'[s])
             /\ t \in Task
             /\ \/ t \in claim'[q].recovered /\ task'[t].status = "running"
                   /\ task'[t].attempts < MaxAttempts
                \/ t \notin claim'[q].recovered /\ task'[t].status = "queued"
  <2>1. CASE q = r
    BY <1>2, <1>4, <1>6, <1>7, <2>1
  <2>2. CASE q # r
    BY <1>2, <1>4, <1>8, <2>2 DEF ClaimsHoldTheirRows
  <2>3. QED BY <2>1, <2>2
<1>9. ASSUME NEW q \in Runner, NEW s \in Runner, q # s
      PROVE  LockedBy(q)' \intersect LockedBy(s)' = {}
  BY <1>2, <1>3, <1>5, <1>9 DEF ClaimsHoldTheirRows
<1>10. QED BY <1>8, <1>9 DEF ClaimsHoldTheirRows

\* Time moves deadlines and clock readings only.
LEMMA TickClaims ==
  ASSUME TypeOK, ClaimsHoldTheirRows, Tick
  PROVE  ClaimsHoldTheirRows'
<1>1. ASSUME NEW t \in Task
      PROVE  /\ task'[t].status = task[t].status
             /\ task'[t].attempts = task[t].attempts
             /\ Expired(task[t]) => Expired(task'[t])
  <2>1. task[t] \in Row
    BY DEF TypeOK
  <2>2. task'[t] = [task[t] EXCEPT !.ttl = Left(task[t].ttl, 1),
                                   !.lease = Left(task[t].lease, 1)]
    BY DEF Tick
  <2>3. Left(0, 1) = 0
    BY DEF Left
  <2>4. QED BY <2>1, <2>2, <2>3 DEF Row, Expired
<1>2. ASSUME NEW r \in Runner
      PROVE  /\ claim'[r].open = claim[r].open /\ claim'[r].pick = claim[r].pick
             /\ claim'[r].recovered = claim[r].recovered
  BY DEF Tick, TypeOK, Claim
<1>3. \A r \in Runner : LockedBy(r)' = LockedBy(r)
  BY <1>2 DEF LockedBy
<1>4. \A r \in Runner : claim[r].recovered \subseteq Task
  BY DEF TypeOK, Claim
<1>5. ASSUME NEW q \in Runner, claim'[q].open
      PROVE  LET t == claim'[q].pick IN
             /\ \A s \in claim'[q].recovered : Expired(task'[s])
             /\ t \in Task
             /\ \/ t \in claim'[q].recovered /\ task'[t].status = "running"
                   /\ task'[t].attempts < MaxAttempts
                \/ t \notin claim'[q].recovered /\ task'[t].status = "queued"
  <2>1. claim[q].open /\ claim[q].pick \in Task
        /\ \A s \in claim[q].recovered : Expired(task[s])
    BY <1>2, <1>5 DEF ClaimsHoldTheirRows
  <2>2. \A s \in claim[q].recovered : Expired(task'[s])
    BY <1>1, <1>4, <2>1
  <2>3. \/ claim[q].pick \in claim[q].recovered /\ task[claim[q].pick].status = "running"
           /\ task[claim[q].pick].attempts < MaxAttempts
        \/ claim[q].pick \notin claim[q].recovered /\ task[claim[q].pick].status = "queued"
    BY <2>1 DEF ClaimsHoldTheirRows
  <2>4. QED BY <1>1, <1>2, <2>1, <2>2, <2>3
<1>6. ASSUME NEW q \in Runner, NEW s \in Runner, q # s
      PROVE  LockedBy(q)' \intersect LockedBy(s)' = {}
  BY <1>3, <1>6 DEF ClaimsHoldTheirRows
<1>7. QED BY <1>5, <1>6 DEF ClaimsHoldTheirRows

\* A claim that ends writes only rows it has locked.
LEMMA EndedClaims ==
  ASSUME QInv, NEW r \in Runner, ClaimLease(r) \/ ClaimRaced(r) \/ ClaimAbort(r)
  PROVE  ClaimsHoldTheirRows'
<1>1. TypeOK /\ ClaimsHoldTheirRows
  BY DEF QInv
<1>2. \A q \in Runner : claim'[q] = IF q = r THEN NoClaim ELSE claim[q]
  BY <1>1 DEF ClaimLease, ClaimRaced, ClaimAbort, TypeOK
<1>3. ASSUME NEW q \in Runner, q # r, NEW t \in LockedBy(q)
      PROVE  task'[t] = task[t]
  <2>1. t \in Task
    BY <1>1, LockedRows
  <2>2. t \notin LockedBy(r)
    BY <1>1, <1>3 DEF ClaimsHoldTheirRows
  <2>3. QED BY <2>1, <2>2, ClaimLeaseRows, ClaimRacedRows DEF ClaimAbort
<1>4. ~NoClaim.open
  BY DEF NoClaim
<1>5. QED BY <1>1, <1>2, <1>3, <1>4, KeepClaims

LEMMA StepClaims ==
  ASSUME QInv, [Next]_vars
  PROVE  ClaimsHoldTheirRows'
<1>1. TypeOK /\ ClaimsHoldTheirRows
  BY DEF QInv
<1>2. ASSUME claim' = claim, \A t \in Task : t \in Locked => task'[t] = task[t]
      PROVE  ClaimsHoldTheirRows'
  <2>1. ASSUME NEW q \in Runner, NEW t \in LockedBy(q)
        PROVE  task'[t] = task[t]
    <3>1. t \in Task /\ t \in Locked
      BY <1>1, <2>1, LockedRows DEF Locked
    <3>2. QED BY <1>2, <3>1
  <2>2. QED BY <1>1, <1>2, <2>1, KeepClaims
<1>3. ASSUME NEW u \in User, NEW kind \in Requested, Enqueue(u, kind)
      PROVE  ClaimsHoldTheirRows'
  <2>1. PICK s \in Task : /\ task[s].status = "absent"
                          /\ task' = [task EXCEPT ![s] = QueuedRow(u, kind)]
    BY <1>3 DEF Enqueue
  <2>2. s \notin Locked
    BY <1>1, <2>1, LockedRows DEF Locked
  <2>3. claim' = claim
    BY <1>3 DEF Enqueue
  <2>4. QED BY <1>1, <1>2, <2>1, <2>2, <2>3 DEF TypeOK
<1>4. ASSUME task' = Recovered(ExpiredTasks, 0), claim' = claim,
             ExpiredTasks \intersect Locked = {}
      PROVE  ClaimsHoldTheirRows'
  BY <1>1, <1>2, <1>4, RecoveryRows
<1>5. ASSUME NEW r \in Runner, RunnerStep(r)
      PROVE  ClaimsHoldTheirRows'
  <2>1. CASE ClaimNothing(r)
    BY <1>4, <2>1 DEF ClaimNothing, ClaimReady
  <2>2. CASE ClaimSelect(r)
    BY <1>1, <2>2, SelectClaims
  <2>3. CASE ClaimLease(r) \/ ClaimRaced(r) \/ ClaimAbort(r)
    BY <2>3, EndedClaims
  <2>4. CASE \E status \in {"online", "draining"} : NodeHeartbeat(r, status)
    BY <1>2, <2>4 DEF NodeHeartbeat
  <2>5. ASSUME NEW s \in Task, NEW k \in Tokens(s), HeartbeatTask(s, r, k)
        PROVE  ClaimsHoldTheirRows'
    <3>1. s \notin Locked /\ claim' = claim
          /\ task' = [task EXCEPT ![s].lease = LeaseTTL]
      BY <2>5 DEF HeartbeatTask, HoldsLease
    <3>2. QED BY <1>1, <1>2, <3>1 DEF TypeOK
  <2>6. ASSUME NEW s \in Task, NEW k \in Tokens(s), NEW result \in Reported,
               CompleteTask(s, r, k, result)
        PROVE  ClaimsHoldTheirRows'
    <3>1. s \notin Locked /\ claim' = claim
          /\ task' = [task EXCEPT ![s] = CompletedRow(task[s], result)]
      BY <2>6 DEF CompleteTask, HoldsLease
    <3>2. QED BY <1>1, <1>2, <3>1 DEF TypeOK
  <2>7. QED BY <1>5, <2>1, <2>2, <2>3, <2>4, <2>5, <2>6 DEF RunnerStep
<1>6. CASE Recover
  BY <1>4, <1>6 DEF Recover
<1>7. CASE Tick
  BY <1>1, <1>7, TickClaims
<1>8. CASE UNCHANGED vars
  BY <1>2, <1>8 DEF vars
<1>9. QED BY <1>3, <1>5, <1>6, <1>7, <1>8 DEF Next

-----------------------------------------------------------------------------
(* The invariant *)

LEMMA InitQInv == Init => QInv
<1> SUFFICES ASSUME Init PROVE QInv
  OBVIOUS
<1>1. TypeOK
  BY InitType
<1>2. RowsHold
  BY StatusFacts DEF Init, Absent, RowsHold, RowInv
<1>3. ClaimsHoldTheirRows
  BY DEF Init, NoClaim, ClaimsHoldTheirRows, LockedBy
<1>4. QED BY <1>1, <1>2, <1>3 DEF QInv

LEMMA NextQInv == QInv /\ [Next]_vars => QInv'
<1> SUFFICES ASSUME QInv, [Next]_vars PROVE QInv'
  OBVIOUS
<1>1. TypeOK /\ TypeOK'
  BY NextType DEF QInv
<1>2. ASSUME NEW t \in Task PROVE RowInv(task'[t])
  BY <1>1, StepRows, RowStepInv DEF QInv, RowsHold, TypeOK
<1>3. QED BY <1>1, <1>2, StepClaims DEF QInv, RowsHold

\* The inductive invariant, from which the theorems below follow: deadlines and
\* attempts stay within their limits, and open claims hold the rows they read.
THEOREM QInvHolds == Spec => []QInv
  BY InitQInv, NextQInv, PTL DEF Spec

\* What an open claim has locked is as it found it whenever it commits: no
\* recovery, heartbeat, result or other claim gets at those rows.
THEOREM ClaimsHold == Spec => []ClaimsHoldTheirRows
<1>1. QInv => ClaimsHoldTheirRows
  BY DEF QInv
<1>2. QED BY <1>1, QInvHolds, PTL

\* No task is started more often than EXECUTION_MAX_ATTEMPTS, and every task
\* that waits may still be started.
THEOREM AttemptsLimited == Spec => []AttemptsBounded
<1>1. QInv => AttemptsBounded
  BY DEF QInv, RowsHold, RowInv, AttemptsBounded
<1>2. QED BY <1>1, QInvHolds, PTL

\* A finished task is never written again.
THEOREM FinalRowsStick == Spec => ResultsStick
<1>1. QInv /\ [Next]_vars =>
        [\A t \in Task : task[t].status \in FinalStatuses => task'[t] = task[t]]_vars
  BY StepRows, RowStepFinal DEF QInv, RowsHold, TypeOK
<1>2. QED BY <1>1, QInvHolds, PTL DEF Spec, ResultsStick

\* The submission of a grading task always tells the status of the task.
THEOREM SubmissionsAgree == Spec => []SubmissionMirrorsTask
<1>1. SubmissionMirrorsTask <=> \A t \in Task : Mirror(task[t])
  BY DEF SubmissionMirrorsTask, Mirror
<1>2. Init => SubmissionMirrorsTask
  BY DEF Init, Absent, SubmissionMirrorsTask
<1>3. QInv /\ QInv' /\ SubmissionMirrorsTask /\ [Next]_vars => SubmissionMirrorsTask'
  <2> SUFFICES ASSUME QInv, QInv', SubmissionMirrorsTask, [Next]_vars
               PROVE  SubmissionMirrorsTask'
    OBVIOUS
  <2>1. ASSUME NEW t \in Task PROVE Mirror(task'[t])
    BY <1>1, StepRows, RowStepMirror DEF QInv, RowsHold, TypeOK
  <2>2. QED BY <2>1 DEF SubmissionMirrorsTask, Mirror
<1>4. QED BY <1>2, <1>3, QInvHolds, PTL DEF Spec

-----------------------------------------------------------------------------
(* The promise of TaskLifecycle *)

\* A row seen as a lifecycle: what it may do, by TaskLifecycle, from phase p
\* after m starts to phase q after n starts.
LifecycleStep(p, m, q, n) ==
  \/ p = "absent" /\ q = "queued" /\ n = m
  \/ p \in {"queued", "running"} /\ q = "running" /\ m < MaxAttempts /\ n = m + 1
  \/ p = "running" /\ q = "queued" /\ m < MaxAttempts /\ n = m
  \/ p = "running" /\ q = "lost" /\ m >= MaxAttempts /\ n = m
  \/ p = "running" /\ q \in GradeStatuses /\ n = m
  \/ p = "queued" /\ q = "cancelled" /\ n = m
  \/ q = p /\ n = m

LEMMA RowStepLifecycle ==
  ASSUME NEW a \in Row, NEW b \in Row, RowInv(a), RowStep(a, b)
  PROVE  LifecycleStep(Phase(a), a.attempts, Phase(b), b.attempts)
<1>1. CASE b = a
  BY <1>1 DEF LifecycleStep
<1>2. CASE Accepted(a, b)
  BY <1>2 DEF Accepted, QueuedRow, Absent, RowInv, Phase, LifecycleStep
<1>3. CASE Expiring(a, b)
  <2>1. PICK age \in Nat : b = RecoveredRow(a, age)
    BY <1>3 DEF Expiring
  <2>2. CASE a.status = "queued" /\ b = CancelledRow(a)
    BY <2>2 DEF CancelledRow, Phase, LifecycleStep, Row
  <2>3. CASE a.status = "running" /\ a.attempts < MaxAttempts /\ b = RequeuedRow(a, age)
    BY <2>3 DEF RequeuedRow, Phase, LifecycleStep, Row
  <2>4. CASE a.status = "running" /\ a.attempts >= MaxAttempts /\ b = LostRow(a)
    BY <2>4 DEF LostRow, Phase, LifecycleStep, Row
  <2>5. QED BY <1>3, <2>1, <2>2, <2>3, <2>4, ExpiredCases DEF Expiring
<1>4. CASE Started(a, b)
  <2>1. PICK r \in Runner, age \in Nat, q \in Row :
          /\ a.status \in {"queued", "running"} /\ a.attempts < MaxAttempts
          /\ q.attempts = a.attempts /\ b = LeasedRow(q, r, age)
    BY <1>4, RequeuedFacts DEF Started, RowInv
  <2>2. b.status = "running" /\ b.attempts = a.attempts + 1
    BY <2>1, LeasedFacts
  <2>3. QED BY <2>1, <2>2 DEF Phase, LifecycleStep
<1>5. CASE Renewed(a, b)
  BY <1>5 DEF Renewed, Phase, LifecycleStep, Row
<1>6. CASE Completed(a, b)
  <2>1. PICK result \in GradeStatuses : b = CompletedRow(a, result)
    BY <1>6 DEF Completed
  <2>2. /\ b.status = result /\ b.attempts = a.attempts
        /\ b.leasedBy = a.leasedBy /\ b.leasedBy # NoRunner
    BY <1>6, <2>1 DEF Completed, CompletedRow, Row
  <2>3. QED BY <1>6, <2>2 DEF Completed, Phase, LifecycleStep
<1>7. CASE Waited(a, b)
  BY <1>7 DEF Waited, Phase, LifecycleStep, Row
<1>8. QED BY <1>1, <1>2, <1>3, <1>4, <1>5, <1>6, <1>7 DEF RowStep, Quiet, Calm

\* The phases and starts of well-formed rows are those of TaskLifecycle.
LEMMA PhaseType ==
  ASSUME NEW a \in Row, RowInv(a)
  PROVE  Phase(a) \in Lifecycle!Phases /\ a.attempts \in 0..MaxAttempts
<1>1. a.status \in {"absent", "queued", "running", "cancelled"} \union GradeStatuses
  BY DEF Row, TaskStatuses, FinalStatuses
<1>2. QED BY <1>1 DEF Phase, Lifecycle!Phases, RowInv, Row

LEMMA InitLifecycle == Init => Lifecycle!Init
  BY DEF Init, Absent, Phase, Lifecycle!Init

LEMMA RowsLifecycle ==
  ASSUME QInv, QInv', \A t \in Task : RowStep(task[t], task'[t])
  PROVE  Lifecycle!Next
<1>1. ASSUME NEW t \in Task
      PROVE  /\ LifecycleStep(Phase(task[t]), task[t].attempts,
                              Phase(task'[t]), task'[t].attempts)
             /\ Phase(task'[t]) \in Lifecycle!Phases
             /\ task'[t].attempts \in 0..MaxAttempts
  BY RowStepLifecycle, PhaseType DEF QInv, RowsHold, TypeOK
<1>2. ASSUME NEW t \in Task
      PROVE  \/ Lifecycle!Accept(t) \/ Lifecycle!Start(t) \/ Lifecycle!Return(t)
             \/ Lifecycle!Abandon(t) \/ Lifecycle!Finish(t) \/ Lifecycle!Cancel(t)
             \/ Lifecycle!Stay(t)
  BY <1>1 DEF LifecycleStep, Lifecycle!Accept, Lifecycle!Start, Lifecycle!Return,
              Lifecycle!Abandon, Lifecycle!Finish, Lifecycle!Cancel, Lifecycle!Stay
<1>3. QED BY <1>1, <1>2 DEF Lifecycle!Next

LEMMA StepLifecycle ==
  QInv /\ QInv' /\ [Next]_vars
    => [Lifecycle!Next]_<<[t \in Task |-> Phase(task[t])],
                          [t \in Task |-> task[t].attempts]>>
  BY StepRows, RowsLifecycle

\* The queue with its rows, locks, leases and deadlines implements the abstract
\* lifecycle: executions only within the attempts, outcomes only from
\* executions, outcomes for good.
THEOREM QueueRefinesLifecycle == Spec => RefinesLifecycle
  BY InitLifecycle, StepLifecycle, QInvHolds, PTL
     DEF Spec, RefinesLifecycle, Lifecycle!Spec

-----------------------------------------------------------------------------
(* The load of a user and of a runner, for every set of tasks, infinite     *)
(* ones included: only finitely many of them exist at any time.             *)

\* The rows of the table.
Present == {t \in Task : task[t].status # "absent"}

\* The unfinished tasks of a user.
Backlog(u) == WithStatus(task, u, "queued") \union WithStatus(task, u, "running")

\* The inductive invariant of the limits.
LoadInv == IsFiniteSet(Present) /\ LoadBounded

-----------------------------------------------------------------------------
(* Single rows *)

\* A row that a step neither accepts nor starts: it does not come into being,
\* if it is unfinished it was, for the same user, and if it runs it already ran
\* for the same runner.
LEMMA QuietFacts ==
  ASSUME NEW a \in Row, NEW b \in Row, Quiet(a, b)
  PROVE  /\ a.status = "absent" => b.status = "absent"
         /\ b.status \in {"queued", "running"}
              => a.status \in {"queued", "running"} /\ b.user = a.user
         /\ b.status = "running" => a.status = "running" /\ b.leasedBy = a.leasedBy
<1>1. CASE b = a
  BY <1>1
<1>2. CASE Expiring(a, b)
  <2>1. PICK age \in Nat : b = RecoveredRow(a, age)
    BY <1>2 DEF Expiring
  <2>2. CASE b = CancelledRow(a)
    BY <1>2, <2>2 DEF Expiring, Expired, CancelledRow, Row
  <2>3. CASE b = RequeuedRow(a, age)
    BY <1>2, <2>3 DEF Expiring, Expired, RequeuedRow, Row
  <2>4. CASE b = LostRow(a)
    BY <1>2, <2>4 DEF Expiring, Expired, LostRow, Row
  <2>5. QED BY <1>2, <2>1, <2>2, <2>3, <2>4, ExpiredCases DEF Expiring
<1>3. CASE Renewed(a, b)
  BY <1>3 DEF Renewed, Row
<1>4. CASE Completed(a, b)
  <2>1. PICK result \in GradeStatuses : b = CompletedRow(a, result)
    BY <1>4 DEF Completed
  <2>2. b.status = result
    BY <2>1 DEF CompletedRow, Row
  <2>3. b.status \notin {"queued", "running"}
    BY <2>2, StatusFacts
  <2>4. QED BY <1>4, <2>3 DEF Completed
<1>5. CASE Waited(a, b)
  BY <1>5 DEF Waited, Row
<1>6. QED BY <1>1, <1>2, <1>3, <1>4, <1>5 DEF Quiet, Calm

\* A row that starts was unfinished, and starts for its user.
LEMMA StartedFacts ==
  ASSUME NEW a \in Row, NEW b \in Row, Started(a, b)
  PROVE  a.status \in {"queued", "running"} /\ b.user = a.user
<1>1. PICK r \in Runner, age \in Nat, q \in Row :
        /\ a.status \in {"queued", "running"} /\ q.user = a.user
        /\ b = LeasedRow(q, r, age)
  BY RequeuedFacts DEF Started
<1>2. QED BY <1>1, LeasedFacts

-----------------------------------------------------------------------------
(* Steps *)

\* A claim that commits gives its runner one lease, on the task it picked, and
\* takes away those it recovered.
LEMMA LeaseLeases ==
  ASSUME QInv, QInv', NEW r \in Runner, ClaimLease(r)
  PROVE  /\ LeasedTo(task, r)' \subseteq
              (LeasedTo(task, r) \ claim[r].recovered) \union {claim[r].pick}
         /\ \A q \in Runner \ {r} : LeasedTo(task, q)' \subseteq LeasedTo(task, q)
<1> DEFINE p == claim[r].pick
<1>1. TypeOK /\ TypeOK' /\ claim[r].open /\ p \in Task
      /\ \A s \in claim[r].recovered : Expired(task[s])
      /\ claim[r].age \in Nat
  BY DEF QInv, ClaimsHoldTheirRows, ClaimLease, TypeOK, Claim
<1>2. ClaimView(r)[p] \in Row
      /\ \A t \in Task : task'[t] = IF t = p
                                    THEN LeasedRow(ClaimView(r)[p], r, claim[r].age)
                                    ELSE ClaimView(r)[t]
  <2>1. task \in [Task -> Row] /\ claim[r].age \in Nat
    BY DEF QInv, TypeOK, Claim
  <2>2. ClaimView(r) \in [Task -> Row]
    BY <2>1, RecoveredType DEF ClaimView
  <2>3. p \in Task
    BY <1>1
  <2>4. task' = [ClaimView(r) EXCEPT ![p] = LeasedRow(ClaimView(r)[p], r, claim[r].age)]
    BY DEF ClaimLease
  <2>5. QED BY <2>2, <2>3, <2>4
<1>3. task'[p].leasedBy = r
  <2>1. LeasedRow(ClaimView(r)[p], r, claim[r].age).leasedBy = r
    BY <1>2 DEF LeasedRow, Row
  <2>2. p \in Task
    BY <1>1
  <2>3. QED BY <1>2, <2>1, <2>2
<1>4. ASSUME NEW t \in Task, t # p, task'[t].status = "running"
      PROVE  task[t].status = "running" /\ task'[t].leasedBy = task[t].leasedBy
  BY <1>1, <1>4, ClaimLeaseRows, QuietFacts DEF TypeOK, Quiet
<1>5. ASSUME NEW t \in claim[r].recovered, t \in Task, t # p
      PROVE  task'[t].status # "running"
  <2>1. task'[t] = RecoveredRow(task[t], claim[r].age)
    <3>1. task'[t] = ClaimView(r)[t]
      BY <1>2, <1>5
    <3>2. QED BY <1>5, <3>1 DEF ClaimView, Recovered
  <2>2. task[t] \in Row /\ Expired(task[t])
    BY <1>1, <1>5 DEF TypeOK
  <2>3. CancelledRow(task[t]).status # "running" /\ LostRow(task[t]).status # "running"
        /\ RequeuedRow(task[t], claim[r].age).status # "running"
    BY <2>2 DEF CancelledRow, LostRow, RequeuedRow, Row
  <2>4. QED BY <2>1, <2>2, <2>3, ExpiredCases
<1>6. QED BY <1>3, <1>4, <1>5 DEF LeasedTo

\* No other step gives a runner a lease.
LEMMA NoNewLeases ==
  ASSUME QInv, QInv', [Next]_vars, \A r \in Runner : ~ClaimLease(r)
  PROVE  \A q \in Runner : LeasedTo(task, q)' \subseteq LeasedTo(task, q)
<1>1. TypeOK /\ TypeOK'
  BY DEF QInv
<1>2. CASE \A t \in Task : Quiet(task[t], task'[t])
  BY ZenonT(30), <1>1, <1>2, QuietFacts DEF TypeOK, LeasedTo
<1>3. ASSUME NEW u \in User, NEW kind \in Requested, Enqueue(u, kind)
      PROVE  \A q \in Runner : LeasedTo(task, q)' \subseteq LeasedTo(task, q)
  BY <1>1, <1>3 DEF Enqueue, QueuedRow, Absent, TypeOK, LeasedTo
<1>4. QED BY <1>2, <1>3, StepKinds

\* The step that counted the slots leaves one free; other steps leave the
\* claim as it is, or end it.
LEMMA ClaimKinds ==
  ASSUME TypeOK, [Next]_vars, NEW r \in Runner, claim'[r].open
  PROVE  \/ claim[r].open /\ claim'[r].recovered = claim[r].recovered
            /\ ~ClaimLease(r)
         \/ /\ task' = task /\ claim'[r].recovered = ExpiredTasks
            /\ Cardinality(LeasedTo(Recovered(ExpiredTasks, 0), r)) < Capacity
<1>1. ASSUME NEW q \in Runner, RunnerStep(q)
      PROVE  \/ claim' = claim
             \/ claim' = [claim EXCEPT ![q] = NoClaim]
             \/ ClaimSelect(q)
  BY <1>1 DEF RunnerStep, ClaimNothing, ClaimLease, ClaimRaced, ClaimAbort,
              NodeHeartbeat, HeartbeatTask, CompleteTask
<1>2. ~ClaimLease(r)
  BY DEF ClaimLease, NoClaim, TypeOK
<1>3. ASSUME NEW q \in Runner, ClaimSelect(q)
      PROVE  \/ claim'[r] = claim[r]
             \/ /\ task' = task /\ claim'[r].recovered = ExpiredTasks
                /\ Cardinality(LeasedTo(Recovered(ExpiredTasks, 0), r)) < Capacity
  BY <1>3 DEF ClaimSelect, TypeOK
<1>4. CASE Tick
  BY <1>2, <1>4 DEF Tick, TypeOK, Claim
<1>5. CASE UNCHANGED vars \/ Recover \/ \E u \in User, kind \in Requested : Enqueue(u, kind)
  BY <1>2, <1>5 DEF vars, Recover, Enqueue
<1>6. ASSUME NEW q \in Runner, RunnerStep(q)
      PROVE  \/ claim[r].open /\ claim'[r].recovered = claim[r].recovered
             \/ /\ task' = task /\ claim'[r].recovered = ExpiredTasks
                /\ Cardinality(LeasedTo(Recovered(ExpiredTasks, 0), r)) < Capacity
  <2>1. CASE claim' = [claim EXCEPT ![q] = NoClaim]
    BY <2>1 DEF TypeOK, NoClaim
  <2>2. QED BY <1>1, <1>3, <1>6, <2>1
<1>7. QED BY <1>2, <1>4, <1>5, <1>6 DEF Next

\* Once the expired leases are recovered, a runner has those that are left.
LEMMA RecoveredLeases ==
  ASSUME TypeOK, NEW r \in Runner
  PROVE  LeasedTo(Recovered(ExpiredTasks, 0), r) = LeasedTo(task, r) \ ExpiredTasks
<1>1. ASSUME NEW t \in ExpiredTasks
      PROVE  Recovered(ExpiredTasks, 0)[t].status # "running"
  <2>1. t \in Task /\ task[t] \in Row /\ Expired(task[t])
        /\ Recovered(ExpiredTasks, 0)[t] = RecoveredRow(task[t], 0)
    BY DEF ExpiredTasks, Recovered, TypeOK
  <2>2. CancelledRow(task[t]).status # "running" /\ LostRow(task[t]).status # "running"
        /\ RequeuedRow(task[t], 0).status # "running"
    BY <2>1 DEF CancelledRow, LostRow, RequeuedRow, Row
  <2>3. QED BY <2>1, <2>2, ExpiredCases
<1>2. ASSUME NEW t \in Task, t \notin ExpiredTasks
      PROVE  Recovered(ExpiredTasks, 0)[t] = task[t]
  BY <1>2 DEF Recovered
<1>3. QED BY <1>1, <1>2 DEF LeasedTo

\* A set that grows by at most one element grows by at most one.
LEMMA AddOne ==
  ASSUME NEW S, IsFiniteSet(S), NEW x, NEW T, T \subseteq S \union {x}
  PROVE  /\ IsFiniteSet(T) /\ IsFiniteSet(S)
         /\ Cardinality(T) \in Nat /\ Cardinality(S) \in Nat
         /\ Cardinality(T) <= Cardinality(S) + 1
<1>1. IsFiniteSet(S \union {x}) /\ Cardinality(S) \in Nat
      /\ Cardinality(S \union {x}) <= Cardinality(S) + 1
  <2>1. Cardinality(S) \in Nat
    BY FS_CardinalityType
  <2>2. /\ IsFiniteSet(S \union {x})
        /\ \/ Cardinality(S \union {x}) = Cardinality(S)
           \/ Cardinality(S \union {x}) = Cardinality(S) + 1
    BY FS_AddElement
  <2>3. QED BY <2>1, <2>2
<1>2. IsFiniteSet(T) /\ Cardinality(T) <= Cardinality(S \union {x})
  BY <1>1, FS_Subset
<1>3. Cardinality(T) \in Nat /\ Cardinality(S \union {x}) \in Nat
  BY <1>1, <1>2, FS_CardinalityType
<1>4. QED BY <1>1, <1>2, <1>3

\* Two sets together have at most the elements of both.
LEMMA TwoSets ==
  ASSUME NEW S, IsFiniteSet(S), NEW T, IsFiniteSet(T)
  PROVE  Cardinality(S \union T) <= Cardinality(S) + Cardinality(T)
<1>1. /\ IsFiniteSet(S \intersect T)
      /\ Cardinality(S \union T) = Cardinality(S) + Cardinality(T) - Cardinality(S \intersect T)
  BY FS_Union, FS_Intersection
<1>2. Cardinality(S) \in Nat /\ Cardinality(T) \in Nat /\ Cardinality(S \intersect T) \in Nat
  BY <1>1, FS_CardinalityType
<1>3. QED BY <1>1, <1>2

\* A set that does not grow does not have more elements.
LEMMA NoMore ==
  ASSUME NEW S, IsFiniteSet(S), NEW T, T \subseteq S
  PROVE  /\ IsFiniteSet(T)
         /\ Cardinality(T) \in Nat /\ Cardinality(S) \in Nat
         /\ Cardinality(T) <= Cardinality(S)
  BY FS_Subset, FS_CardinalityType

-----------------------------------------------------------------------------
(* The invariant *)

LEMMA InitLoad == Init => LoadInv
<1> SUFFICES ASSUME Init PROVE LoadInv
  OBVIOUS
<1>1. /\ Present = {}
      /\ \A r \in Runner : LeasedTo(task, r) = {} /\ ~claim[r].open
      /\ \A u \in User : Backlog(u) = {}
  BY DEF Init, Absent, NoClaim, Present, LeasedTo, Backlog, WithStatus
<1>2. IsFiniteSet({}) /\ Cardinality({}) = 0 /\ 0 < QueuedLimit + RunningLimit /\ 0 <= Capacity
  BY FS_EmptySet
<1>3. BacklogBounded
  BY <1>1, <1>2 DEF BacklogBounded, Backlog
<1>4. WithinCapacity /\ ClaimsFit
  BY <1>1, <1>2 DEF WithinCapacity, ClaimsFit
<1>5. QED BY <1>1, <1>2, <1>3, <1>4 DEF LoadInv, LoadBounded

\* Rows exist once they are accepted, one at a time.
LEMMA PresentStep ==
  ASSUME QInv, QInv', [Next]_vars, IsFiniteSet(Present)
  PROVE  IsFiniteSet(Present')
<1>1. TypeOK /\ TypeOK'
  BY DEF QInv
<1>2. ASSUME NEW u \in User, NEW kind \in Requested, Enqueue(u, kind)
      PROVE  \E t \in Task : Present' \subseteq Present \union {t}
  BY <1>1, <1>2 DEF Enqueue, TypeOK, Present
<1>3. CASE \A t \in Task : Quiet(task[t], task'[t])
  <2>1. ASSUME NEW t \in Task, task[t].status = "absent"
        PROVE  task'[t].status = "absent"
    BY <1>1, <1>3, <2>1, QuietFacts DEF TypeOK
  <2>2. Present' \subseteq Present
    BY <2>1 DEF Present
  <2>3. QED BY <2>2, FS_Subset
<1>4. ASSUME NEW r \in Runner, ClaimLease(r)
      PROVE  Present' \subseteq Present
  <2>1. ASSUME NEW t \in Task, task[t].status = "absent"
        PROVE  task'[t].status = "absent"
    <3>1. Started(task[t], task'[t]) \/ Quiet(task[t], task'[t])
      BY <1>4, ClaimLeaseRows DEF Quiet
    <3>2. QED BY <1>1, <2>1, <3>1, StartedFacts, QuietFacts DEF TypeOK
  <2>2. QED BY <2>1 DEF Present
<1>5. QED BY <1>2, <1>3, <1>4, StepKinds, AddOne, FS_Subset

\* The backlog of a user grows only by an enqueue, which counted it.
LEMMA BacklogStep ==
  ASSUME QInv, QInv', [Next]_vars, LoadInv
  PROVE  BacklogBounded'
<1> SUFFICES ASSUME NEW u \in User
             PROVE  Cardinality(Backlog(u)') < QueuedLimit + RunningLimit
  BY DEF BacklogBounded, Backlog
<1>1. TypeOK /\ TypeOK'
  BY DEF QInv
<1>2. Backlog(u) \subseteq Present /\ WithStatus(task, u, "queued") \subseteq Present
      /\ WithStatus(task, u, "running") \subseteq Present
  BY DEF Backlog, WithStatus, Present
<1>3. IsFiniteSet(Backlog(u)) /\ IsFiniteSet(WithStatus(task, u, "queued"))
      /\ IsFiniteSet(WithStatus(task, u, "running"))
  BY <1>2, FS_Subset DEF LoadInv
<1>4. ASSUME Backlog(u)' \subseteq Backlog(u)
      PROVE  Cardinality(Backlog(u)') < QueuedLimit + RunningLimit
  <2>1. Cardinality(Backlog(u)) < QueuedLimit + RunningLimit
    BY DEF LoadInv, LoadBounded, BacklogBounded, Backlog
  <2>2. QED BY <1>3, <1>4, <2>1, NoMore
<1>5. ASSUME \A t \in Task : Started(task[t], task'[t]) \/ Quiet(task[t], task'[t])
      PROVE  Backlog(u)' \subseteq Backlog(u)
  <2>1. ASSUME NEW t \in Task, task'[t].status \in {"queued", "running"}
        PROVE  task[t].status \in {"queued", "running"} /\ task'[t].user = task[t].user
    BY <1>1, <1>5, <2>1, StartedFacts, QuietFacts DEF TypeOK
  <2>2. QED BY <2>1 DEF Backlog, WithStatus
<1>6. ASSUME NEW v \in User, NEW kind \in Requested, Enqueue(v, kind)
      PROVE  Cardinality(Backlog(u)') < QueuedLimit + RunningLimit
  <2>1. PICK t \in Task : /\ task[t].status = "absent"
                          /\ Cardinality(WithStatus(task, v, "running")) < RunningLimit
                          /\ Cardinality(WithStatus(task, v, "queued")) < QueuedLimit
                          /\ task' = [task EXCEPT ![t] = QueuedRow(v, kind)]
    BY <1>6 DEF Enqueue
  <2>2. QueuedRow(v, kind).user = v
    BY DEF QueuedRow, Absent
  <2>3. CASE v # u
    <3>1. Backlog(u)' \subseteq Backlog(u)
      BY <1>1, <2>1, <2>2, <2>3 DEF Backlog, WithStatus, TypeOK
    <3>2. QED BY <1>4, <3>1
  <2>4. CASE v = u
    <3>1. Backlog(u)' \subseteq Backlog(u) \union {t}
      BY <1>1, <2>1 DEF Backlog, WithStatus, TypeOK
    <3>2. Cardinality(Backlog(u)') <= Cardinality(Backlog(u)) + 1
          /\ Cardinality(Backlog(u)') \in Nat /\ Cardinality(Backlog(u)) \in Nat
      BY <1>3, <3>1, AddOne
    <3>3. Cardinality(Backlog(u)) <= Cardinality(WithStatus(task, u, "queued"))
                                       + Cardinality(WithStatus(task, u, "running"))
      BY <1>3, TwoSets DEF Backlog
    <3>4. Cardinality(WithStatus(task, u, "queued")) \in Nat
          /\ Cardinality(WithStatus(task, u, "running")) \in Nat
      BY <1>3, FS_CardinalityType
    <3>5. QED BY <2>1, <2>4, <3>2, <3>3, <3>4
  <2>5. QED BY <2>3, <2>4
<1>7. QED BY <1>4, <1>5, <1>6, StepKinds, ClaimLeaseRows DEF Quiet

\* The leases of a runner grow only by its own claim, which counted them.
LEMMA LeasesStep ==
  ASSUME QInv, QInv', [Next]_vars, LoadInv
  PROVE  WithinCapacity' /\ ClaimsFit'
<1>1. TypeOK /\ TypeOK'
  BY DEF QInv
<1>2. ASSUME NEW q \in Runner
      PROVE  IsFiniteSet(LeasedTo(task, q)) /\ Cardinality(LeasedTo(task, q)) <= Capacity
  <2>1. LeasedTo(task, q) \subseteq Present
    BY DEF LeasedTo, Present
  <2>2. QED BY <2>1, FS_Subset DEF LoadInv, LoadBounded, WithinCapacity
<1>3. ASSUME NEW q \in Runner, ~ClaimLease(q)
      PROVE  LeasedTo(task, q)' \subseteq LeasedTo(task, q)
  BY <1>3, NoNewLeases, LeaseLeases
<1>4. ASSUME NEW q \in Runner
      PROVE  Cardinality(LeasedTo(task, q)') <= Capacity
  <2>1. CASE ClaimLease(q)
    <3>1. Cardinality(LeasedTo(task, q) \ claim[q].recovered) < Capacity
      BY <2>1 DEF LoadInv, LoadBounded, ClaimsFit, ClaimLease
    <3>2. IsFiniteSet(LeasedTo(task, q) \ claim[q].recovered)
      BY <1>2, FS_Difference
    <3>3. /\ Cardinality(LeasedTo(task, q)')
               <= Cardinality(LeasedTo(task, q) \ claim[q].recovered) + 1
          /\ Cardinality(LeasedTo(task, q)') \in Nat
          /\ Cardinality(LeasedTo(task, q) \ claim[q].recovered) \in Nat
      <4>1. LeasedTo(task, q)' \subseteq
              (LeasedTo(task, q) \ claim[q].recovered) \union {claim[q].pick}
        BY <2>1, LeaseLeases
      <4>2. QED BY <3>2, <4>1, AddOne
    <3>4. QED BY <3>1, <3>3
  <2>2. CASE ~ClaimLease(q)
    BY <1>2, <1>3, <2>2, NoMore
  <2>3. QED BY <2>1, <2>2
<1>5. ASSUME NEW q \in Runner, claim'[q].open
      PROVE  Cardinality(LeasedTo(task, q)' \ claim'[q].recovered) < Capacity
  <2>1. CASE claim[q].open /\ claim'[q].recovered = claim[q].recovered /\ ~ClaimLease(q)
    <3>1. LeasedTo(task, q)' \ claim'[q].recovered
            \subseteq LeasedTo(task, q) \ claim[q].recovered
      BY <1>3, <2>1
    <3>2. IsFiniteSet(LeasedTo(task, q) \ claim[q].recovered)
          /\ Cardinality(LeasedTo(task, q) \ claim[q].recovered) < Capacity
      BY <1>2, <2>1, FS_Difference DEF LoadInv, LoadBounded, ClaimsFit
    <3>3. QED BY <3>1, <3>2, NoMore
  <2>2. CASE /\ task' = task /\ claim'[q].recovered = ExpiredTasks
             /\ Cardinality(LeasedTo(Recovered(ExpiredTasks, 0), q)) < Capacity
    BY <1>1, <2>2, RecoveredLeases DEF LeasedTo
  <2>3. QED BY <1>1, <1>5, <2>1, <2>2, ClaimKinds
<1>6. QED BY <1>4, <1>5 DEF WithinCapacity, ClaimsFit

LEMMA NextLoad == QInv /\ QInv' /\ LoadInv /\ [Next]_vars => LoadInv'
  BY PresentStep, BacklogStep, LeasesStep DEF LoadInv, LoadBounded

\* The inductive invariant of the limits: besides them, that finitely many
\* tasks exist and that an open claim still has the slot it counted.
THEOREM LoadInvHolds == Spec => []LoadInv
  BY InitLoad, NextLoad, QInvHolds, PTL DEF Spec

\* No runner ever holds more leases than its slots and no user has as many
\* unfinished tasks as may wait and run together, however claims, enqueues, recoveries and
\* results overlap: the counts are read under the row locks of the user and of
\* the node, and nothing adds to what they count without the same lock.
THEOREM LoadStaysBounded == Spec => []LoadBounded
<1>1. LoadInv => LoadBounded
  BY DEF LoadInv
<1>2. QED BY <1>1, LoadInvHolds, PTL
=============================================================================
