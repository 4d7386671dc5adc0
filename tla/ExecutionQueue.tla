--------------------------- MODULE ExecutionQueue ---------------------------
(***************************************************************************)
(* The durable queue of code-execution requests: the ExecutionTask and     *)
(* RunnerNode tables of backend/execution, the operations of services.py   *)
(* and queue.py on them, and the Submission row that mirrors a grading     *)
(* task.                                                                   *)
(*                                                                         *)
(* Every operation is one database transaction and one action, except the  *)
(* claim of a task, which holds row locks while it works: it is modelled   *)
(* as a first step that locks (ClaimSelect) and a second one that commits  *)
(* (ClaimLease, ClaimRaced) or rolls back (ClaimAbort), so that claims of  *)
(* several runners, enqueues, results and recoveries interleave with it.   *)
(* The isolation is the READ COMMITTED of the MySQL settings: a plain read *)
(* sees committed rows and the transaction's own writes, SELECT ... FOR    *)
(* UPDATE waits for a locked row, SKIP LOCKED passes it over.              *)
(*                                                                         *)
(* A task is named by its position in creation order, which is the order   *)
(* (priority, queued_at, id) sorts by: every task has the default priority *)
(* and queued_at is never rewritten.  A task also stands for its (user,    *)
(* Idempotency-Key) pair, unique in the table: an enqueue that repeats a   *)
(* key finds the row and changes nothing.                                  *)
(*                                                                         *)
(* Time is kept as what is left of each deadline; Tick lets one unit pass. *)
(***************************************************************************)
EXTENDS Naturals, FiniteSets

CONSTANTS
  Task,          \* task ids, numbers in creation order
  User,
  Runner,
  NoUser,        \* owner of a row that does not exist yet
  NoRunner,      \* leased_by = ''
  Requested,     \* the kinds of task the users of this instance ask for
  Reported,      \* the result statuses the runners of this instance report
  QueueTTL,      \* EXECUTION_QUEUE_TTL_SECONDS, in ticks
  LeaseTTL,      \* EXECUTION_LEASE_SECONDS
  StaleAfter,    \* RUNNER_NODE_STALE_SECONDS
  MaxAttempts,   \* EXECUTION_MAX_ATTEMPTS
  QueuedLimit,   \* EXECUTION_USER_QUEUED_LIMIT
  RunningLimit,  \* EXECUTION_USER_RUNNING_LIMIT
  RequireHealthyRunner,  \* EXECUTION_REQUIRE_HEALTHY_RUNNER
  Capacity       \* the capacity every runner reports in its node heartbeat

RunStatuses   == {"succeeded", "runtime_error", "timed_out",
                  "resource_limited", "system_error"}
GradeStatuses == RunStatuses \union {"wrong_answer"}
FinalStatuses == GradeStatuses \union {"cancelled"}
TaskStatuses  == {"queued", "running"} \union FinalStatuses
Kinds         == {"run", "grade"}

ASSUME TaskAssumption == Task \subseteq Nat
ASSUME NamesAssumption == NoUser \notin User /\ NoRunner \notin Runner
ASSUME InputsAssumption == Requested \subseteq Kinds /\ Reported \subseteq GradeStatuses
ASSUME TimesAssumption ==
  /\ QueueTTL \in Nat \ {0}
  /\ LeaseTTL \in Nat \ {0}
  /\ StaleAfter \in Nat
ASSUME LimitsAssumption ==
  /\ MaxAttempts \in Nat \ {0}
  /\ QueuedLimit \in Nat
  /\ RunningLimit \in Nat \ {0}
  /\ RequireHealthyRunner \in BOOLEAN
  /\ Capacity \in Nat \ {0}

VARIABLES
  task,    \* [Task -> Row]: the committed ExecutionTask rows
  node,    \* [Runner -> Node]: the committed RunnerNode rows
  claim    \* [Runner -> Claim]: the claim transaction a runner has open

vars == <<task, node, claim>>

-----------------------------------------------------------------------------
(* Rows *)

\* What may be left of a span of n ticks.
UpTo(n) == 0..n

SubmissionStatuses == {"none", "pending", "running", "accepted",
                       "wrong_answer", "runtime_error", "timeout", "error"}

\* One ExecutionTask with the status of its Submission ("none" for a run).
\* ttl is what is left of expires_at while it is read, that is while queued;
\* lease is what is left of lease_expires_at.  token numbers the lease tokens
\* a task was given, 0 for ''; every claim draws a fresh one.
Row == [status   : TaskStatuses \union {"absent"},
        kind     : Kinds,
        user     : User \union {NoUser},
        ttl      : UpTo(QueueTTL),
        lease    : UpTo(LeaseTTL),
        leasedBy : Runner \union {NoRunner},
        token    : Nat,
        attempts : Nat,
        sub      : SubmissionStatuses]

Absent == [status |-> "absent", kind |-> "run", user |-> NoUser, ttl |-> 0,
           lease |-> 0, leasedBy |-> NoRunner, token |-> 0, attempts |-> 0,
           sub |-> "none"]

\* fresh is how long the last heartbeat still counts; a node with no row yet
\* is "unregistered".
Node == [status : {"unregistered", "online", "draining"},
         fresh  : UpTo(StaleAfter + 1)]

\* A claim transaction that has locked its task: the rows its recovery pass
\* rewrote (locked, uncommitted) and how long ago it read the clock.
NoClaim == [open |-> FALSE, pick |-> 0, recovered |-> {}, age |-> 0]

Claim == [open : BOOLEAN, pick : Nat, recovered : SUBSET Task, age : Nat]

\* What is left of a span that started age ago.
Left(span, age) == IF age >= span THEN 0 ELSE span - age

\* _submission_failure and the status updates of Submission rows: they touch
\* a row only if the task has one, that is for a grading task.
Marked(row, s) == IF row.kind = "grade" THEN s ELSE "none"

SubmissionStatus(result) ==
  CASE result = "succeeded"        -> "accepted"
    [] result = "wrong_answer"     -> "wrong_answer"
    [] result = "runtime_error"    -> "runtime_error"
    [] result = "timed_out"        -> "timeout"
    [] OTHER                       -> "error"

-----------------------------------------------------------------------------
(* recover_expired_tasks *)

\* Faulty: a lost lease is never found.
ExpiredWaiting(row) == row.status = "queued" /\ row.ttl = 0

\* Faulty: leases are found by their expiry, finished tasks included.
ExpiredByLease(row) == \/ row.status = "queued" /\ row.ttl = 0
                       \/ row.leasedBy # NoRunner /\ row.lease = 0

Expired(row) == \/ row.status = "queued"  /\ row.ttl = 0
                \/ row.status = "running" /\ row.lease = 0

ExpiredTasks == {t \in Task : Expired(task[t])}

CancelledRow(row) ==
  [row EXCEPT !.status = "cancelled", !.ttl = 0, !.sub = Marked(row, "error")]

\* Faulty: the submission is left as it was.
RequeuedTaskOnly(row, age) ==
  [row EXCEPT !.status = "queued", !.ttl = Left(QueueTTL, age), !.lease = 0,
              !.leasedBy = NoRunner, !.token = 0]

RequeuedRow(row, age) ==
  [row EXCEPT !.status = "queued", !.ttl = Left(QueueTTL, age), !.lease = 0,
              !.leasedBy = NoRunner, !.token = 0, !.sub = Marked(row, "pending")]

LostRow(row) ==
  [row EXCEPT !.status = "system_error", !.lease = 0, !.leasedBy = NoRunner,
              !.token = 0, !.sub = Marked(row, "error")]

\* Faulty: a lost lease is never retried.
RecoveredAsLost(row, age) ==
  IF row.status = "queued" THEN CancelledRow(row) ELSE LostRow(row)

RecoveredRow(row, age) ==
  IF row.status = "queued"            THEN CancelledRow(row)
  ELSE IF row.attempts < MaxAttempts  THEN RequeuedRow(row, age)
  ELSE                                     LostRow(row)

\* The table after recovering the rows in S, by a clock read age ago.
Recovered(S, age) ==
  [t \in Task |-> IF t \in S THEN RecoveredRow(task[t], age) ELSE task[t]]

\* The rows an open claim has locked.
LockedBy(r) == IF claim[r].open THEN claim[r].recovered \union {claim[r].pick}
                                ELSE {}
Locked == UNION {LockedBy(r) : r \in Runner}

\* The management command recover_execution_tasks; its SELECT ... FOR UPDATE
\* waits while an open claim holds one of the expired rows.
Recover ==
  /\ ExpiredTasks # {}
  /\ ExpiredTasks \intersect Locked = {}
  /\ task' = Recovered(ExpiredTasks, 0)
  /\ UNCHANGED <<node, claim>>

-----------------------------------------------------------------------------
(* services.py: enqueue_run, enqueue_grade and the quiz variants *)

WithStatus(tab, u, s) == {t \in Task : tab[t].user = u /\ tab[t].status = s}

RunnerAvailable ==
  \E r \in Runner : node[r].status = "online" /\ node[r].fresh > 0

QueuedRow(u, kind) ==
  [Absent EXCEPT !.status = "queued", !.kind = kind, !.user = u, !.ttl = QueueTTL,
                 !.sub = IF kind = "grade" THEN "pending" ELSE "none"]

\* The user row is locked while the two counts are read; a claim locks the
\* same row before it makes a task running.  The new id follows every other.
Enqueue(u, kind) ==
  \E t \in Task :
    /\ task[t].status = "absent"
    /\ \A other \in Task : other < t => task[other].status # "absent"
    /\ RequireHealthyRunner => RunnerAvailable
    /\ Cardinality(WithStatus(task, u, "running")) < RunningLimit
    /\ Cardinality(WithStatus(task, u, "queued")) < QueuedLimit
    /\ task' = [task EXCEPT ![t] = QueuedRow(u, kind)]
    /\ UNCHANGED <<node, claim>>

-----------------------------------------------------------------------------
(* claim_task *)

LeasedTo(tab, r) == {t \in Task : tab[t].status = "running" /\ tab[t].leasedBy = r}

HasRunning(tab, u) == \E t \in Task : tab[t].user = u /\ tab[t].status = "running"

\* Faulty: the task is read without a lock.
ClaimableUnlocked(tab, r) ==
  {t \in Task : /\ tab[t].status = "queued" /\ tab[t].ttl > 0
                /\ ~HasRunning(tab, tab[t].user)}

\* _lock_next_task over the table tab the transaction of r sees: queued, not
\* expired, of a user with nothing running, not locked by another transaction.
Claimable(tab, r) ==
  {t \in Task : /\ tab[t].status = "queued" /\ tab[t].ttl > 0
                /\ ~HasRunning(tab, tab[t].user)
                /\ t \notin UNION {LockedBy(q) : q \in Runner \ {r}}}

\* What every claim starts with: it has the node row to itself, recovery has
\* run on rows nobody else has locked, and the node may take work.  A claim
\* of a node that may not raises QueueError and takes its recovery back with
\* it, so it changes nothing and has no action.
ClaimReady(r) ==
  /\ ~claim[r].open
  /\ ExpiredTasks \intersect Locked = {}
  /\ node[r].status = "online"
  /\ node[r].fresh > 0

\* No slot left or nothing to take: the answer is "no task", and the recovery
\* pass that came first commits.
ClaimNothing(r) ==
  LET tab == Recovered(ExpiredTasks, 0) IN
  /\ ClaimReady(r)
  /\ \/ Cardinality(LeasedTo(tab, r)) >= Capacity
     \/ Claimable(tab, r) = {}
  /\ ExpiredTasks # {}
  /\ task' = tab
  /\ UNCHANGED <<node, claim>>

\* Faulty: the slots in use are not counted.
ClaimUncounted(r) ==
  LET tab == Recovered(ExpiredTasks, 0) IN
  /\ ClaimReady(r)
  /\ \E t \in Claimable(tab, r) :
       /\ \A other \in Claimable(tab, r) : t <= other
       /\ claim' = [claim EXCEPT ![r] = [open |-> TRUE, pick |-> t,
                                         recovered |-> ExpiredTasks, age |-> 0]]
  /\ UNCHANGED <<task, node>>

\* The next task is found and locked; nothing is committed yet.
ClaimSelect(r) ==
  LET tab == Recovered(ExpiredTasks, 0) IN
  /\ ClaimReady(r)
  /\ Cardinality(LeasedTo(tab, r)) < Capacity
  /\ \E t \in Claimable(tab, r) :
       /\ \A other \in Claimable(tab, r) : t <= other
       /\ claim' = [claim EXCEPT ![r] = [open |-> TRUE, pick |-> t,
                                         recovered |-> ExpiredTasks, age |-> 0]]
  /\ UNCHANGED <<task, node>>

\* The table the open claim of r commits, before its own update.
ClaimView(r) == Recovered(claim[r].recovered, claim[r].age)

\* Faulty: every lease of a task has the same token.
LeasedBySameToken(row, r, age) ==
  [row EXCEPT !.status = "running", !.ttl = 0, !.lease = Left(LeaseTTL, age),
              !.leasedBy = r, !.token = 1,
              !.attempts = row.attempts + 1, !.sub = Marked(row, "running")]

LeasedRow(row, r, age) ==
  [row EXCEPT !.status = "running", !.ttl = 0, !.lease = Left(LeaseTTL, age),
              !.leasedBy = r, !.token = row.attempts + 1,
              !.attempts = row.attempts + 1, !.sub = Marked(row, "running")]

\* Faulty: the user is not looked at again.
ClaimUnchecked(r) ==
  LET tab == ClaimView(r)
      t   == claim[r].pick IN
  /\ claim[r].open
  /\ task' = [tab EXCEPT ![t] = LeasedRow(tab[t], r, claim[r].age)]
  /\ claim' = [claim EXCEPT ![r] = NoClaim]
  /\ UNCHANGED node

\* The user row is locked and the user has nothing running: the lease starts.
ClaimLease(r) ==
  LET tab == ClaimView(r)
      t   == claim[r].pick IN
  /\ claim[r].open
  /\ ~HasRunning(tab, tab[t].user)
  /\ task' = [tab EXCEPT ![t] = LeasedRow(tab[t], r, claim[r].age)]
  /\ claim' = [claim EXCEPT ![r] = NoClaim]
  /\ UNCHANGED node

\* Another claim made a task of the same user running in between: no task.
ClaimRaced(r) ==
  /\ claim[r].open
  /\ HasRunning(ClaimView(r), ClaimView(r)[claim[r].pick].user)
  /\ task' = ClaimView(r)
  /\ claim' = [claim EXCEPT ![r] = NoClaim]
  /\ UNCHANGED node

\* The web process dies or the database aborts the transaction.
ClaimAbort(r) ==
  /\ claim[r].open
  /\ claim' = [claim EXCEPT ![r] = NoClaim]
  /\ UNCHANGED <<task, node>>

-----------------------------------------------------------------------------
(* heartbeat_task, complete_task, update_runner_node *)

\* _locked_leased_task: the row is locked and the caller holds its lease.
HoldsLease(t, r, k) ==
  /\ t \notin Locked
  /\ task[t].status # "absent"
  /\ task[t].leasedBy = r
  /\ task[t].token = k

HeartbeatTask(t, r, k) ==
  /\ HoldsLease(t, r, k)
  /\ task[t].status = "running"
  /\ task[t].lease > 0
  /\ task' = [task EXCEPT ![t].lease = LeaseTTL]
  /\ UNCHANGED <<node, claim>>

CompletedRow(row, result) ==
  [row EXCEPT !.status = result, !.lease = 0,
              !.sub = Marked(row, SubmissionStatus(result))]

\* A result for a task that is final already changes nothing (applied=False).
CompleteTask(t, r, k, result) ==
  /\ HoldsLease(t, r, k)
  /\ task[t].status = "running"
  /\ task[t].lease > 0
  /\ result \in IF task[t].kind = "grade" THEN GradeStatuses ELSE RunStatuses
  /\ task' = [task EXCEPT ![t] = CompletedRow(task[t], result)]
  /\ UNCHANGED <<node, claim>>

\* An open claim has the node row locked.
NodeHeartbeat(r, status) ==
  /\ ~claim[r].open
  /\ node' = [node EXCEPT ![r] = [status |-> status, fresh |-> StaleAfter + 1]]
  /\ UNCHANGED <<task, claim>>

-----------------------------------------------------------------------------

\* The longest span a clock read can be behind and still matter.
MaxAge == IF QueueTTL > LeaseTTL THEN QueueTTL ELSE LeaseTTL

Tick ==
  /\ task' = [t \in Task |-> [task[t] EXCEPT !.ttl = Left(task[t].ttl, 1),
                                             !.lease = Left(task[t].lease, 1)]]
  /\ node' = [r \in Runner |-> [node[r] EXCEPT !.fresh = Left(node[r].fresh, 1)]]
  /\ claim' = [r \in Runner |->
                 IF claim[r].open /\ claim[r].age < MaxAge
                 THEN [claim[r] EXCEPT !.age = claim[r].age + 1]
                 ELSE claim[r]]

Init ==
  /\ task = [t \in Task |-> Absent]
  /\ node = [r \in Runner |-> [status |-> "unregistered", fresh |-> 0]]
  /\ claim = [r \in Runner |-> NoClaim]

\* The tokens a task has handed out so far.
Tokens(t) == 1..task[t].attempts

RunnerStep(r) ==
  \/ ClaimNothing(r)
  \/ ClaimSelect(r)
  \/ ClaimLease(r)
  \/ ClaimRaced(r)
  \/ ClaimAbort(r)
  \/ \E status \in {"online", "draining"} : NodeHeartbeat(r, status)
  \/ \E t \in Task : \E k \in Tokens(t) :
       \/ HeartbeatTask(t, r, k)
       \/ \E result \in Reported : CompleteTask(t, r, k, result)

Next ==
  \/ \E u \in User, kind \in Requested : Enqueue(u, kind)
  \/ \E r \in Runner : RunnerStep(r)
  \/ Recover
  \/ Tick

Spec == Init /\ [][Next]_vars

\* Time passes; a claim transaction ends, one way or another; the recovery
\* command runs again and again and is granted its row locks in turn (they are
\* granted first come first served); a runner that keeps its lease alive reports
\* in the end, since every execution has a wall clock limit.  No claim, no
\* enqueue and no other heartbeat is promised.
Fairness ==
  /\ WF_vars(Tick)
  /\ \A r \in Runner : WF_vars(ClaimLease(r) \/ ClaimRaced(r) \/ ClaimAbort(r))
  /\ SF_vars(Recover)
  /\ \A t \in Task, r \in Runner : \A k \in 1..MaxAttempts :
       WF_vars(\E result \in Reported : CompleteTask(t, r, k, result))

FairSpec == Spec /\ Fairness

-----------------------------------------------------------------------------
(* Properties *)

\* Rows, nodes and claims have the shape of their tables.
TypeOK ==
  /\ task \in [Task -> Row]
  /\ node \in [Runner -> Node]
  /\ claim \in [Runner -> Claim]

\* A user never has two tasks running, whatever claims of whatever runners
\* overlap: the re-check claim_task makes once it has the user row.
OneRunningPerUser ==
  \A s, t \in Task :
    task[s].status = "running" /\ task[t].status = "running"
      /\ task[s].user = task[t].user => s = t

\* A runner never holds more leases than the slots it reported, claims that
\* overlap with recoveries and node heartbeats included.
WithinCapacity == \A r \in Runner : Cardinality(LeasedTo(task, r)) <= Capacity

\* A user has fewer unfinished tasks than the two limits add up to, with one running
\* task allowed no more than may wait, although enqueue looks at running and waiting
\* tasks one after the other, and although a lost lease puts a running task back into
\* the queue.
BacklogBounded ==
  \A u \in User :
    Cardinality(WithStatus(task, u, "queued") \union WithStatus(task, u, "running"))
      < QueuedLimit + RunningLimit

\* An open claim still has the free slot it counted: while it holds the node
\* row nothing else gives its runner a lease.
ClaimsFit ==
  \A r \in Runner : claim[r].open =>
    Cardinality(LeasedTo(task, r) \ claim[r].recovered) < Capacity

\* The limits on the load of runners and users hold together, whatever overlaps.
LoadBounded == WithinCapacity /\ ClaimsFit /\ BacklogBounded

\* A task is started at most MaxAttempts times, and one that waits still has
\* an attempt left.
AttemptsBounded ==
  \A t \in Task : /\ task[t].attempts <= MaxAttempts
                 /\ task[t].status = "queued" => task[t].attempts < MaxAttempts

\* What a claim has locked stays as it found it until it ends: the rows it
\* recovered are still expired, the task it picked can still be started; and no
\* row is locked by two claims.
ClaimsHoldTheirRows ==
  /\ \A r \in Runner : claim[r].open =>
       LET t == claim[r].pick IN
       /\ \A s \in claim[r].recovered : Expired(task[s])
       /\ t \in Task
       /\ \/ t \in claim[r].recovered /\ task[t].status = "running"
             /\ task[t].attempts < MaxAttempts
          \/ t \notin claim[r].recovered /\ task[t].status = "queued"
  /\ \A q, r \in Runner : q # r => LockedBy(q) \intersect LockedBy(r) = {}

\* What holds of every row: deadlines are used only in the status they are
\* for, only a task that runs or has run to its end names a runner, and attempts
\* stay within their limit.
RowInv(a) ==
  /\ a.status = "absent" => a.attempts = 0 /\ a.kind = "run"
  /\ a.status = "queued" => a.lease = 0 /\ a.attempts < MaxAttempts
  /\ a.status = "running" => a.ttl = 0
  /\ a.status \in FinalStatuses => a.ttl = 0 /\ a.lease = 0
  /\ a.status \in {"absent", "queued", "cancelled"} => a.leasedBy = NoRunner
  /\ a.attempts <= MaxAttempts

RowsHold == \A t \in Task : RowInv(task[t])

\* The inductive invariant of the queue.
QInv == TypeOK /\ RowsHold /\ ClaimsHoldTheirRows

\* What the student sees in the submission agrees with the task at all times:
\* claim, recovery and completion each update both rows.
SubmissionMirrorsTask ==
  \A t \in Task :
    task[t].kind = "grade" =>
      task[t].sub = CASE task[t].status = "queued"  -> "pending"
                      [] task[t].status = "running" -> "running"
                      [] OTHER -> SubmissionStatus(task[t].status)

\* A finished task never changes again: no late result, heartbeat, claim or
\* recovery reaches it.
ResultsStick ==
  [][\A t \in Task : task[t].status \in FinalStatuses => task'[t] = task[t]]_vars

\* A task that was accepted into the queue is finished in the end.
EveryTaskFinishes ==
  \A t \in Task : task[t].status = "queued" ~> task[t].status \in FinalStatuses

\* The task table seen as lifecycles: the status and the attempts of each row.
\* A system error without a lease holder is the one recovery wrote.
Phase(row) ==
  IF row.status = "system_error" /\ row.leasedBy = NoRunner THEN "lost" ELSE row.status

Lifecycle == INSTANCE TaskLifecycle WITH
               Outcome <- GradeStatuses,
               phase <- [t \in Task |-> Phase(task[t])],
               tries <- [t \in Task |-> task[t].attempts]

\* The queue keeps the promise of TaskLifecycle: a result only from the lease
\* that was held, no outcome without an execution, no retry beyond the limit.
RefinesLifecycle == Lifecycle!Spec

\* The message of a cancelled submission (queue.py:74) says that the code was
\* not executed.  No run lists this property: the README describes the
\* counterexample TLC finds.
CancelledMeansNotExecuted ==
  \A t \in Task : task[t].status = "cancelled" => task[t].attempts = 0
=============================================================================
