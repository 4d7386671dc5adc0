------------------------ MODULE RunnerProtocolProofs ------------------------
(***************************************************************************)
(* Theorems about RunnerProtocol for every number of runners, threads and  *)
(* tasks, with lost, late and repeated requests, crashes and restarts: the *)
(* queue keeps its invariants and its promise under the runners, a lease   *)
(* is worked on by one thread, and a report never meets another's result.  *)
(*                                                                         *)
(* The argument: a lease is named by its task and its token, tokens are    *)
(* drawn in sequence, and whatever is known about a lease, the thread at   *)
(* work on it or the report in flight, came from the one grant that drew   *)
(* its token.                                                              *)
(***************************************************************************)
EXTENDS RunnerProtocol, ExecutionQueueProofs

USE TaskAssumption, NamesAssumption, InputsAssumption, TimesAssumption,
    LimitsAssumption, WorkerAssumption, FaultsAssumption

-----------------------------------------------------------------------------
(* The queue under the runners *)

\* A runner may report any result, not only those of Reported; the queue takes
\* it as it takes those.
LEMMA LeaseHolderStep ==
  ASSUME QInv, NEW s \in Task, NEW r \in Runner, NEW k, NEW result,
         HeartbeatTask(s, r, k) \/ CompleteTask(s, r, k, result)
  PROVE  /\ QInv'
         /\ \A t \in Task : Quiet(task[t], task'[t])
         /\ claim' = claim
<1>1. TypeOK /\ ClaimsHoldTheirRows /\ RowsHold
  BY DEF QInv
<1>2. ASSUME NEW t \in Task PROVE Quiet(task[t], task'[t])
  <2>1. CASE HeartbeatTask(s, r, k)
    BY <1>1, <2>1 DEF HeartbeatTask, TypeOK, Quiet, Calm, Renewed
  <2>2. CASE CompleteTask(s, r, k, result)
    BY <1>1, <2>2, CompleteRows
  <2>3. QED BY <2>1, <2>2
<1>3. TypeOK'
  <2>1. CASE HeartbeatTask(s, r, k)
    <3>1. [task[s] EXCEPT !.lease = LeaseTTL] \in Row
      BY <1>1, UpToFacts DEF TypeOK, Row
    <3>2. QED BY <1>1, <2>1, <3>1 DEF HeartbeatTask, TypeOK
  <2>2. CASE CompleteTask(s, r, k, result)
    <3>1. result \in GradeStatuses
      BY <2>2 DEF CompleteTask, GradeStatuses
    <3>2. CompletedRow(task[s], result) \in Row
      BY <1>1, <3>1, CompletedRowType DEF TypeOK
    <3>3. QED BY <1>1, <2>2, <3>2 DEF CompleteTask, TypeOK
  <2>3. QED BY <2>1, <2>2
<1>4. RowsHold'
  BY <1>1, <1>2, <1>3, RowStepInv DEF RowStep, RowsHold, TypeOK
<1>5. claim' = claim /\ s \notin Locked
      /\ \A t \in Task : t # s => task'[t] = task[t]
  BY <1>1 DEF HeartbeatTask, CompleteTask, HoldsLease, TypeOK
<1>6. ClaimsHoldTheirRows'
  <2>1. ASSUME NEW q \in Runner, NEW t \in LockedBy(q) PROVE task'[t] = task[t]
    <3>1. t \in Task /\ t \in Locked
      BY <1>1, LockedRows DEF Locked
    <3>2. QED BY <1>5, <3>1
  <2>2. QED BY <1>1, <1>5, <2>1, KeepClaims
<1>7. QED BY <1>2, <1>3, <1>4, <1>5, <1>6 DEF QInv

\* A request about a task is of a thread of a runner.
LEMMA MessageFacts ==
  ASSUME ProtocolTypeOK, NEW m \in mail
  PROVE  /\ m.kind \in {"claim", "beat", "done", "node"}
         /\ m.kind = "claim" => m.runner \in Runner /\ m.from \in Worker \union {NoWorker}
                                /\ m = ClaimRequest(m.runner, m.from)
         /\ m.kind \in {"beat", "done"} =>
              m.from \in Worker /\ RunnerOf[m.from] \in Runner
              /\ m.task \in Task /\ m.token \in Nat
         /\ m.kind = "done" => m.result \in GradeStatuses
         /\ m.kind = "node" => m.from \in Runner /\ m.status \in {"online", "draining"}
<1>1. m \in Message
  BY DEF ProtocolTypeOK
<1>2. CASE m \in [kind : {"claim"}, runner : Runner, from : Worker \union {NoWorker}]
  BY <1>2 DEF ClaimRequest
<1>3. CASE m \in [kind : {"beat"}, from : Worker, task : Task, token : Nat]
  BY <1>3
<1>4. CASE m \in [kind : {"done"}, from : Worker, task : Task, token : Nat,
                  result : GradeStatuses]
  BY <1>4
<1>5. CASE m \in [kind : {"node"}, from : Runner, status : {"online", "draining"}]
  BY <1>5
<1>6. QED BY <1>1, <1>2, <1>3, <1>4, <1>5 DEF Message

\* What the protocol does to the queue: nothing, a step of the queue's own, or a
\* step of the holder of a lease.
LEMMA ProtocolQueueStep ==
  ASSUME ProtocolTypeOK, [ProtocolNext]_allvars
  PROVE  \/ [Next]_vars
         \/ \E s \in Task, r \in Runner : \E k, result :
              HeartbeatTask(s, r, k) \/ CompleteTask(s, r, k, result)
<1>1. ASSUME NEW r \in Runner, ProcessStep(r) PROVE [Next]_vars
  BY <1>1 DEF ProcessStep, StartRunner, SendNodeBeat, RequestStop, GraceOver,
              StopRunner, Crash, Next, RunnerStep
<1>2. ASSUME NEW w \in Worker, WorkerStep(w) PROVE [Next]_vars
  BY <1>2 DEF WorkerStep, StartClaim, ClaimGivesUp, SendTaskBeat, FinishExecution,
              ReportGivesUp
<1>3. ASSUME NEW r \in Runner, Grant(r) \/ GrantNothing(r) PROVE [Next]_vars
  BY <1>3 DEF Grant, GrantNothing, Next, RunnerStep
<1>4. ASSUME NEW m \in mail, ServeClaim(m) \/ ServeNothing(m) PROVE [Next]_vars
  <2>1. m.runner \in Runner
    BY <1>4, MessageFacts DEF ServeClaim, ServeNothing
  <2>2. QED BY <1>4, <2>1 DEF ServeClaim, ServeNothing, Next, RunnerStep
<1>5. ASSUME NEW m \in mail, ServeNodeBeat(m) PROVE [Next]_vars
  <2>1. m.from \in Runner /\ m.status \in {"online", "draining"}
    BY <1>5, MessageFacts DEF ServeNodeBeat
  <2>2. QED BY <1>5, <2>1 DEF ServeNodeBeat, Next, RunnerStep
<1>6. ASSUME NEW m \in mail, RefuseLease(m) \/ ConfirmResult(m) \/ LoseRequest(m)
      PROVE  [Next]_vars
  BY <1>6 DEF RefuseLease, ConfirmResult, LoseRequest
<1>7. ASSUME NEW m \in mail, RenewLease(m) \/ StoreResult(m)
      PROVE  \E s \in Task, r \in Runner : \E k, result :
               HeartbeatTask(s, r, k) \/ CompleteTask(s, r, k, result)
  <2>1. m.task \in Task /\ RunnerOf[m.from] \in Runner
    BY <1>7, MessageFacts DEF RenewLease, StoreResult
  <2>2. CASE RenewLease(m)
    BY <2>1, <2>2 DEF RenewLease
  <2>3. CASE StoreResult(m)
    BY <2>1, <2>3 DEF StoreResult
  <2>4. QED BY <1>7, <2>2, <2>3
<1>8. CASE QueueStep
  BY <1>8 DEF QueueStep, Next
<1>9. CASE UNCHANGED allvars
  BY <1>9 DEF allvars
<1>10. QED
  BY <1>1, <1>2, <1>3, <1>4, <1>5, <1>6, <1>7, <1>8, <1>9 DEF ProtocolNext, WebStep

LEMMA ProtocolKeepsQInv ==
  ASSUME QInv, ProtocolTypeOK, [ProtocolNext]_allvars
  PROVE  /\ QInv'
         /\ \A t \in Task : RowStep(task[t], task'[t])
<1>1. CASE [Next]_vars
  BY <1>1, NextQInv, StepRows
<1>2. ASSUME NEW s \in Task, NEW r \in Runner, NEW k, NEW result,
             HeartbeatTask(s, r, k) \/ CompleteTask(s, r, k, result)
      PROVE  QInv' /\ \A t \in Task : RowStep(task[t], task'[t])
  BY <1>2, LeaseHolderStep DEF RowStep
<1>3. QED BY <1>1, <1>2, ProtocolQueueStep

-----------------------------------------------------------------------------
(* Processes, threads and requests *)

\* The state of the runners alone.
RunnersTypeOK ==
  /\ process \in [Runner -> ProcessState]
  /\ worker \in [Worker -> Thread]
  /\ active \in [Runner -> [Task -> Worker \union {NoWorker}]]
  /\ serving \in [Runner -> Worker \union {NoWorker}]
  /\ mail \subseteq Message

LEMMA ThreadFacts ==
  /\ Idle \in Thread
  /\ NoneActive \in [Task -> Worker \union {NoWorker}]
  /\ \A a \in Thread : a.at \in {"idle", "claiming", "executing", "reporting"}
                        /\ a.token \in Nat
  /\ \A a \in Thread, at \in {"idle", "claiming", "executing", "reporting"} :
            /\ [a EXCEPT !.at = at] \in Thread /\ [a EXCEPT !.at = at].at = at
            /\ [a EXCEPT !.at = at].task = a.task /\ [a EXCEPT !.at = at].token = a.token
  /\ \A a \in Thread, end \in Ends :
            /\ [a EXCEPT !.end = end] \in Thread /\ [a EXCEPT !.end = end].at = a.at
            /\ [a EXCEPT !.end = end].task = a.task
            /\ [a EXCEPT !.end = end].token = a.token
<1>1. Idle \in Thread
  BY DEF Idle, Thread, Ends
<1>2. NoneActive \in [Task -> Worker \union {NoWorker}]
  BY DEF NoneActive
<1>3. QED BY <1>1, <1>2 DEF Thread

LEMMA OrphanedType ==
  ASSUME ProtocolTypeOK, NEW S
  PROVE  Orphaned(S) \subseteq Message
<1>1. \A m \in mail : m \in Message
  BY DEF ProtocolTypeOK
<1>2. ASSUME NEW m \in mail, m.kind = "claim"
      PROVE  ClaimRequest(m.runner, NoWorker) \in Message
  BY <1>2, MessageFacts DEF ClaimRequest, Message
<1>3. QED BY <1>1, <1>2 DEF Orphaned

\* A thread at work knows the task it is at.
LEMMA BusyFacts ==
  ASSUME ProtocolTypeOK, LeasesKnown, NEW w \in Worker, Busy(w)
  PROVE  /\ worker[w].task \in Task /\ worker[w].token \in Nat
         /\ worker[w].token \in Tokens(worker[w].task)
         /\ RunnerOf[w] \in Runner
  BY DEF ProtocolTypeOK, Thread, LeasesKnown

LEMMA VerdictType ==
  ASSUME NEW end PROVE Verdicts(end) \subseteq GradeStatuses
  BY DEF Verdicts, GradeStatuses, RunStatuses

LEMMA ReleasedType ==
  ASSUME ProtocolTypeOK, NEW w \in Worker
  PROVE  Released(w) \in [Runner -> [Task -> Worker \union {NoWorker}]]
<1>1. active \in [Runner -> [Task -> Worker \union {NoWorker}]]
  BY DEF ProtocolTypeOK
<1>2. QED BY <1>1 DEF Released

LEMMA ThreadsEndType ==
  ASSUME ProtocolTypeOK, NEW r \in Runner, ThreadsEnd(r)
  PROVE  /\ worker' \in [Worker -> Thread]
         /\ active' \in [Runner -> [Task -> Worker \union {NoWorker}]]
         /\ serving' \in [Runner -> Worker \union {NoWorker}]
         /\ mail' \subseteq Message
<1>1. /\ worker \in [Worker -> Thread] /\ serving \in [Runner -> Worker \union {NoWorker}]
      /\ active \in [Runner -> [Task -> Worker \union {NoWorker}]]
  BY DEF ProtocolTypeOK
<1>2. worker' \in [Worker -> Thread]
  BY <1>1, ThreadFacts DEF ThreadsEnd
<1>3. active' \in [Runner -> [Task -> Worker \union {NoWorker}]]
  BY <1>1, ThreadFacts DEF ThreadsEnd
<1>4. serving' \in [Runner -> Worker \union {NoWorker}]
  BY <1>1 DEF ThreadsEnd, NotServing
<1>5. QED BY <1>2, <1>3, <1>4, OrphanedType DEF ThreadsEnd

LEMMA ProcessStepType ==
  ASSUME ProtocolTypeOK, NEW r \in Runner, ProcessStep(r)
  PROVE  RunnersTypeOK'
<1>1. RunnersTypeOK
  BY DEF ProtocolTypeOK, RunnersTypeOK
<1>2. CASE StartRunner(r)
  BY <1>1, <1>2 DEF StartRunner, RunnersTypeOK, ProcessState
<1>3. CASE SendNodeBeat(r)
  BY <1>1, <1>3 DEF SendNodeBeat, RunnersTypeOK, NodeRequest, Message
<1>4. CASE RequestStop(r)
  BY <1>1, <1>4 DEF RequestStop, RunnersTypeOK, NodeRequest, Message, ProcessState
<1>5. CASE GraceOver(r)
  <2>1. ASSUME NEW w \in Worker
        PROVE  (IF w \in ThreadsOf(r) /\ worker[w].at = "executing"
                THEN [worker[w] EXCEPT !.end =
                        IF w \in ActiveSlots(r) \/ @ = "cancelled"
                        THEN "cancelled_killed" ELSE "killed"]
                ELSE worker[w]) \in Thread
    <3>1. worker[w] \in Thread
      BY <1>1 DEF RunnersTypeOK
    <3>2. QED BY <3>1 DEF Thread, Ends
  <2>2. worker' \in [Worker -> Thread]
    BY <1>5, <2>1 DEF GraceOver
  <2>3. process' \in [Runner -> ProcessState]
    BY <1>1, <1>5 DEF GraceOver, RunnersTypeOK, ProcessState
  <2>4. QED BY <1>1, <1>5, <2>2, <2>3 DEF GraceOver, RunnersTypeOK
<1>6. CASE StopRunner(r)
  BY <1>1, <1>6, ThreadsEndType DEF StopRunner, RunnersTypeOK, ProcessState
<1>7. CASE Crash(r)
  BY <1>1, <1>7, ThreadsEndType DEF Crash, RunnersTypeOK, ProcessState
<1>8. QED BY <1>2, <1>3, <1>4, <1>5, <1>6, <1>7 DEF ProcessStep

LEMMA WorkerStepType ==
  ASSUME ProtocolTypeOK, LeasesKnown, NEW w \in Worker, WorkerStep(w)
  PROVE  RunnersTypeOK'
<1>1. RunnersTypeOK /\ RunnerOf[w] \in Runner
  BY DEF ProtocolTypeOK, RunnersTypeOK
<1>2. worker[w] \in Thread
  BY <1>1 DEF RunnersTypeOK
<1>3. CASE StartClaim(w)
  <2>1. ClaimRequest(RunnerOf[w], w) \in Message
    BY <1>1 DEF ClaimRequest, Message
  <2>2. [worker[w] EXCEPT !.at = "claiming"] \in Thread
    BY <1>2, ThreadFacts
  <2>3. QED BY <1>1, <1>3, <2>1, <2>2 DEF StartClaim, RunnersTypeOK
<1>4. CASE ClaimGivesUp(w)
  <2>1. serving' \in [Runner -> Worker \union {NoWorker}]
    BY <1>1, <1>4 DEF ClaimGivesUp, NotServing, RunnersTypeOK
  <2>2. worker' \in [Worker -> Thread]
    BY <1>1, <1>4, ThreadFacts DEF ClaimGivesUp, RunnersTypeOK
  <2>3. QED BY <1>1, <1>4, <2>1, <2>2, OrphanedType DEF ClaimGivesUp, RunnersTypeOK
<1>5. CASE SendTaskBeat(w)
  <2>1. BeatRequest(w) \in Message
    BY <1>5, BusyFacts DEF SendTaskBeat, BeatRequest, Message
  <2>2. QED BY <1>1, <1>5, <2>1 DEF SendTaskBeat, RunnersTypeOK
<1>6. CASE FinishExecution(w)
  <2>1. Busy(w)
    BY <1>6 DEF FinishExecution, Busy
  <2>2. ASSUME NEW result \in Verdicts(worker[w].end)
        PROVE  DoneRequest(w, result) \in Message
    <3>1. result \in GradeStatuses
      BY VerdictType
    <3>2. QED BY <2>1, <3>1, BusyFacts DEF DoneRequest, Message
  <2>3. [worker[w] EXCEPT !.at = "reporting"] \in Thread
    BY <1>2, ThreadFacts
  <2>4. QED BY <1>1, <1>6, <2>2, <2>3 DEF FinishExecution, RunnersTypeOK
<1>7. CASE ReportGivesUp(w)
  <2>1. worker' \in [Worker -> Thread]
    BY <1>1, <1>7, ThreadFacts DEF ReportGivesUp, RunnersTypeOK
  <2>2. QED BY <1>1, <1>7, <2>1, ReleasedType DEF ReportGivesUp, RunnersTypeOK
<1>8. QED BY <1>3, <1>4, <1>5, <1>6, <1>7 DEF WorkerStep

\* The lease a claim commits is the next one of its task.
LEMMA GrantedLease ==
  ASSUME QInv, NEW r \in Runner, ClaimLease(r)
  PROVE  LET t == claim[r].pick
             k == LeasedRow(ClaimView(r)[t], r, claim[r].age).token IN
         /\ t \in Task /\ k \in Nat /\ k = task[t].attempts + 1
         /\ task'[t].attempts = k /\ task'[t].status = "running"
<1> DEFINE t == claim[r].pick
           row == ClaimView(r)[t]
<1>1. /\ claim[r].open /\ claim[r].age \in Nat /\ task \in [Task -> Row] /\ TypeOK
  BY DEF QInv, ClaimLease, TypeOK, Claim
<1>2. t \in Task
  BY <1>1 DEF QInv, ClaimsHoldTheirRows
<1>3. row \in Row /\ ClaimView(r) \in [Task -> Row]
  <2>1. ClaimView(r) \in [Task -> Row]
    BY <1>1, RecoveredType DEF ClaimView
  <2>2. QED BY <1>2, <2>1
<1>4. task'[t] = LeasedRow(row, r, claim[r].age)
  BY <1>2, <1>3 DEF ClaimLease
<1>5. row.attempts = task[t].attempts
  <2>1. task[t] \in Row
    BY <1>1, <1>2
  <2>2. CASE t \in claim[r].recovered
    <3>1. row = RecoveredRow(task[t], claim[r].age)
      BY <1>2, <2>2 DEF ClaimView, Recovered
    <3>2. QED BY <2>1, <3>1 DEF RecoveredRow, CancelledRow, RequeuedRow, LostRow, Row
  <2>3. CASE t \notin claim[r].recovered
    BY <1>2, <2>3 DEF ClaimView, Recovered
  <2>4. QED BY <2>2, <2>3
<1> HIDE DEF row
<1>6. /\ LeasedRow(row, r, claim[r].age).token = row.attempts + 1
      /\ LeasedRow(row, r, claim[r].age).attempts = row.attempts + 1
      /\ LeasedRow(row, r, claim[r].age).status = "running"
      /\ row.attempts + 1 \in Nat
  BY <1>3 DEF LeasedRow, Row
<1>7. QED BY <1>2, <1>4, <1>5, <1>6 DEF row

LEMMA WebStepType ==
  ASSUME QInv, ProtocolTypeOK, LeasesKnown, WebStep
  PROVE  RunnersTypeOK'
<1>1. RunnersTypeOK
  BY DEF ProtocolTypeOK, RunnersTypeOK
<1>2. ASSUME NEW r \in Runner, Grant(r) PROVE RunnersTypeOK'
  <2> DEFINE w == serving[r]
             t == claim[r].pick
             k == LeasedRow(ClaimView(r)[t], r, claim[r].age).token
  <2>1. t \in Task /\ k \in Nat
    BY <1>2, GrantedLease DEF Grant
  <2>2. w \in Worker \union {NoWorker}
    BY <1>1 DEF RunnersTypeOK
  <2>3. /\ UNCHANGED <<process, mail>>
        /\ serving' = [serving EXCEPT ![r] = NoWorker]
        /\ \/ /\ w # NoWorker
              /\ worker' = [worker EXCEPT ![w] = [at |-> "executing", task |-> t,
                                                  token |-> k, end |-> "own"]]
              /\ active' = [active EXCEPT ![r][t] = w]
           \/ UNCHANGED <<worker, active>>
    BY <1>2 DEF Grant
  <2> HIDE DEF w, t, k
  <2>4. [at |-> "executing", task |-> t, token |-> k, end |-> "own"] \in Thread
    BY <2>1 DEF Thread, Ends
  <2>5. worker' \in [Worker -> Thread]
    BY <1>1, <2>3, <2>4 DEF RunnersTypeOK
  <2>6. active' \in [Runner -> [Task -> Worker \union {NoWorker}]]
    BY <1>1, <2>1, <2>2, <2>3 DEF RunnersTypeOK
  <2>7. QED BY <1>1, <2>3, <2>5, <2>6 DEF RunnersTypeOK
<1>3. ASSUME NEW r \in Runner, GrantNothing(r) PROVE RunnersTypeOK'
  BY <1>1, <1>3 DEF GrantNothing, RunnersTypeOK
<1>4. ASSUME NEW m \in mail, ServeClaim(m) PROVE RunnersTypeOK'
  <2>1. m.runner \in Runner /\ m.from \in Worker \union {NoWorker}
    BY <1>4, MessageFacts DEF ServeClaim
  <2>2. QED BY <1>1, <1>4, <2>1 DEF ServeClaim, RunnersTypeOK
<1>5. ASSUME NEW m \in mail,
             ServeNothing(m) \/ ServeNodeBeat(m) \/ RenewLease(m) \/ LoseRequest(m)
      PROVE  RunnersTypeOK'
  BY <1>1, <1>5 DEF ServeNothing, ServeNodeBeat, RenewLease, LoseRequest, RunnersTypeOK
<1>6. ASSUME NEW m \in mail, RefuseLease(m) PROVE RunnersTypeOK'
  <2>1. m.from \in Worker /\ worker[m.from] \in Thread
    BY <1>1, <1>6, MessageFacts DEF RefuseLease, RunnersTypeOK
  <2>2. [worker[m.from] EXCEPT !.end = "cancelled"] \in Thread
    BY <2>1, ThreadFacts DEF Ends
  <2>3. worker' \in [Worker -> Thread]
    BY <1>1, <1>6, <2>1, <2>2 DEF RefuseLease, RunnersTypeOK
  <2>4. QED BY <1>1, <1>6, <2>3 DEF RefuseLease, RunnersTypeOK
<1>7. ASSUME NEW m \in mail, StoreResult(m) PROVE RunnersTypeOK'
  BY <1>1, <1>7 DEF StoreResult, rvars, RunnersTypeOK
<1>8. ASSUME NEW m \in mail, ConfirmResult(m) PROVE RunnersTypeOK'
  <2>1. m.from \in Worker
    BY <1>8, MessageFacts DEF ConfirmResult
  <2>2. worker' \in [Worker -> Thread]
    <3>1. Idle \in Thread /\ worker \in [Worker -> Thread]
      BY <1>1, ThreadFacts DEF RunnersTypeOK
    <3>2. worker' = worker \/ worker' = [worker EXCEPT ![m.from] = Idle]
      BY <1>8 DEF ConfirmResult
    <3>3. QED BY <3>1, <3>2
  <2>3. active' \in [Runner -> [Task -> Worker \union {NoWorker}]]
    BY <1>1, <1>8, <2>1, ReleasedType DEF ConfirmResult, RunnersTypeOK
  <2>4. QED BY <1>1, <1>8, <2>2, <2>3 DEF ConfirmResult, RunnersTypeOK
<1>9. QED BY <1>2, <1>3, <1>4, <1>5, <1>6, <1>7, <1>8 DEF WebStep

LEMMA ProtocolKeepsTypes ==
  ASSUME QInv, ProtocolTypeOK, LeasesKnown, [ProtocolNext]_allvars
  PROVE  ProtocolTypeOK'
<1>1. TypeOK'
  BY ProtocolKeepsQInv DEF QInv
<1>2. CASE QueueStep \/ UNCHANGED allvars
  BY <1>1, <1>2 DEF QueueStep, allvars, rvars, ProtocolTypeOK
<1>3. RunnersTypeOK' => ProtocolTypeOK'
  BY <1>1 DEF RunnersTypeOK, ProtocolTypeOK
<1>4. QED
  BY <1>2, <1>3, ProcessStepType, WorkerStepType, WebStepType DEF ProtocolNext

-----------------------------------------------------------------------------
(* Claims that are waited for *)

\* A step that sends and serves no claim, and after which every thread that is
\* still waited for still waits.
LEMMA KeepAwaited ==
  ASSUME ClaimsAwaited,
         \A m \in mail' : m.kind = "claim" /\ m.from # NoWorker =>
           m \in mail /\ worker'[m.from].at = worker[m.from].at,
         \A r \in Runner :
           /\ serving'[r] \in {serving[r], NoWorker}
           /\ serving'[r] # NoWorker => /\ claim'[r].open = claim[r].open
                                        /\ worker'[serving[r]].at = worker[serving[r]].at,
         \A m \in mail' : m.kind = "claim" => m.runner \in Runner
  PROVE  ClaimsAwaited'
<1>1. ASSUME NEW m \in mail', m.kind = "claim", m.from # NoWorker
      PROVE  /\ RunnerOf[m.from] = m.runner /\ worker'[m.from].at = "claiming"
             /\ serving'[m.runner] # m.from
  <2>1. /\ RunnerOf[m.from] = m.runner /\ worker[m.from].at = "claiming"
        /\ serving[m.runner] # m.from
    BY <1>1 DEF ClaimsAwaited
  <2>2. QED BY <1>1, <2>1
<1>2. ASSUME NEW r \in Runner, serving'[r] # NoWorker
      PROVE  /\ claim'[r].open /\ RunnerOf[serving'[r]] = r
             /\ worker'[serving'[r]].at = "claiming"
  BY <1>2 DEF ClaimsAwaited
<1>3. QED BY <1>1, <1>2 DEF ClaimsAwaited

\* Threads that end, or do not wait any longer.
LEMMA AwaitedGone ==
  ASSUME ProtocolTypeOK, ClaimsAwaited, NEW S \in SUBSET Worker,
         mail' = Orphaned(S), serving' = NotServing(S), claim' = claim,
         \A w \in Worker : w \notin S => worker'[w] = worker[w]
  PROVE  ClaimsAwaited'
<1>1. ASSUME NEW m \in mail', m.kind = "claim"
      PROVE  /\ m.runner \in Runner
             /\ m.from # NoWorker => m \in mail /\ m.from \in Worker /\ m.from \notin S
  <2>1. CASE m \in mail /\ (m.kind # "claim" \/ m.from \notin S)
    BY <1>1, <2>1, MessageFacts
  <2>2. ASSUME NEW n \in mail, n.kind = "claim", m = ClaimRequest(n.runner, NoWorker)
        PROVE  m.runner \in Runner /\ m.from = NoWorker
    BY <2>2, MessageFacts DEF ClaimRequest
  <2>3. QED BY <2>1, <2>2 DEF Orphaned
<1>2. ASSUME NEW r \in Runner
      PROVE  /\ serving'[r] \in {serving[r], NoWorker}
             /\ serving'[r] # NoWorker => serving[r] \in Worker /\ serving[r] \notin S
  BY DEF NotServing, ProtocolTypeOK
<1>3. QED BY <1>1, <1>2, KeepAwaited

LEMMA ProcessStepAwaited ==
  ASSUME ProtocolTypeOK, ClaimsAwaited, NEW r \in Runner, ProcessStep(r)
  PROVE  ClaimsAwaited'
<1>1. \A m \in mail : m.kind = "claim" => m.runner \in Runner /\
                        m.from \in Worker \union {NoWorker}
  BY MessageFacts
<1>2. serving \in [Runner -> Worker \union {NoWorker}] /\ worker \in [Worker -> Thread]
  BY DEF ProtocolTypeOK
<1>3. CASE StartRunner(r)
  BY <1>1, <1>3, KeepAwaited DEF StartRunner, NodeHeartbeat
<1>4. CASE SendNodeBeat(r)
  BY <1>1, <1>4, KeepAwaited DEF SendNodeBeat, NodeRequest, vars
<1>5. CASE RequestStop(r)
  BY <1>1, <1>5, KeepAwaited DEF RequestStop, NodeRequest, vars
<1>6. CASE GraceOver(r)
  <2>1. ASSUME NEW w \in Worker PROVE worker'[w].at = worker[w].at
    <3>1. worker[w] \in Thread
      BY <1>2
    <3>2. QED BY <1>6, <3>1 DEF GraceOver, Thread
  <2>2. /\ mail' = mail /\ serving' = serving /\ claim' = claim
    BY <1>6 DEF GraceOver, vars
  <2>3. QED BY <1>1, <1>2, <2>1, <2>2, KeepAwaited
<1>7. CASE StopRunner(r) \/ Crash(r)
  <2>1. ThreadsEnd(r) /\ claim' = claim
    BY <1>7 DEF StopRunner, Crash, vars
  <2>2. ThreadsOf(r) \in SUBSET Worker
    BY DEF ThreadsOf
  <2>3. QED BY <2>1, <2>2, AwaitedGone DEF ThreadsEnd
<1>8. QED BY <1>3, <1>4, <1>5, <1>6, <1>7 DEF ProcessStep

LEMMA WorkerStepAwaited ==
  ASSUME ProtocolTypeOK, ClaimsAwaited, NEW w \in Worker, WorkerStep(w)
  PROVE  ClaimsAwaited'
<1>1. \A m \in mail : m.kind = "claim" => m.runner \in Runner /\
                        m.from \in Worker \union {NoWorker}
  BY MessageFacts
<1>2. /\ serving \in [Runner -> Worker \union {NoWorker}] /\ worker \in [Worker -> Thread]
      /\ worker[w] \in Thread
  BY DEF ProtocolTypeOK
<1>3. CASE StartClaim(w)
  <2>1. /\ worker[w].at = "idle"
        /\ worker' = [worker EXCEPT ![w].at = "claiming"]
        /\ mail' = mail \union {ClaimRequest(RunnerOf[w], w)}
        /\ serving' = serving /\ claim' = claim
    BY <1>3 DEF StartClaim, vars
  <2>2. worker'[w].at = "claiming" /\ \A v \in Worker : v # w => worker'[v] = worker[v]
    BY <1>2, <2>1 DEF Thread
  <2>3. ASSUME NEW r \in Runner, serving'[r] # NoWorker
        PROVE  /\ claim'[r].open /\ RunnerOf[serving'[r]] = r
               /\ worker'[serving'[r]].at = "claiming" /\ serving[r] # w
    <3>1. /\ claim[r].open /\ RunnerOf[serving[r]] = r
          /\ worker[serving[r]].at = "claiming" /\ serving[r] \in Worker
      BY <1>2, <2>1, <2>3 DEF ClaimsAwaited
    <3>2. serving[r] # w
      BY <2>1, <3>1
    <3>3. QED BY <2>1, <2>2, <3>1, <3>2
  <2>4. ASSUME NEW m \in mail', m.kind = "claim", m.from # NoWorker
        PROVE  /\ RunnerOf[m.from] = m.runner /\ worker'[m.from].at = "claiming"
               /\ serving'[m.runner] # m.from
    <3>1. CASE m \in mail
      <4>1. /\ RunnerOf[m.from] = m.runner /\ worker[m.from].at = "claiming"
            /\ serving[m.runner] # m.from /\ m.from \in Worker
        BY <1>1, <2>4, <3>1 DEF ClaimsAwaited
      <4>2. m.from # w
        BY <2>1, <4>1
      <4>3. QED BY <2>1, <2>2, <4>1, <4>2
    <3>2. CASE m = ClaimRequest(RunnerOf[w], w)
      <4>1. m.runner = RunnerOf[w] /\ m.from = w /\ RunnerOf[w] \in Runner
        BY <3>2 DEF ClaimRequest
      <4>2. serving[RunnerOf[w]] # w
        BY <2>1, <2>3, <4>1
      <4>3. QED BY <2>1, <2>2, <4>1, <4>2
    <3>3. QED BY <2>1, <3>1, <3>2
  <2>5. QED BY <2>3, <2>4 DEF ClaimsAwaited
<1>4. CASE ClaimGivesUp(w)
  <2>1. /\ mail' = Orphaned({w}) /\ serving' = NotServing({w}) /\ claim' = claim
        /\ worker' = [worker EXCEPT ![w] = Idle]
    BY <1>4 DEF ClaimGivesUp, vars
  <2>2. \A v \in Worker : v \notin {w} => worker'[v] = worker[v]
    BY <1>2, <2>1
  <2>3. QED BY <2>1, <2>2, AwaitedGone
<1>5. CASE SendTaskBeat(w)
  BY <1>1, <1>5, KeepAwaited DEF SendTaskBeat, BeatRequest, vars
<1>6. ASSUME FinishExecution(w) \/ ReportGivesUp(w) PROVE ClaimsAwaited'
  <2>1. /\ worker[w].at # "claiming" /\ serving' = serving /\ claim' = claim
        /\ \A v \in Worker : v # w => worker'[v] = worker[v]
    BY <1>2, <1>6 DEF FinishExecution, ReportGivesUp, vars
  <2>2. \A m \in mail' : m.kind = "claim" => m \in mail
    BY <1>6 DEF FinishExecution, ReportGivesUp, DoneRequest
  <2>3. ASSUME NEW m \in mail', m.kind = "claim", m.from # NoWorker
        PROVE  m \in mail /\ worker'[m.from].at = worker[m.from].at
    <3>1. m \in mail /\ m.from \in Worker /\ worker[m.from].at = "claiming"
      BY <1>1, <2>2, <2>3 DEF ClaimsAwaited
    <3>2. QED BY <2>1, <3>1
  <2>4. ASSUME NEW r \in Runner, serving[r] # NoWorker
        PROVE  worker'[serving[r]].at = worker[serving[r]].at
    <3>1. serving[r] \in Worker /\ worker[serving[r]].at = "claiming"
      BY <1>2, <2>4 DEF ClaimsAwaited
    <3>2. QED BY <2>1, <3>1
  <2>5. QED BY <1>1, <2>1, <2>2, <2>3, <2>4, KeepAwaited
<1>7. QED BY <1>3, <1>4, <1>5, <1>6 DEF WorkerStep

LEMMA WebStepAwaited ==
  ASSUME QInv, ProtocolTypeOK, ClaimsAwaited, WebStep
  PROVE  ClaimsAwaited'
<1>1. \A m \in mail : m.kind = "claim" => m.runner \in Runner /\
                        m.from \in Worker \union {NoWorker}
  BY MessageFacts
<1>2. /\ serving \in [Runner -> Worker \union {NoWorker}] /\ worker \in [Worker -> Thread]
      /\ claim \in [Runner -> Claim]
  BY DEF ProtocolTypeOK, TypeOK
<1>3. ASSUME NEW r \in Runner, Grant(r) \/ GrantNothing(r) PROVE ClaimsAwaited'
  <2>1. /\ mail' = mail /\ serving' = [serving EXCEPT ![r] = NoWorker]
        /\ claim' = [claim EXCEPT ![r] = NoClaim]
    BY <1>3 DEF Grant, GrantNothing, ClaimLease, ClaimRaced, ClaimAbort
  <2>2. \A v \in Worker : v # serving[r] => worker'[v] = worker[v]
    BY <1>2, <1>3 DEF Grant, GrantNothing
  <2>3. ASSUME NEW m \in mail', m.kind = "claim", m.from # NoWorker
        PROVE  m \in mail /\ worker'[m.from].at = worker[m.from].at
    <3>1. m \in mail /\ m.from \in Worker /\ serving[m.runner] # m.from
          /\ RunnerOf[m.from] = m.runner
      BY <1>1, <2>1, <2>3 DEF ClaimsAwaited
    <3>2. m.from # serving[r]
      BY <2>3, <3>1 DEF ClaimsAwaited
    <3>3. QED BY <2>2, <3>1, <3>2
  <2>4. ASSUME NEW q \in Runner, serving'[q] # NoWorker
        PROVE  /\ claim'[q].open = claim[q].open
               /\ worker'[serving[q]].at = worker[serving[q]].at
    <3>1. q # r /\ serving[q] # NoWorker /\ serving[q] \in Worker /\ claim'[q] = claim[q]
      BY <1>2, <2>1, <2>4
    <3>2. serving[q] # serving[r]
      BY <3>1 DEF ClaimsAwaited
    <3>3. QED BY <2>2, <3>1, <3>2
  <2>5. \A q \in Runner : serving'[q] \in {serving[q], NoWorker}
    BY <1>2, <2>1
  <2>6. QED BY <1>1, <2>1, <2>3, <2>4, <2>5, KeepAwaited
<1>4. ASSUME NEW m \in mail, ServeClaim(m) PROVE ClaimsAwaited'
  <2> DEFINE r == m.runner
  <2>1. /\ m.kind = "claim" /\ mail' = mail \ {m} /\ worker' = worker
        /\ serving' = [serving EXCEPT ![r] = m.from]
        /\ ~claim[r].open /\ claim'[r].open
        /\ \A q \in Runner : q # r => claim'[q] = claim[q]
    BY <1>1, <1>2, <1>4 DEF ServeClaim, ClaimSelect, ClaimReady
  <2>2. r \in Runner /\ m.from \in Worker \union {NoWorker}
        /\ m = ClaimRequest(r, m.from)
    BY <2>1, MessageFacts
  <2> HIDE DEF r
  <2>3. ASSUME NEW n \in mail', n.kind = "claim", n.from # NoWorker
        PROVE  /\ RunnerOf[n.from] = n.runner /\ worker'[n.from].at = "claiming"
               /\ serving'[n.runner] # n.from
    <3>1. /\ n \in mail /\ n # m /\ RunnerOf[n.from] = n.runner
          /\ worker[n.from].at = "claiming" /\ serving[n.runner] # n.from
          /\ n.runner \in Runner /\ n = ClaimRequest(n.runner, n.from)
      BY <2>1, <2>3, MessageFacts DEF ClaimsAwaited
    <3>2. n.runner # r => serving'[n.runner] = serving[n.runner]
      BY <1>2, <2>1, <3>1
    <3>3. n.runner = r => n.from # m.from
      BY <2>2, <3>1
    <3>4. serving'[r] = m.from
      BY <1>2, <2>1, <2>2
    <3>5. QED BY <2>1, <3>1, <3>2, <3>3, <3>4
  <2>4. ASSUME NEW q \in Runner, serving'[q] # NoWorker
        PROVE  /\ claim'[q].open /\ RunnerOf[serving'[q]] = q
               /\ worker'[serving'[q]].at = "claiming"
    <3>1. CASE q = r
      <4>1. serving'[q] = m.from /\ m.from # NoWorker
        BY <1>2, <2>1, <2>2, <2>4, <3>1
      <4>2. RunnerOf[m.from] = m.runner /\ worker[m.from].at = "claiming"
        BY <2>1, <4>1 DEF ClaimsAwaited
      <4>3. QED BY <2>1, <3>1, <4>1, <4>2 DEF r
    <3>2. CASE q # r
      <4>1. serving'[q] = serving[q] /\ claim'[q] = claim[q]
        BY <1>2, <2>1, <2>2, <3>2
      <4>2. QED BY <2>1, <2>4, <4>1 DEF ClaimsAwaited
    <3>3. QED BY <3>1, <3>2
  <2>5. QED BY <2>3, <2>4 DEF ClaimsAwaited
<1>5. ASSUME NEW m \in mail,
             \/ ServeNothing(m) \/ ServeNodeBeat(m) \/ RenewLease(m) \/ LoseRequest(m)
             \/ StoreResult(m)
      PROVE  ClaimsAwaited'
  <2>1. /\ mail' \subseteq mail /\ worker' = worker /\ serving' = serving /\ claim' = claim
    BY <1>5 DEF ServeNothing, ServeNodeBeat, RenewLease, LoseRequest, StoreResult, rvars,
                vars, ClaimNothing, NodeHeartbeat, HeartbeatTask, CompleteTask
  <2>2. QED BY <1>1, <2>1, KeepAwaited
<1>6. ASSUME NEW m \in mail, RefuseLease(m) \/ ConfirmResult(m)
      PROVE  ClaimsAwaited'
  <2>1. /\ mail' \subseteq mail /\ serving' = serving /\ claim' = claim
    BY <1>6 DEF RefuseLease, ConfirmResult, vars
  <2>2. m.from \in Worker /\ worker[m.from] \in Thread
    BY <1>2, <1>6, MessageFacts DEF RefuseLease, ConfirmResult
  <2>3. /\ \A v \in Worker : v # m.from => worker'[v] = worker[v]
        /\ worker'[m.from] # worker[m.from] => Busy(m.from)
    BY <1>2, <1>6, <2>2 DEF RefuseLease, ConfirmResult, StillAt
  <2>4. ASSUME NEW v \in Worker, worker[v].at = "claiming"
        PROVE  worker'[v].at = worker[v].at
    BY <2>3, <2>4 DEF Busy
  <2>5. QED BY <1>1, <1>2, <2>1, <2>4, KeepAwaited DEF ClaimsAwaited
<1>7. QED BY <1>3, <1>4, <1>5, <1>6 DEF WebStep

LEMMA ProtocolKeepsAwaited ==
  ASSUME QInv, ProtocolTypeOK, ClaimsAwaited, [ProtocolNext]_allvars
  PROVE  ClaimsAwaited'
<1>1. \A m \in mail : m.kind = "claim" => m.runner \in Runner
  BY MessageFacts
<1>2. CASE QueueStep \/ UNCHANGED allvars
  <2>1. /\ mail' = mail /\ worker' = worker /\ serving' = serving
        /\ \A r \in Runner : claim'[r].open = claim[r].open
    <3>1. mail' = mail /\ worker' = worker /\ serving' = serving
      BY <1>2 DEF QueueStep, allvars, rvars
    <3>2. ASSUME Tick, NEW r \in Runner PROVE claim'[r].open = claim[r].open
      <4>1. claim[r] \in Claim
        BY DEF ProtocolTypeOK, TypeOK
      <4>2. claim'[r] = claim[r] \/ claim'[r] = [claim[r] EXCEPT !.age = claim[r].age + 1]
        BY <3>2 DEF Tick
      <4>3. QED BY <4>1, <4>2 DEF Claim
    <3>3. Tick \/ claim' = claim
      BY <1>2 DEF QueueStep, allvars, vars, Enqueue, Recover
    <3>4. QED BY <3>1, <3>2, <3>3
  <2>2. QED BY <1>1, <2>1, KeepAwaited
<1>3. QED
  BY <1>2, ProcessStepAwaited, WorkerStepAwaited, WebStepAwaited DEF ProtocolNext

-----------------------------------------------------------------------------
(* Leases, the threads at work on them and their reports *)

\* What a step that stores no result does to a row: attempts only grow, and a
\* row that names a runner afterwards runs or is as it was.
Unreported(a, b) ==
  /\ b.attempts >= a.attempts
  /\ b.leasedBy # NoRunner =>
       \/ b.status = "running"
       \/ b.status = a.status /\ b.leasedBy = a.leasedBy /\ b.token = a.token

LEMMA UnreportedRow ==
  ASSUME NEW a \in Row, NEW b, RowInv(a),
         Calm(a, b) \/ Accepted(a, b) \/ Started(a, b)
  PROVE  Unreported(a, b)
<1>1. a.attempts \in Nat
  BY DEF Row
<1>2. CASE b = a
  BY <1>1, <1>2 DEF Unreported
<1>3. CASE Expiring(a, b)
  <2>1. PICK age \in Nat : b = RecoveredRow(a, age)
    BY <1>3 DEF Expiring
  <2>2. CASE a.status = "queued" /\ b = CancelledRow(a)
    BY <1>1, <2>2 DEF CancelledRow, Row, RowInv, Unreported
  <2>3. CASE b = RequeuedRow(a, age)
    BY <1>1, <2>3 DEF RequeuedRow, Row, Unreported
  <2>4. CASE b = LostRow(a)
    BY <1>1, <2>4 DEF LostRow, Row, Unreported
  <2>5. QED BY <1>3, <2>1, <2>2, <2>3, <2>4, ExpiredCases DEF Expiring
<1>4. CASE Renewed(a, b)
  BY <1>1, <1>4 DEF Renewed, Row, Unreported
<1>5. CASE Waited(a, b)
  BY <1>1, <1>5 DEF Waited, Row, Unreported
<1>6. CASE Accepted(a, b)
  <2>1. a.status = "absent" /\ b.attempts = 0 /\ b.leasedBy = NoRunner
    BY <1>6 DEF Accepted, QueuedRow, Absent
  <2>2. a.attempts = 0
    BY <2>1 DEF RowInv
  <2>3. QED BY <2>1, <2>2 DEF Unreported
<1>7. CASE Started(a, b)
  <2>1. PICK r \in Runner, age \in Nat, q \in Row :
          q.attempts = a.attempts /\ b = LeasedRow(q, r, age)
    BY <1>7, RequeuedFacts DEF Started
  <2>2. b.status = "running" /\ b.attempts = a.attempts + 1
    BY <2>1, LeasedFacts
  <2>3. QED BY <1>1, <2>2 DEF Unreported
<1>8. QED BY <1>2, <1>3, <1>4, <1>5, <1>6, <1>7 DEF Calm

\* Every step but the storing of a result is of that kind for every row.
LEMMA UnreportedStep ==
  ASSUME QInv, NEW t \in Task,
         \/ UNCHANGED task \/ Recover \/ Tick
         \/ \E u \in User, kind \in Requested : Enqueue(u, kind)
         \/ \E r \in Runner : ClaimNothing(r) \/ ClaimLease(r) \/ ClaimRaced(r)
         \/ \E s \in Task, r \in Runner : \E k : HeartbeatTask(s, r, k)
  PROVE  Unreported(task[t], task'[t])
<1>1. TypeOK /\ task[t] \in Row /\ RowInv(task[t])
  BY DEF QInv, TypeOK, RowsHold
<1>2. Calm(task[t], task'[t]) \/ Accepted(task[t], task'[t]) \/ Started(task[t], task'[t])
  <2>1. CASE UNCHANGED task
    BY <2>1 DEF Calm
  <2>2. CASE Recover
    BY <1>1, <2>2, RecoveryRows DEF Recover
  <2>3. CASE Tick
    BY <2>3 DEF Tick, Calm, Waited
  <2>4. ASSUME NEW u \in User, NEW kind \in Requested, Enqueue(u, kind)
        PROVE  Calm(task[t], task'[t]) \/ Accepted(task[t], task'[t])
    BY <1>1, <2>4 DEF Enqueue, TypeOK, Accepted, Calm
  <2>5. ASSUME NEW r \in Runner, ClaimNothing(r) PROVE Calm(task[t], task'[t])
    BY <1>1, <2>5, RecoveryRows DEF ClaimNothing
  <2>6. ASSUME NEW r \in Runner, ClaimLease(r) \/ ClaimRaced(r)
        PROVE  Calm(task[t], task'[t]) \/ Started(task[t], task'[t])
    BY <2>6, ClaimLeaseRows, ClaimRacedRows
  <2>7. ASSUME NEW s \in Task, NEW r \in Runner, NEW k, HeartbeatTask(s, r, k)
        PROVE  Calm(task[t], task'[t])
    BY <1>1, <2>7 DEF HeartbeatTask, TypeOK, Calm, Renewed
  <2>8. QED BY <2>1, <2>2, <2>3, <2>4, <2>5, <2>6, <2>7
<1>3. QED BY <1>1, <1>2, UnreportedRow

\* What is claimed of leases.
LeasesHold == LeasesKnown /\ OneThreadPerLease /\ OneReportPerLease /\ ReportsAgree

\* Tokens that were given out stay so.
LEMMA TokensStay ==
  ASSUME TypeOK, NEW t \in Task, task'[t].attempts \in Nat,
         task'[t].attempts >= task[t].attempts
  PROVE  1..task[t].attempts \subseteq 1..task'[t].attempts
<1>1. task[t].attempts \in Nat
  BY DEF TypeOK, Row
<1>2. QED BY <1>1

\* A step that stores no result, sends no report, and begins no execution.
LEMMA KeepLeases ==
  ASSUME TypeOK, TypeOK', ProtocolTypeOK, LeasesHold,
         \A t \in Task : Unreported(task[t], task'[t]),
         \A w \in Worker : Busy(w)' =>
           /\ Busy(w) /\ worker'[w].task = worker[w].task
           /\ worker'[w].token = worker[w].token
           /\ worker'[w].at = "executing" => worker[w].at = "executing",
         \A m \in mail' : m.kind = "done" => m \in mail
  PROVE  LeasesHold'
<1>1. \A t \in Task : 1..task[t].attempts \subseteq 1..task'[t].attempts
  BY TokensStay DEF Unreported, TypeOK, Row
<1>2. \A m \in mail : m.kind = "done" => m.task \in Task /\ RunnerOf[m.from] \in Runner
  BY MessageFacts
<1>3. LeasesKnown'
  <2>1. ASSUME NEW w \in Worker, Busy(w)'
        PROVE  /\ worker'[w].task \in Task
               /\ worker'[w].token \in 1..task'[worker'[w].task].attempts
    BY <1>1, <2>1 DEF LeasesHold, LeasesKnown, Tokens
  <2>2. ASSUME NEW m \in mail', m.kind = "done"
        PROVE  m.token \in 1..task'[m.task].attempts
    BY <1>1, <1>2, <2>2 DEF LeasesHold, LeasesKnown, Tokens
  <2>3. QED BY <2>1, <2>2 DEF LeasesKnown, Tokens
<1>4. OneThreadPerLease'
  BY DEF LeasesHold, OneThreadPerLease
<1>5. OneReportPerLease'
  <2>1. ASSUME NEW w \in Worker, worker'[w].at = "executing"
        PROVE  LET t == worker'[w].task IN
               /\ \A m \in mail' : ~(m.kind = "done" /\ m.task = t
                                       /\ m.token = worker'[w].token)
               /\ task'[t].leasedBy # NoRunner /\ task'[t].token = worker'[w].token
                    => task'[t].status = "running"
    <3> DEFINE t == worker'[w].task
               k == worker'[w].token
    <3>1. /\ Busy(w)' /\ worker[w].at = "executing" /\ Busy(w)
          /\ worker[w].task = t /\ worker[w].token = k
      BY <2>1 DEF Busy
    <3>2. t \in Task
      BY <3>1 DEF LeasesHold, LeasesKnown
    <3>3. /\ Reports(t, k) = {}
          /\ task[t].leasedBy # NoRunner /\ task[t].token = k => task[t].status = "running"
      BY <3>1 DEF LeasesHold, OneReportPerLease
    <3>4. Unreported(task[t], task'[t])
      BY <3>2
    <3> HIDE DEF t, k
    <3>5. \A m \in mail' : ~(m.kind = "done" /\ m.task = t /\ m.token = k)
      BY <3>3 DEF Reports
    <3>6. task'[t].leasedBy # NoRunner /\ task'[t].token = k => task'[t].status = "running"
      BY <3>3, <3>4 DEF Unreported
    <3>7. QED BY <3>3, <3>5, <3>6 DEF t, k
  <2>2. ASSUME NEW m \in mail', NEW n \in mail', m.kind = "done", n.kind = "done",
               m.task = n.task, m.token = n.token
        PROVE  m = n
    BY <2>2 DEF LeasesHold, OneReportPerLease
  <2>3. QED BY <2>1, <2>2 DEF OneReportPerLease, Reports
<1>6. ReportsAgree'
  <2>1. ASSUME NEW m \in mail', m.kind = "done",
               task'[m.task].leasedBy = RunnerOf[m.from],
               task'[m.task].token = m.token, task'[m.task].status \in FinalStatuses
        PROVE  task'[m.task].status = m.result
    <3>1. m \in mail /\ m.task \in Task /\ RunnerOf[m.from] \in Runner
      BY <1>2, <2>1
    <3>2. task'[m.task].leasedBy # NoRunner /\ task'[m.task].status # "running"
      BY <2>1, <3>1, StatusFacts
    <3>3. /\ task'[m.task].status = task[m.task].status
          /\ task'[m.task].leasedBy = task[m.task].leasedBy
          /\ task'[m.task].token = task[m.task].token
      BY <3>1, <3>2 DEF Unreported
    <3>4. QED BY <2>1, <3>1, <3>3 DEF LeasesHold, ReportsAgree
  <2>2. QED BY <2>1 DEF ReportsAgree
<1>7. QED BY <1>3, <1>4, <1>5, <1>6 DEF LeasesHold

LEMMA UnchangedRows ==
  ASSUME QInv, UNCHANGED task
  PROVE  \A t \in Task : Unreported(task[t], task'[t])
  BY UnreportedStep

\* A thread ends when its process does, or loses no lease to another.
LEMMA ProcessStepLeases ==
  ASSUME QInv, TypeOK', ProtocolTypeOK, LeasesHold, NEW r \in Runner, ProcessStep(r)
  PROVE  LeasesHold'
<1>1. TypeOK /\ worker \in [Worker -> Thread]
  BY DEF QInv, ProtocolTypeOK
<1>2. task' = task
  BY DEF ProcessStep, StartRunner, NodeHeartbeat, SendNodeBeat, RequestStop, GraceOver,
         StopRunner, Crash, vars
<1>3. ASSUME NEW m \in mail', m.kind = "done" PROVE m \in mail
  <2>1. CASE StopRunner(r) \/ Crash(r)
    <3>1. mail' = Orphaned(ThreadsOf(r))
      BY <2>1 DEF StopRunner, Crash, ThreadsEnd
    <3>2. \A n : ClaimRequest(n, NoWorker).kind = "claim"
      BY DEF ClaimRequest
    <3>3. QED BY <1>3, <3>1, <3>2 DEF Orphaned
  <2>2. CASE StartRunner(r) \/ SendNodeBeat(r) \/ RequestStop(r) \/ GraceOver(r)
    BY <1>3, <2>2 DEF StartRunner, SendNodeBeat, RequestStop, GraceOver, NodeRequest
  <2>3. QED BY <2>1, <2>2 DEF ProcessStep
<1>4. ASSUME NEW w \in Worker, Busy(w)'
      PROVE  /\ Busy(w) /\ worker'[w].task = worker[w].task
             /\ worker'[w].token = worker[w].token
             /\ worker'[w].at = "executing" => worker[w].at = "executing"
  <2>1. worker[w] \in Thread
    BY <1>1
  <2>2. CASE StartRunner(r) \/ SendNodeBeat(r) \/ RequestStop(r)
    BY <1>4, <2>2 DEF StartRunner, SendNodeBeat, RequestStop, Busy
  <2>3. CASE GraceOver(r)
    BY <1>4, <2>1, <2>3 DEF GraceOver, Busy, Thread
  <2>4. CASE StopRunner(r) \/ Crash(r)
    BY <1>4, <2>4 DEF StopRunner, Crash, ThreadsEnd, Busy, Idle
  <2>5. QED BY <2>2, <2>3, <2>4 DEF ProcessStep
<1>5. \A t \in Task : Unreported(task[t], task'[t])
  BY <1>2, UnchangedRows
<1>6. QED BY <1>1, <1>3, <1>4, <1>5, KeepLeases

\* The one step that sends a report: nobody else works on the lease, it was not
\* reported yet, and no result of it is stored.
LEMMA FinishLeases ==
  ASSUME QInv, ProtocolTypeOK, LeasesHold, NEW w \in Worker, FinishExecution(w)
  PROVE  LeasesHold'
<1> DEFINE t == worker[w].task
           k == worker[w].token
<1>1. PICK result \in GradeStatuses : mail' = mail \union {DoneRequest(w, result)}
  BY VerdictType DEF FinishExecution
<1> DEFINE d == DoneRequest(w, result)
<1>2. /\ worker[w].at = "executing" /\ worker[w] \in Thread
      /\ worker \in [Worker -> Thread]
      /\ worker' = [worker EXCEPT ![w].at = "reporting"] /\ task' = task
  BY DEF FinishExecution, vars, ProtocolTypeOK
<1>3. Busy(w) /\ t \in Task /\ k \in Tokens(t) /\ RunnerOf[w] \in Runner
  BY <1>2 DEF Busy, LeasesHold, LeasesKnown
<1>4. /\ d.kind = "done" /\ d.task = t /\ d.token = k /\ d.from = w /\ d.result = result
  BY DEF DoneRequest
<1>5. /\ \A m \in mail : ~(m.kind = "done" /\ m.task = t /\ m.token = k)
      /\ task[t].leasedBy # NoRunner /\ task[t].token = k => task[t].status = "running"
  BY <1>2 DEF LeasesHold, OneReportPerLease, Reports
<1>6. /\ worker'[w].at = "reporting" /\ worker'[w].task = t /\ worker'[w].token = k
      /\ \A v \in Worker : v # w => worker'[v] = worker[v]
  BY <1>2, ThreadFacts
<1> HIDE DEF t, k, d
<1>7. ASSUME NEW v \in Worker, Busy(v)'
      PROVE  Busy(v) /\ worker'[v].task = worker[v].task /\ worker'[v].token = worker[v].token
  BY <1>3, <1>6, <1>7 DEF Busy, t, k
<1>8. LeasesKnown'
  <2>1. \A v \in Worker : Busy(v)' =>
          worker'[v].task \in Task /\ worker'[v].token \in 1..task'[worker'[v].task].attempts
    BY <1>2, <1>7 DEF LeasesHold, LeasesKnown, Tokens
  <2>2. \A m \in mail' : m.kind = "done" => m.token \in 1..task'[m.task].attempts
    BY <1>1, <1>2, <1>3, <1>4 DEF LeasesHold, LeasesKnown, Tokens, d
  <2>3. QED BY <2>1, <2>2 DEF LeasesKnown, Tokens
<1>9. OneThreadPerLease'
  BY <1>7 DEF LeasesHold, OneThreadPerLease
<1>10. OneReportPerLease'
  <2>1. ASSUME NEW v \in Worker, worker'[v].at = "executing"
        PROVE  LET s == worker'[v].task IN
               /\ \A m \in mail' : ~(m.kind = "done" /\ m.task = s
                                       /\ m.token = worker'[v].token)
               /\ task'[s].leasedBy # NoRunner /\ task'[s].token = worker'[v].token
                    => task'[s].status = "running"
    <3>1. v # w /\ worker'[v] = worker[v] /\ worker[v].at = "executing" /\ Busy(v)
      BY <1>6, <2>1 DEF Busy
    <3>2. ~(worker[v].task = t /\ worker[v].token = k)
      BY <1>3, <3>1 DEF LeasesHold, OneThreadPerLease, t, k
    <3>3. \A m \in mail : ~(m.kind = "done" /\ m.task = worker[v].task
                              /\ m.token = worker[v].token)
      BY <3>1 DEF LeasesHold, OneReportPerLease, Reports
    <3>4. \A m \in mail' : ~(m.kind = "done" /\ m.task = worker[v].task
                               /\ m.token = worker[v].token)
      BY <1>1, <1>4, <3>2, <3>3 DEF d
    <3>5. LET s == worker[v].task IN
          task[s].leasedBy # NoRunner /\ task[s].token = worker[v].token
            => task[s].status = "running"
      BY <3>1 DEF LeasesHold, OneReportPerLease
    <3>6. QED BY <1>2, <3>1, <3>4, <3>5
  <2>2. ASSUME NEW m \in mail', NEW n \in mail', m.kind = "done", n.kind = "done",
               m.task = n.task, m.token = n.token
        PROVE  m = n
    BY <1>1, <1>4, <1>5, <2>2 DEF LeasesHold, OneReportPerLease, d
  <2>3. QED BY <2>1, <2>2 DEF OneReportPerLease, Reports
<1>11. ReportsAgree'
  <2>1. ASSUME NEW m \in mail', m.kind = "done",
               task[m.task].leasedBy = RunnerOf[m.from],
               task[m.task].token = m.token, task[m.task].status \in FinalStatuses
        PROVE  task[m.task].status = m.result
    <3>1. CASE m \in mail
      BY <2>1, <3>1 DEF LeasesHold, ReportsAgree
    <3>2. CASE m = d
      <4>1. task[t].leasedBy # NoRunner /\ task[t].token = k
        BY <1>3, <1>4, <2>1, <3>2
      <4>2. task[t].status = "running"
        BY <1>5, <4>1
      <4>3. QED BY <1>4, <2>1, <3>2, <4>2, StatusFacts
    <3>3. QED BY <1>1, <3>1, <3>2 DEF d
  <2>2. QED BY <1>2, <2>1 DEF ReportsAgree
<1>12. QED BY <1>8, <1>9, <1>10, <1>11 DEF LeasesHold

LEMMA WorkerStepLeases ==
  ASSUME QInv, TypeOK', ProtocolTypeOK, LeasesHold, NEW w \in Worker, WorkerStep(w)
  PROVE  LeasesHold'
<1>1. TypeOK /\ worker \in [Worker -> Thread] /\ worker[w] \in Thread
  BY DEF QInv, ProtocolTypeOK
<1>2. CASE FinishExecution(w)
  BY <1>2, FinishLeases
<1>3. CASE StartClaim(w) \/ ClaimGivesUp(w) \/ SendTaskBeat(w) \/ ReportGivesUp(w)
  <2>1. task' = task
    BY <1>3 DEF StartClaim, ClaimGivesUp, SendTaskBeat, ReportGivesUp, vars
  <2>2. ASSUME NEW m \in mail', m.kind = "done" PROVE m \in mail
    <3>1. \A n, v : ClaimRequest(n, v).kind = "claim"
      BY DEF ClaimRequest
    <3>2. QED BY <1>3, <2>2, <3>1
             DEF StartClaim, ClaimGivesUp, SendTaskBeat, ReportGivesUp, Orphaned, BeatRequest
  <2>3. /\ \A v \in Worker : v # w => worker'[v] = worker[v]
        /\ worker'[w] = worker[w] \/ worker'[w].at \in {"idle", "claiming"}
    <3>1. CASE StartClaim(w)
      BY <1>1, <3>1, ThreadFacts DEF StartClaim
    <3>2. CASE ClaimGivesUp(w) \/ ReportGivesUp(w)
      BY <1>1, <3>2 DEF ClaimGivesUp, ReportGivesUp, Idle
    <3>3. CASE SendTaskBeat(w)
      BY <3>3 DEF SendTaskBeat
    <3>4. QED BY <1>3, <3>1, <3>2, <3>3
  <2>4. ASSUME NEW v \in Worker, Busy(v)' PROVE worker'[v] = worker[v]
    BY <2>3, <2>4 DEF Busy
  <2>5. \A v \in Worker : Busy(v)' => Busy(v)
    BY <2>4 DEF Busy
  <2>6. \A t \in Task : Unreported(task[t], task'[t])
    BY <2>1, UnchangedRows
  <2>7. QED BY <1>1, <2>2, <2>4, <2>5, <2>6, KeepLeases
<1>4. QED BY <1>2, <1>3 DEF WorkerStep

\* The one step that begins an execution: the token is a new one.
LEMMA GrantLeases ==
  ASSUME QInv, TypeOK', ProtocolTypeOK, LeasesHold, NEW r \in Runner, Grant(r)
  PROVE  LeasesHold'
<1> DEFINE w == serving[r]
           t == claim[r].pick
           k == LeasedRow(ClaimView(r)[t], r, claim[r].age).token
<1>1. /\ t \in Task /\ k \in Nat /\ k = task[t].attempts + 1
      /\ task'[t].attempts = k /\ task'[t].status = "running"
  BY GrantedLease DEF Grant
<1>2. /\ mail' = mail
      /\ \/ /\ w # NoWorker
            /\ worker' = [worker EXCEPT ![w] = [at |-> "executing", task |-> t,
                                                token |-> k, end |-> "own"]]
         \/ UNCHANGED worker
  BY DEF Grant
<1>3. TypeOK /\ worker \in [Worker -> Thread] /\ w \in Worker \union {NoWorker}
  BY DEF QInv, ProtocolTypeOK
<1>4. \A s \in Task : Unreported(task[s], task'[s])
  BY UnreportedStep DEF Grant
<1> HIDE DEF w, t, k
<1>5. CASE UNCHANGED worker
  BY <1>2, <1>3, <1>4, <1>5, KeepLeases DEF Busy
<1>6. CASE /\ w # NoWorker
           /\ worker' = [worker EXCEPT ![w] = [at |-> "executing", task |-> t,
                                               token |-> k, end |-> "own"]]
  <2>1. /\ w \in Worker
        /\ worker'[w].at = "executing" /\ worker'[w].task = t /\ worker'[w].token = k
        /\ \A v \in Worker : v # w => worker'[v] = worker[v]
    BY <1>3, <1>6
  <2>2. \A s \in Task : 1..task[s].attempts \subseteq 1..task'[s].attempts
    BY <1>3, <1>4, TokensStay DEF Unreported, TypeOK, Row
  <2>3. task[t].attempts \in Nat
    BY <1>1, <1>3 DEF TypeOK, Row
  <2>4. k \in 1..task'[t].attempts /\ k \notin 1..task[t].attempts
    BY <1>1, <2>3
  <2>5. ASSUME NEW v \in Worker, v # w, Busy(v)'
        PROVE  /\ Busy(v) /\ worker[v].task \in Task
               /\ worker[v].token \in 1..task[worker[v].task].attempts
               /\ ~(worker[v].task = t /\ worker[v].token = k)
    <3>1. Busy(v)
      BY <2>1, <2>5 DEF Busy
    <3>2. worker[v].task \in Task /\ worker[v].token \in 1..task[worker[v].task].attempts
      BY <3>1 DEF LeasesHold, LeasesKnown, Tokens
    <3>3. QED BY <2>4, <3>1, <3>2
  <2>6. ASSUME NEW m \in mail, m.kind = "done"
        PROVE  /\ m.task \in Task /\ m.token \in 1..task[m.task].attempts
               /\ ~(m.task = t /\ m.token = k)
    <3>1. m.task \in Task
      BY <2>6, MessageFacts
    <3>2. m.token \in 1..task[m.task].attempts
      BY <2>6 DEF LeasesHold, LeasesKnown, Tokens
    <3>3. QED BY <2>4, <3>1, <3>2
  <2>7. LeasesKnown'
    <3>1. \A v \in Worker : Busy(v)' =>
            worker'[v].task \in Task
            /\ worker'[v].token \in 1..task'[worker'[v].task].attempts
      <4> TAKE v \in Worker
      <4> HAVE Busy(v)'
      <4>1. CASE v = w
        BY <1>1, <2>1, <2>4, <4>1
      <4>2. CASE v # w
        BY <2>1, <2>2, <2>5, <4>2
      <4>3. QED BY <4>1, <4>2
    <3>2. \A m \in mail' : m.kind = "done" => m.token \in 1..task'[m.task].attempts
      BY <1>2, <2>2, <2>6
    <3>3. QED BY <3>1, <3>2 DEF LeasesKnown, Tokens
  <2>8. OneThreadPerLease'
    <3>1. ASSUME NEW u \in Worker, NEW v \in Worker, Busy(u)', Busy(v)',
                 worker'[u].task = worker'[v].task, worker'[u].token = worker'[v].token
          PROVE  u = v
      <4>1. CASE u = w \/ v = w
        BY <2>1, <2>5, <3>1, <4>1
      <4>2. CASE u # w /\ v # w
        BY <2>1, <2>5, <3>1, <4>2 DEF LeasesHold, OneThreadPerLease
      <4>3. QED BY <4>1, <4>2
    <3>2. QED BY <3>1 DEF OneThreadPerLease
  <2>9. OneReportPerLease'
    <3>1. ASSUME NEW v \in Worker, worker'[v].at = "executing"
          PROVE  LET s == worker'[v].task IN
                 /\ \A m \in mail' : ~(m.kind = "done" /\ m.task = s
                                         /\ m.token = worker'[v].token)
                 /\ task'[s].leasedBy # NoRunner /\ task'[s].token = worker'[v].token
                      => task'[s].status = "running"
      <4>1. CASE v = w
        BY <1>1, <1>2, <2>1, <2>6, <4>1
      <4>2. CASE v # w
        <5> DEFINE s == worker[v].task
        <5>1. /\ worker'[v] = worker[v] /\ worker[v].at = "executing" /\ s \in Task
          BY <2>1, <2>5, <3>1, <4>2 DEF Busy
        <5>2. /\ \A m \in mail : ~(m.kind = "done" /\ m.task = s
                                     /\ m.token = worker[v].token)
              /\ task[s].leasedBy # NoRunner /\ task[s].token = worker[v].token
                   => task[s].status = "running"
          BY <5>1 DEF LeasesHold, OneReportPerLease, Reports
        <5>3. Unreported(task[s], task'[s])
          BY <1>4, <5>1
        <5> HIDE DEF s
        <5>4. task'[s].leasedBy # NoRunner /\ task'[s].token = worker[v].token
                => task'[s].status = "running"
          BY <5>2, <5>3 DEF Unreported
        <5>5. QED BY <1>2, <5>1, <5>2, <5>4 DEF s
      <4>3. QED BY <4>1, <4>2
    <3>2. \A m, n \in mail' :
            m.kind = "done" /\ n.kind = "done" /\ m.task = n.task /\ m.token = n.token
              => m = n
      BY <1>2 DEF LeasesHold, OneReportPerLease
    <3>3. QED BY <3>1, <3>2 DEF OneReportPerLease, Reports
  <2>10. ReportsAgree'
    <3>1. ASSUME NEW m \in mail, m.kind = "done",
                 task'[m.task].leasedBy = RunnerOf[m.from],
                 task'[m.task].token = m.token, task'[m.task].status \in FinalStatuses
          PROVE  task'[m.task].status = m.result
      <4>1. m.task \in Task /\ RunnerOf[m.from] \in Runner
        BY <3>1, MessageFacts
      <4>2. /\ task'[m.task].leasedBy # NoRunner /\ task'[m.task].status # "running"
            /\ Unreported(task[m.task], task'[m.task])
        BY <1>4, <3>1, <4>1, StatusFacts
      <4>3. /\ task'[m.task].status = task[m.task].status
            /\ task'[m.task].leasedBy = task[m.task].leasedBy
            /\ task'[m.task].token = task[m.task].token
        BY <4>2 DEF Unreported
      <4>4. QED BY <3>1, <4>3 DEF LeasesHold, ReportsAgree
    <3>2. QED BY <1>2, <3>1 DEF ReportsAgree
  <2>11. QED BY <2>7, <2>8, <2>9, <2>10 DEF LeasesHold
<1>7. QED BY <1>2, <1>5, <1>6

\* The one step that stores a result: it is that of the only report there is of
\* the lease, and nobody is at work on it any more.
LEMMA StoreLeases ==
  ASSUME QInv, ProtocolTypeOK, LeasesHold, NEW m \in mail, StoreResult(m)
  PROVE  LeasesHold'
<1> DEFINE t == m.task
<1>1. /\ m.kind = "done" /\ t \in Task /\ RunnerOf[m.from] \in Runner
      /\ CompleteTask(t, RunnerOf[m.from], m.token, m.result)
  BY MessageFacts DEF StoreResult
<1>2. /\ worker' = worker /\ mail' = mail
      /\ task' = [task EXCEPT ![t] = CompletedRow(task[t], m.result)]
      /\ task[t].token = m.token /\ task[t].leasedBy = RunnerOf[m.from]
  BY <1>1 DEF StoreResult, rvars, CompleteTask, HoldsLease
<1>3. task \in [Task -> Row] /\ task[t] \in Row
  BY <1>1 DEF QInv, TypeOK
<1>4. /\ task'[t].status = m.result /\ task'[t].token = task[t].token
      /\ task'[t].leasedBy = task[t].leasedBy /\ task'[t].attempts = task[t].attempts
      /\ \A s \in Task : s # t => task'[s] = task[s]
  BY <1>1, <1>2, <1>3 DEF CompletedRow, Row
<1> HIDE DEF t
<1>5. \A s \in Task : task'[s].attempts = task[s].attempts
  BY <1>4
<1>6. LeasesKnown'
  <2>1. \A v \in Worker : Busy(v)' =>
          worker'[v].task \in Task /\ worker'[v].token \in 1..task'[worker'[v].task].attempts
    BY <1>2, <1>5 DEF LeasesHold, LeasesKnown, Tokens, Busy
  <2>2. \A n \in mail' : n.kind = "done" => n.token \in 1..task'[n.task].attempts
    <3> TAKE n \in mail'
    <3> HAVE n.kind = "done"
    <3>1. n \in mail /\ n.task \in Task
      BY <1>2, MessageFacts
    <3>2. QED BY <1>5, <3>1 DEF LeasesHold, LeasesKnown, Tokens
  <2>3. QED BY <2>1, <2>2 DEF LeasesKnown, Tokens
<1>7. OneThreadPerLease'
  BY <1>2 DEF LeasesHold, OneThreadPerLease, Busy
<1>8. OneReportPerLease'
  <2>1. ASSUME NEW v \in Worker, worker[v].at = "executing"
        PROVE  LET s == worker[v].task IN
               /\ \A n \in mail : ~(n.kind = "done" /\ n.task = s
                                      /\ n.token = worker[v].token)
               /\ task'[s].leasedBy # NoRunner /\ task'[s].token = worker[v].token
                    => task'[s].status = "running"
    <3> DEFINE s == worker[v].task
    <3>1. /\ \A n \in mail : ~(n.kind = "done" /\ n.task = s /\ n.token = worker[v].token)
          /\ task[s].leasedBy # NoRunner /\ task[s].token = worker[v].token
               => task[s].status = "running"
          /\ s \in Task
      BY <2>1 DEF LeasesHold, OneReportPerLease, LeasesKnown, Reports, Busy
    <3>2. ~(s = t /\ worker[v].token = m.token)
      BY <1>1, <3>1 DEF t
    <3> HIDE DEF s
    <3>3. CASE s = t
      BY <1>2, <1>4, <3>1, <3>2, <3>3 DEF s
    <3>4. CASE s # t
      BY <1>4, <3>1, <3>4 DEF s
    <3>5. QED BY <3>3, <3>4
  <2>2. QED BY <1>2, <2>1 DEF LeasesHold, OneReportPerLease, Reports
<1>9. ReportsAgree'
  <2>1. ASSUME NEW n \in mail, n.kind = "done",
               task'[n.task].leasedBy = RunnerOf[n.from],
               task'[n.task].token = n.token, task'[n.task].status \in FinalStatuses
        PROVE  task'[n.task].status = n.result
    <3>1. n.task \in Task
      BY <2>1, MessageFacts
    <3>2. CASE n.task = t
      <4>1. n.token = m.token
        BY <1>2, <1>4, <2>1, <3>2
      <4>2. n = m
        BY <1>1, <2>1, <3>2, <4>1 DEF LeasesHold, OneReportPerLease, t
      <4>3. QED BY <1>4, <4>2 DEF t
    <3>3. CASE n.task # t
      BY <1>4, <2>1, <3>1, <3>3 DEF LeasesHold, ReportsAgree
    <3>4. QED BY <3>2, <3>3
  <2>2. QED BY <1>2, <2>1 DEF ReportsAgree
<1>10. QED BY <1>6, <1>7, <1>8, <1>9 DEF LeasesHold

LEMMA WebStepLeases ==
  ASSUME QInv, TypeOK', ProtocolTypeOK, LeasesHold, WebStep
  PROVE  LeasesHold'
<1>1. TypeOK /\ worker \in [Worker -> Thread]
  BY DEF QInv, ProtocolTypeOK
<1>2. ASSUME NEW r \in Runner, Grant(r) PROVE LeasesHold'
  BY <1>2, GrantLeases
<1>3. ASSUME NEW m \in mail, StoreResult(m) PROVE LeasesHold'
  BY <1>3, StoreLeases
<1>4. ASSUME NEW r \in Runner, GrantNothing(r) PROVE LeasesHold'
  <2>1. worker' = worker /\ mail' = mail
    BY <1>4 DEF GrantNothing
  <2>2. UNCHANGED task \/ ClaimRaced(r)
    BY <1>4 DEF GrantNothing, ClaimAbort
  <2>3. \A t \in Task : Unreported(task[t], task'[t])
    BY <2>2, UnreportedStep
  <2>4. QED BY <1>1, <2>1, <2>3, KeepLeases DEF Busy
<1>5. ASSUME NEW m \in mail,
             ServeClaim(m) \/ ServeNothing(m) \/ ServeNodeBeat(m) \/ RenewLease(m)
             \/ LoseRequest(m)
      PROVE  LeasesHold'
  <2>1. worker' = worker /\ mail' \subseteq mail
    BY <1>5 DEF ServeClaim, ServeNothing, ServeNodeBeat, RenewLease, LoseRequest
  <2>2. \/ UNCHANGED task
        \/ \E r \in Runner : ClaimNothing(r)
        \/ \E s \in Task, r \in Runner : \E k : HeartbeatTask(s, r, k)
    <3>1. CASE ServeClaim(m) \/ ServeNodeBeat(m) \/ LoseRequest(m)
      BY <3>1 DEF ServeClaim, ServeNodeBeat, LoseRequest, ClaimSelect, NodeHeartbeat, vars
    <3>2. CASE ServeNothing(m)
      BY <3>2, MessageFacts DEF ServeNothing
    <3>3. CASE RenewLease(m)
      BY <3>3, MessageFacts DEF RenewLease
    <3>4. QED BY <1>5, <3>1, <3>2, <3>3
  <2>3. \A t \in Task : Unreported(task[t], task'[t])
    BY <2>2, UnreportedStep
  <2>4. QED BY <1>1, <2>1, <2>3, KeepLeases DEF Busy
<1>6. ASSUME NEW m \in mail, RefuseLease(m) \/ ConfirmResult(m) PROVE LeasesHold'
  <2>1. task' = task /\ mail' \subseteq mail /\ m.from \in Worker
    BY <1>6, MessageFacts DEF RefuseLease, ConfirmResult, vars
  <2>2. worker[m.from] \in Thread
    BY <1>1, <2>1
  <2>3. /\ \A v \in Worker : v # m.from => worker'[v] = worker[v]
        /\ \/ worker'[m.from] = worker[m.from]
           \/ worker'[m.from] = [worker[m.from] EXCEPT !.end = "cancelled"]
           \/ worker'[m.from] = Idle
    BY <1>1, <1>6, <2>1 DEF RefuseLease, ConfirmResult
  <2>4. ASSUME NEW v \in Worker, Busy(v)'
        PROVE  /\ worker'[v].at = worker[v].at /\ worker'[v].task = worker[v].task
               /\ worker'[v].token = worker[v].token
    <3>1. CASE v # m.from \/ worker'[m.from] = worker[m.from]
      BY <2>3, <3>1
    <3>2. CASE v = m.from /\ worker'[m.from] = [worker[m.from] EXCEPT !.end = "cancelled"]
      BY <2>2, <3>2, ThreadFacts DEF Ends
    <3>3. CASE v = m.from /\ worker'[m.from] = Idle
      BY <2>4, <3>3 DEF Busy, Idle
    <3>4. QED BY <2>3, <3>1, <3>2, <3>3
  <2>5. \A t \in Task : Unreported(task[t], task'[t])
    BY <2>1, UnchangedRows
  <2>6. \A v \in Worker : Busy(v)' => Busy(v)
    BY <2>4 DEF Busy
  <2>7. QED BY <1>1, <2>1, <2>4, <2>5, <2>6, KeepLeases
<1>7. QED BY <1>2, <1>3, <1>4, <1>5, <1>6 DEF WebStep

LEMMA ProtocolKeepsLeases ==
  ASSUME QInv, TypeOK', ProtocolTypeOK, LeasesHold, [ProtocolNext]_allvars
  PROVE  LeasesHold'
<1>1. CASE QueueStep \/ UNCHANGED allvars
  <2>1. TypeOK /\ mail' = mail /\ worker' = worker
    BY <1>1 DEF QueueStep, allvars, rvars, QInv
  <2>2. \A t \in Task : Unreported(task[t], task'[t])
    BY <1>1, UnreportedStep DEF QueueStep, allvars, vars
  <2>3. QED BY <2>1, <2>2, KeepLeases DEF Busy
<1>2. QED
  BY <1>1, ProcessStepLeases, WorkerStepLeases, WebStepLeases DEF ProtocolNext

-----------------------------------------------------------------------------
(* Theorems *)

\* What is shown to be inductive.
PInv == QInv /\ ProtocolInv /\ ReportsAgree

LEMMA PInvParts ==
  /\ PInv => QInv /\ ProtocolTypeOK /\ ClaimsAwaited /\ LeasesHold
  /\ QInv /\ ProtocolTypeOK /\ ClaimsAwaited /\ LeasesHold => PInv
  BY DEF PInv, ProtocolInv, LeasesHold

LEMMA InitPInv == ProtocolInit => PInv
<1> SUFFICES ASSUME ProtocolInit PROVE PInv
  OBVIOUS
<1>1. Init /\ QInv
  BY InitQInv DEF ProtocolInit
<1>2. /\ process = [r \in Runner |-> "down"] /\ worker = [w \in Worker |-> Idle]
      /\ active = [r \in Runner |-> NoneActive] /\ mail = {}
      /\ serving = [r \in Runner |-> NoWorker]
  BY DEF ProtocolInit
<1>3. ProtocolTypeOK
  BY <1>1, <1>2, ThreadFacts DEF ProtocolTypeOK, QInv, ProcessState
<1>4. ClaimsAwaited
  BY <1>2 DEF ClaimsAwaited
<1>5. \A w \in Worker : worker[w].at = "idle"
  BY <1>2 DEF Idle
<1>6. LeasesHold
  BY <1>2, <1>5 DEF LeasesHold, LeasesKnown, OneThreadPerLease, OneReportPerLease,
                    ReportsAgree, Busy
<1>7. QED BY <1>1, <1>3, <1>4, <1>6, PInvParts

LEMMA NextPInv == PInv /\ [ProtocolNext]_allvars => PInv'
<1> SUFFICES ASSUME PInv, [ProtocolNext]_allvars PROVE PInv'
  OBVIOUS
<1>1. QInv /\ ProtocolTypeOK /\ ClaimsAwaited /\ LeasesHold
  BY PInvParts
<1>2. QInv' /\ TypeOK'
  BY <1>1, ProtocolKeepsQInv DEF QInv
<1>3. ProtocolTypeOK'
  BY <1>1, ProtocolKeepsTypes DEF LeasesHold
<1>4. ClaimsAwaited'
  BY <1>1, ProtocolKeepsAwaited
<1>5. LeasesHold'
  BY <1>1, <1>2, ProtocolKeepsLeases
<1>6. QED BY <1>2, <1>3, <1>4, <1>5 DEF PInv, ProtocolInv, LeasesHold

\* No two threads of any runners work on one lease, a lease is reported on once,
\* and a thread that waits for a claim is answered at most once, whatever is
\* lost, repeated, late or restarted.
THEOREM ProtocolInvHolds == ProtocolSpec => []ProtocolInv
<1>1. PInv => ProtocolInv
  BY DEF PInv
<1>2. QED BY <1>1, InitPInv, NextPInv, PTL DEF ProtocolSpec

\* A report that arrives late or again never finds the result of another
\* execution under its own lease: what complete_task answers without applying
\* anything is the result it was sent.
THEOREM LateReportsAgree == ProtocolSpec => []ReportsAgree
<1>1. PInv => ReportsAgree
  BY DEF PInv
<1>2. QED BY <1>1, InitPInv, NextPInv, PTL DEF ProtocolSpec

\* The queue served by runners over the network, with every result they may
\* report, still implements TaskLifecycle.
THEOREM ProtocolRefinesLifecycle == ProtocolSpec => RefinesLifecycle
<1>1. ProtocolInit => Lifecycle!Init
  BY InitLifecycle DEF ProtocolInit
<1>2. PInv /\ PInv' /\ [ProtocolNext]_allvars
        => [Lifecycle!Next]_<<[t \in Task |-> Phase(task[t])],
                              [t \in Task |-> task[t].attempts]>>
  BY ProtocolKeepsQInv, RowsLifecycle, PInvParts
<1>3. QED
  BY <1>1, <1>2, InitPInv, NextPInv, PTL DEF ProtocolSpec, RefinesLifecycle, Lifecycle!Spec

\* So the limit on running tasks holds under the runners, too: no result they
\* may report, early, late or twice, lets a user have two tasks running.
THEOREM OneRunningUnderRunners == ProtocolSpec => []OneRunningPerUser
<1>1. ProtocolInit => OneRunningPerUser
  BY DEF ProtocolInit, Init, OneRunningPerUser, Absent
<1>2. PInv /\ OneRunningPerUser /\ [ProtocolNext]_allvars => OneRunningPerUser'
  <2> SUFFICES ASSUME PInv, OneRunningPerUser, [ProtocolNext]_allvars
               PROVE  OneRunningPerUser'
    OBVIOUS
  <2>1. QInv /\ ProtocolTypeOK /\ TypeOK
    BY PInvParts DEF QInv
  <2>2. CASE [Next]_vars
    BY <2>1, <2>2, NextOneRunning
  <2>3. ASSUME NEW s \in Task, NEW r \in Runner, NEW k, NEW result,
               HeartbeatTask(s, r, k) \/ CompleteTask(s, r, k, result)
        PROVE  OneRunningPerUser'
    <3>1. CASE HeartbeatTask(s, r, k)
      BY <2>1, <3>1, NothingStarted DEF HeartbeatTask, TypeOK, Row
    <3>2. CASE CompleteTask(s, r, k, result)
      <4>1. result # "running" /\ task' = [task EXCEPT ![s] = CompletedRow(task[s], result)]
        BY <3>2 DEF CompleteTask, GradeStatuses, RunStatuses
      <4>2. task'[s].status = result /\ \A t \in Task : t # s => task'[t] = task[t]
        BY <2>1, <4>1 DEF CompletedRow, TypeOK, Row
      <4>3. QED BY <4>1, <4>2, NothingStarted
    <3>3. QED BY <2>3, <3>1, <3>2
  <2>4. QED BY <2>1, <2>2, <2>3, ProtocolQueueStep
<1>3. QED BY <1>1, <1>2, InitPInv, NextPInv, PTL DEF ProtocolSpec
=============================================================================
