--------------------------- MODULE RunnerProtocol ---------------------------
(***************************************************************************)
(* The Local Runner of runner/controller.py working against the queue of   *)
(* ExecutionQueue over HTTP: worker threads that claim, execute and        *)
(* report, their lease heartbeats, the node heartbeat thread, shutdown and *)
(* the death and restart of the process.                                   *)
(*                                                                         *)
(* A request in flight is a record in mail.  It may be served at any later *)
(* time, also after its sender gave up on it (the HTTP timeout does not    *)
(* stop the web process), or be lost; an answer may be lost too, and the   *)
(* request is then served again when the client repeats it.  The signed    *)
(* request ids that make a repeated request harmless are the subject of    *)
(* RequestReceipts; here a repeated completion finds a finished task.      *)
(*                                                                         *)
(* The web process that serves a claim is the open claim of the queue.     *)
(***************************************************************************)
EXTENDS ExecutionQueue

CONSTANTS Worker,     \* the worker threads of all runners
          RunnerOf,   \* [Worker -> Runner]
          NoWorker,
          Faults      \* what may go wrong: a subset of {"loss", "crash", "stop"}

ASSUME WorkerAssumption == RunnerOf \in [Worker -> Runner] /\ NoWorker \notin Worker
ASSUME FaultsAssumption == Faults \subseteq {"loss", "crash", "stop"}

VARIABLES
  process,   \* [Runner -> ProcessState]
  worker,    \* [Worker -> Thread]: what each worker thread is doing
  active,    \* [Runner -> [Task -> Worker or NoWorker]]: _active_tasks
  mail,      \* the requests in flight
  serving    \* [Runner -> Worker or NoWorker]: whose claim the open claim answers

rvars == <<process, worker, active, mail, serving>>
allvars == <<vars, rvars>>

\* A worker thread: idle, waiting for the answer to a claim, executing the task
\* it was given under a lease token, or reporting the result.
\* end says what cut its execution short: nothing, the cancel event that its
\* lease thread set before it ended, the kill of the child process by the
\* shutdown with the cancel event set before it, or that kill alone.
Ends == {"own", "cancelled", "cancelled_killed", "killed"}
Thread == [at : {"idle", "claiming", "executing", "reporting"},
           task : Task \union {0}, token : Nat, end : Ends]

Idle == [at |-> "idle", task |-> 0, token |-> 0, end |-> "own"]

\* "killing": the grace period of a stop is over.
ProcessState == {"down", "running", "stopping", "killing", "stopped"}

\* from is NoWorker once nobody waits for the answer.
ClaimRequest(r, w) == [kind |-> "claim", runner |-> r, from |-> w]
BeatRequest(w)  == [kind |-> "beat", from |-> w, task |-> worker[w].task,
                    token |-> worker[w].token]
DoneRequest(w, result) == [kind |-> "done", from |-> w, task |-> worker[w].task,
                           token |-> worker[w].token, result |-> result]
NodeRequest(r, status) == [kind |-> "node", from |-> r, status |-> status]

Alive(r) == process[r] \in {"running", "stopping", "killing"}
Busy(w)  == worker[w].at \in {"executing", "reporting"}
ThreadsOf(r) == {w \in Worker : RunnerOf[w] = r}
\* The slots the runner counts, and the only ones whose cancel event it finds.
ActiveSlots(r) == {active[r][t] : t \in Task} \ {NoWorker}
NoneActive == [t \in Task |-> NoWorker]

\* The end of process_task: the task leaves _active_tasks, whoever entered it.
Released(w) == [active EXCEPT ![RunnerOf[w]][worker[w].task] = NoWorker]

\* The claims of the threads in S are not waited for any more.
Orphaned(S) ==
  {m \in mail : m.kind # "claim" \/ m.from \notin S} \union
  {ClaimRequest(m.runner, NoWorker) : m \in {n \in mail : n.kind = "claim" /\ n.from \in S}}
NotServing(S) == [r \in Runner |-> IF serving[r] \in S THEN NoWorker ELSE serving[r]]

-----------------------------------------------------------------------------
(* The process: run, request_stop, the death of the process *)

\* run() registers the node before it starts any thread.
StartRunner(r) ==
  /\ process[r] \in {"down", "stopped"}
  /\ NodeHeartbeat(r, "online")
  /\ process' = [process EXCEPT ![r] = "running"]
  /\ UNCHANGED <<worker, active, mail, serving>>

\* _node_heartbeat_loop sends while the stop event is not set.
SendNodeBeat(r) ==
  /\ process[r] = "running"
  /\ mail' = mail \union {NodeRequest(r, "online")}
  /\ UNCHANGED <<vars, process, worker, active, serving>>

\* The stop event is set and the main thread announces that the node drains.
RequestStop(r) ==
  /\ "stop" \in Faults
  /\ process[r] = "running"
  /\ process' = [process EXCEPT ![r] = "stopping"]
  /\ mail' = mail \union {NodeRequest(r, "draining")}
  /\ UNCHANGED <<vars, worker, active, serving>>

\* The main thread waits for the answer to its draining heartbeat; it goes on
\* without one when the request fails for good.
DrainingAnswered(r) == NodeRequest(r, "draining") \notin mail \/ "loss" \in Faults

\* The grace period is over: the cancel events in _active_tasks are set, and
\* the child process of every execution is killed.
GraceOver(r) ==
  /\ process[r] = "stopping"
  /\ DrainingAnswered(r)
  /\ \E w \in ThreadsOf(r) : worker[w].at # "idle"
  /\ process' = [process EXCEPT ![r] = "killing"]
  /\ worker' = [w \in Worker |->
                  IF w \in ThreadsOf(r) /\ worker[w].at = "executing"
                  THEN [worker[w] EXCEPT !.end =
                          IF w \in ActiveSlots(r) \/ @ = "cancelled"
                          THEN "cancelled_killed" ELSE "killed"]
                  ELSE worker[w]]
  /\ UNCHANGED <<vars, active, mail, serving>>

\* The threads of r end with their process, whatever they were doing.
ThreadsEnd(r) ==
  /\ worker' = [w \in Worker |-> IF w \in ThreadsOf(r) THEN Idle ELSE worker[w]]
  /\ active' = [active EXCEPT ![r] = NoneActive]
  /\ mail' = Orphaned(ThreadsOf(r))
  /\ serving' = NotServing(ThreadsOf(r))

\* run() returns once its workers are through, or does not wait any longer.
StopRunner(r) ==
  /\ \/ process[r] = "stopping" /\ \A w \in ThreadsOf(r) : worker[w].at = "idle"
     \/ process[r] = "killing"
  /\ DrainingAnswered(r)
  /\ process' = [process EXCEPT ![r] = "stopped"]
  /\ ThreadsEnd(r)
  /\ UNCHANGED vars

\* The process is killed; what it sent may still be served.
Crash(r) ==
  /\ "crash" \in Faults
  /\ Alive(r)
  /\ process' = [process EXCEPT ![r] = "down"]
  /\ ThreadsEnd(r)
  /\ UNCHANGED vars

-----------------------------------------------------------------------------
(* _worker_loop and process_task *)

StartClaim(w) ==
  /\ process[RunnerOf[w]] = "running"
  /\ worker[w].at = "idle"
  /\ worker' = [worker EXCEPT ![w].at = "claiming"]
  /\ mail' = mail \union {ClaimRequest(RunnerOf[w], w)}
  /\ UNCHANGED <<vars, process, active, serving>>

\* There was no task, or an error, or no answer in time.  A claim is not repeated.
ClaimGivesUp(w) ==
  /\ worker[w].at = "claiming"
  /\ worker' = [worker EXCEPT ![w] = Idle]
  /\ mail' = Orphaned({w})
  /\ serving' = NotServing({w})
  /\ UNCHANGED <<vars, process, active>>

\* The lease thread of a worker sends until the report is through.
SendTaskBeat(w) ==
  /\ Busy(w)
  /\ worker[w].end # "cancelled"
  /\ mail' = mail \union {BeatRequest(w)}
  /\ UNCHANGED <<vars, process, worker, active, serving>>

\* What an execution may come to.  The poll loop of execute looks at the child
\* process before it looks at the cancel event: a child killed before the loop
\* saw the event counts as a program that ended with an error.
Verdicts(end) ==
  Reported \union (IF end \in {"cancelled", "cancelled_killed"} THEN {"system_error"} ELSE {})
           \union (IF end \in {"killed", "cancelled_killed"} THEN {"runtime_error"} ELSE {})

\* The evaluator returns and the report is sent.
FinishExecution(w) ==
  /\ worker[w].at = "executing"
  /\ \E result \in Verdicts(worker[w].end) :
       mail' = mail \union {DoneRequest(w, result)}
  /\ worker' = [worker EXCEPT ![w].at = "reporting"]
  /\ UNCHANGED <<vars, process, active, serving>>

\* The report failed for good, by an error or after the last repetition: the
\* slot is free again all the same.
ReportGivesUp(w) ==
  /\ worker[w].at = "reporting"
  /\ worker' = [worker EXCEPT ![w] = Idle]
  /\ active' = Released(w)
  /\ UNCHANGED <<vars, process, mail, serving>>

-----------------------------------------------------------------------------
(* The web process *)

ServeClaim(m) ==
  /\ m \in mail /\ m.kind = "claim"
  /\ ClaimSelect(m.runner)
  /\ mail' = mail \ {m}
  /\ serving' = [serving EXCEPT ![m.runner] = m.from]
  /\ UNCHANGED <<process, worker, active>>

\* A claim that finds nothing, but whose recovery pass commits.
ServeNothing(m) ==
  /\ m \in mail /\ m.kind = "claim"
  /\ ClaimNothing(m.runner)
  /\ mail' = mail \ {m}
  /\ UNCHANGED <<process, worker, active, serving>>

\* The lease is committed; the envelope reaches the worker that still waits for
\* it, or is lost.
Grant(r) ==
  LET w == serving[r]
      t == claim[r].pick
      k == LeasedRow(ClaimView(r)[t], r, claim[r].age).token IN
  /\ ClaimLease(r)
  /\ \/ /\ w # NoWorker
        /\ worker' = [worker EXCEPT ![w] = [at |-> "executing", task |-> t,
                                            token |-> k, end |-> "own"]]
        /\ active' = [active EXCEPT ![r][t] = w]
     \/ /\ w = NoWorker \/ "loss" \in Faults
        /\ UNCHANGED <<worker, active>>
  /\ serving' = [serving EXCEPT ![r] = NoWorker]
  /\ UNCHANGED <<process, mail>>

GrantNothing(r) ==
  /\ ClaimRaced(r) \/ ClaimAbort(r)
  /\ serving' = [serving EXCEPT ![r] = NoWorker]
  /\ UNCHANGED <<process, worker, active, mail>>

ServeNodeBeat(m) ==
  /\ m \in mail /\ m.kind = "node"
  /\ NodeHeartbeat(m.from, m.status)
  /\ mail' = mail \ {m}
  /\ UNCHANGED <<process, worker, active, serving>>

\* The sender of a request about a task is still at work on it.
StillAt(w, m) == Busy(w) /\ worker[w].task = m.task /\ worker[w].token = m.token

RenewLease(m) ==
  /\ m \in mail /\ m.kind = "beat"
  /\ HeartbeatTask(m.task, RunnerOf[m.from], m.token)
  /\ mail' = mail \ {m}
  /\ UNCHANGED <<process, worker, active, serving>>

\* invalid_lease or lease_expired: the execution is cancelled, unless the answer
\* is lost.  "Not running any more" and a network error leave it alone.
RefuseLease(m) ==
  LET t == m.task
      r == RunnerOf[m.from] IN
  /\ m \in mail /\ m.kind = "beat"
  /\ t \notin Locked
  /\ \/ ~HoldsLease(t, r, m.token)
     \/ task[t].status = "running" /\ task[t].lease = 0
  /\ mail' = mail \ {m}
  /\ IF StillAt(m.from, m) /\ worker[m.from].end = "own"
     THEN worker' = [worker EXCEPT ![m.from].end = "cancelled"]
     ELSE UNCHANGED worker
  /\ UNCHANGED <<vars, process, active, serving>>

\* The first delivery of a report; it stays in mail for a repetition.
StoreResult(m) ==
  /\ m \in mail /\ m.kind = "done"
  /\ CompleteTask(m.task, RunnerOf[m.from], m.token, m.result)
  /\ UNCHANGED rvars

\* The worker learns that its result is stored: the answer to the first delivery
\* or to a repetition.
ConfirmResult(m) ==
  LET t == m.task IN
  /\ m \in mail /\ m.kind = "done"
  /\ HoldsLease(t, RunnerOf[m.from], m.token)
  /\ task[t].status \in FinalStatuses
  /\ mail' = mail \ {m}
  /\ IF StillAt(m.from, m)
     THEN worker' = [worker EXCEPT ![m.from] = Idle] /\ active' = Released(m.from)
     ELSE UNCHANGED <<worker, active>>
  /\ UNCHANGED <<vars, process, serving>>

\* A request that is never served, or served when it has no effect any more.
LoseRequest(m) ==
  /\ "loss" \in Faults
  /\ m \in mail
  /\ mail' = mail \ {m}
  /\ UNCHANGED <<vars, process, worker, active, serving>>

-----------------------------------------------------------------------------

ProtocolInit ==
  /\ Init
  /\ process = [r \in Runner |-> "down"]
  /\ worker = [w \in Worker |-> Idle]
  /\ active = [r \in Runner |-> NoneActive]
  /\ mail = {}
  /\ serving = [r \in Runner |-> NoWorker]

ProcessStep(r) == StartRunner(r) \/ SendNodeBeat(r) \/ RequestStop(r)
                    \/ GraceOver(r) \/ StopRunner(r) \/ Crash(r)

WorkerStep(w) == StartClaim(w) \/ ClaimGivesUp(w) \/ SendTaskBeat(w)
                   \/ FinishExecution(w) \/ ReportGivesUp(w)

WebStep ==
  \/ \E r \in Runner : Grant(r) \/ GrantNothing(r)
  \/ \E m \in mail : \/ ServeClaim(m) \/ ServeNothing(m) \/ ServeNodeBeat(m) 
                     \/ RenewLease(m) \/ RefuseLease(m) \/ StoreResult(m)
                     \/ ConfirmResult(m) \/ LoseRequest(m)

QueueStep ==
  /\ \/ \E u \in User, kind \in Requested : Enqueue(u, kind)
     \/ Recover
     \/ Tick
  /\ UNCHANGED rvars

ProtocolNext ==
  \/ \E r \in Runner : ProcessStep(r)
  \/ \E w \in Worker : WorkerStep(w)
  \/ WebStep
  \/ QueueStep

ProtocolSpec == ProtocolInit /\ [][ProtocolNext]_allvars

\* Time passes, transactions end and recovery runs, as in ExecutionQueue; every
\* execution and every report ends (the wall clock limit, the HTTP timeout with
\* its bounded repetitions).  That a request arrives, that a runner lives or is
\* started again, is not promised.
ProtocolFairness ==
  /\ WF_allvars(Tick /\ UNCHANGED rvars)
  /\ SF_allvars(Recover /\ UNCHANGED rvars)
  /\ \A r \in Runner : WF_allvars(Grant(r) \/ GrantNothing(r))
  /\ \A w \in Worker : /\ WF_allvars(FinishExecution(w))
                       /\ WF_allvars(ReportGivesUp(w))

FairProtocolSpec == ProtocolSpec /\ ProtocolFairness

-----------------------------------------------------------------------------
(* Properties *)

Message ==
  [kind : {"claim"}, runner : Runner, from : Worker \union {NoWorker}] \union
  [kind : {"beat"}, from : Worker, task : Task, token : Nat] \union
  [kind : {"done"}, from : Worker, task : Task, token : Nat, result : GradeStatuses] \union
  [kind : {"node"}, from : Runner, status : {"online", "draining"}]

\* Processes, threads and requests have their shape.
ProtocolTypeOK ==
  /\ TypeOK
  /\ process \in [Runner -> ProcessState]
  /\ worker \in [Worker -> Thread]
  /\ active \in [Runner -> [Task -> Worker \union {NoWorker}]]
  /\ serving \in [Runner -> Worker \union {NoWorker}]
  /\ mail \subseteq Message

\* Every lease is worked on by one thread at most, however often claims are
\* repeated, answers are lost and runners restart.
OneThreadPerLease ==
  \A v, w \in Worker :
    Busy(v) /\ Busy(w) /\ worker[v].task = worker[w].task
      /\ worker[v].token = worker[w].token => v = w

\* A report, delivered late or repeated, never finds the result of another
\* execution stored under its own lease.
ReportsAgree ==
  \A m \in mail :
    m.kind = "done" /\ task[m.task].leasedBy = RunnerOf[m.from]
      /\ task[m.task].token = m.token /\ task[m.task].status \in FinalStatuses
      => task[m.task].status = m.result

-----------------------------------------------------------------------------
(* What the documents say and the code does not do: no run lists these four *)
(* properties, the README describes the counterexamples TLC finds.         *)

\* Every execution has its cancel event in _active_tasks, so that a shutdown
\* finds it and active_slots counts it.
ExecutionsAreActive ==
  \A w \in Worker : Busy(w) => w \in ActiveSlots(RunnerOf[w])

\* What is stored as the outcome of a task is what its program came to, a system
\* error or a cancellation: a stopped runner is not held against the student.
\* docs/dev/2026-09-15-cross-platform-local-runner-dev.md:171 maps trouble of the
\* runner itself to system_error.
OutcomeIsTheProgramsOwn ==
  \A t \in Task : task[t].status \in FinalStatuses =>
    task[t].status \in Reported \union {"system_error", "cancelled"}

\* docs/dev/2026-09-15-cross-platform-local-runner-dev.md:113 has the slot of a
\* thread released only when the web process has confirmed its report.
SlotFreedByConfirmation ==
  [][\A w \in Worker :
       worker[w].at = "reporting" /\ worker'[w].at = "idle" /\ Alive(RunnerOf[w])'
         => task[worker[w].task].status \in FinalStatuses]_allvars

\* docs/dev/2026-09-15-cross-platform-local-runner-dev.md:114 has a stopping
\* runner switch its node to draining, and line 373 finds it recorded so after
\* the stop.
StoppedNodeIsDraining ==
  \A r \in Runner : process[r] = "stopped" => node[r].status = "draining"

\* A thread that waits for a claim is answered once at most: the request that
\* is in flight or served is the last one it sent.
ClaimsAwaited ==
  /\ \A m \in mail : m.kind = "claim" /\ m.from # NoWorker =>
       /\ RunnerOf[m.from] = m.runner /\ worker[m.from].at = "claiming"
       /\ serving[m.runner] # m.from
  /\ \A r \in Runner : serving[r] # NoWorker =>
       /\ claim[r].open /\ RunnerOf[serving[r]] = r
       /\ worker[serving[r]].at = "claiming"

Reports(t, k) == {m \in mail : m.kind = "done" /\ m.task = t /\ m.token = k}

\* Threads and reports are about leases that were given out.
LeasesKnown ==
  /\ \A w \in Worker : Busy(w) =>
       worker[w].task \in Task /\ worker[w].token \in Tokens(worker[w].task)
  /\ \A m \in mail : m.kind = "done" => m.token \in Tokens(m.task)

\* A lease is reported on once, when its execution is over; until then no result
\* of it is stored.
OneReportPerLease ==
  /\ \A w \in Worker : worker[w].at = "executing" =>
       LET t == worker[w].task IN
       /\ Reports(t, worker[w].token) = {}
       /\ task[t].leasedBy # NoRunner /\ task[t].token = worker[w].token
            => task[t].status = "running"
  /\ \A m, n \in mail :
       m.kind = "done" /\ n.kind = "done" /\ m.task = n.task /\ m.token = n.token
         => m = n

\* The inductive invariant of the protocol.
ProtocolInv ==
  /\ ProtocolTypeOK /\ ClaimsAwaited /\ LeasesKnown
  /\ OneThreadPerLease /\ OneReportPerLease
=============================================================================
