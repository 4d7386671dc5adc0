---------------------------- MODULE TaskLifecycle ----------------------------
(***************************************************************************)
(* What the execution queue promises about each task, without rows, locks, *)
(* leases, runners or time: a task that was accepted waits, is executed at *)
(* most MaxAttempts times, and ends in one outcome that never changes.  An *)
(* outcome other than "cancelled" needs an execution; a task is given up   *)
(* as "lost" only when its attempts are used up.                           *)
(*                                                                         *)
(* Several tasks may move in one step: a recovery pass handles every       *)
(* expired task in one transaction.                                        *)
(***************************************************************************)
EXTENDS Naturals

CONSTANTS Task, Outcome, MaxAttempts

VARIABLES phase,   \* [Task -> Phases]: where each task is
          tries    \* [Task -> Nat]: how often the task was started

Phases == {"absent", "queued", "running", "cancelled", "lost"} \union Outcome

Init == /\ phase = [t \in Task |-> "absent"]
        /\ tries = [t \in Task |-> 0]

Accept(t) == /\ phase[t] = "absent" /\ phase'[t] = "queued"
             /\ tries'[t] = tries[t]

\* An execution starts: of a waiting task, or at once of one whose runner was lost.
Start(t) == /\ phase[t] \in {"queued", "running"} /\ phase'[t] = "running"
            /\ tries[t] < MaxAttempts
            /\ tries'[t] = tries[t] + 1

\* The runner was lost; the task waits for another attempt.
Return(t) == /\ phase[t] = "running" /\ phase'[t] = "queued"
             /\ tries[t] < MaxAttempts
             /\ tries'[t] = tries[t]

\* The runner was lost at the last attempt.
Abandon(t) == /\ phase[t] = "running" /\ phase'[t] = "lost"
              /\ tries[t] >= MaxAttempts
              /\ tries'[t] = tries[t]

Finish(t) == /\ phase[t] = "running" /\ phase'[t] \in Outcome
             /\ tries'[t] = tries[t]

\* The task waited too long.
Cancel(t) == /\ phase[t] = "queued" /\ phase'[t] = "cancelled"
             /\ tries'[t] = tries[t]

Stay(t) == phase'[t] = phase[t] /\ tries'[t] = tries[t]

Next ==
  /\ phase' \in [Task -> Phases]
  /\ tries' \in [Task -> 0..MaxAttempts]
  /\ \A t \in Task : \/ Accept(t) \/ Start(t)  \/ Return(t) \/ Abandon(t)
                     \/ Finish(t) \/ Cancel(t) \/ Stay(t)

Spec == Init /\ [][Next]_<<phase, tries>>
=============================================================================
