--------------------------- MODULE MCWebRequests ---------------------------
(***************************************************************************)
(* Small instances for TLC of five parts of what the web process serves    *)
(* that share no state with each other: the signed requests of the         *)
(* runners, the results they come to, the accounts of the students, the    *)
(* code they send and the closing of a quiz.  A behaviour is one of a      *)
(* single part; the others rest in an initial state, in which the fairness *)
(* of the closing asks for nothing.                                        *)
(***************************************************************************)
EXTENDS RequestReceipts, Accounts, Submissions, Grader, TLC

CONSTANTS complete, claim, t1, a1, g1, g2, seat1, seat2, p1, pupil

VARIABLES part, session, attempt, hooks, listed

quizVars == <<session, attempt, hooks, listed>>

\* A quiz without a time limit that is closed, reopened and closed again; no
\* hook is lost.
Closing == INSTANCE QuizSettlement WITH
             Student <- {pupil}, Scores <- {0}, TimeLimit <- 0, BrowserGrace <- 1,
             QueuedLimit <- 2, Faults <- {}, MaxAttempts <- 2, MaxRevision <- 0,
             MaxSubmissions <- 1, MaxVersion <- 3

Managed == t1 :> g1 @@ a1 :> g2
Seats   == seat1 :> g1 @@ seat2 :> g2

PartsInit ==
  /\ part \in {"receipts", "results", "accounts", "submissions", "closing"}
  /\ Init /\ AccountsInit /\ SubmissionsInit /\ GraderInit /\ Closing!Init
  /\ \A id \in Student : Known(id) => account[id].hash = p1
  \* Who has no recoverable password, or a session about to end, is alone at first.
  /\ \A id \in Student : Known(id) /\ (account[id].key = None \/ token[id] # None) =>
       \A o \in Student \ {id} : ~Known(o)
  /\ part # "accounts" => \A id \in Student : ~Known(id)
  /\ part # "submissions" => ~runner /\ tests = CHOOSE v \in Version : TRUE
  /\ part # "results" => evaluation.kind = "run"

PartsNext ==
  /\ UNCHANGED part
  /\ \/ /\ part = "closing" /\ Closing!Next
        /\ UNCHANGED <<vars, accountVars, subVars, graderVars>>
     \/ /\ UNCHANGED quizVars
        /\ \/ part = "receipts"    /\ Next            /\ UNCHANGED <<accountVars, subVars, graderVars>>
           \/ part = "results"     /\ GraderNext      /\ UNCHANGED <<vars, accountVars, subVars>>
           \/ part = "accounts"    /\ AccountsNext    /\ UNCHANGED <<vars, subVars, graderVars>>
           \/ part = "submissions" /\ SubmissionsNext /\ UNCHANGED <<vars, accountVars, graderVars>>

PartsSpec ==
  /\ PartsInit /\ [][PartsNext]_<<part, vars, accountVars, subVars, graderVars, quizVars>>
  /\ Closing!Fairness

\* An attempt in progress is its student's current one, and the only one.
AttemptsInv == Closing!AttemptsInv

\* Without lost hooks closing ends every attempt.
CloseSettles == Closing!CloseSettles

\* Nothing of the closing, the part the fairness is about, is exchanged.
Symmetry == Permutations(Student) \union Permutations(Worker)
=============================================================================
