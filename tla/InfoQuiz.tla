------------------------------ MODULE InfoQuiz ------------------------------
(***************************************************************************)
(* One information-technology quiz (info_tech): its session row, the       *)
(* attempts of its students, and the operations of quiz_services.py and of *)
(* the teacher's views on them.                                            *)
(*                                                                         *)
(* The student's operations lock the rows they use and are one action      *)
(* each.  A teacher's view reads the session without a lock and then calls *)
(* the service with that copy: two steps, between which anything happens.  *)
(*                                                                         *)
(* Answers are known by the revision that wrote them: every accepted write *)
(* has a revision of its own.  Time is what is left of an attempt until    *)
(* its deadline and the grace after it are over.                           *)
(***************************************************************************)
EXTENDS Naturals, Sequences

CONSTANTS
  Examinee,     \* the students
  Examiner,     \* the teachers
  Operations,   \* what the examiners of this instance do
  Timings,      \* a subset of BOOLEAN: may an attempt have a time limit, or none
  TimeLimit,    \* of a timed attempt, in ticks
  Grace,        \* GRACE_SECONDS
  MaxAttempts,  \* bound: attempts of one student
  MaxRevision   \* bound: accepted writes of one attempt

AllOperations == {"open", "close", "edit", "delete", "reset"}

ASSUME OperationsAssumption == Operations \subseteq AllOperations /\ Timings \subseteq BOOLEAN
ASSUME BoundsAssumption == /\ TimeLimit \in Nat \ {0} /\ Grace \in Nat
                           /\ MaxAttempts \in Nat /\ MaxRevision \in Nat

VARIABLES
  session,   \* the QuizSession row
  attempt,   \* [Examinee -> Seq(Attempt)]: QuizSubmission rows by attempt_no
  request,   \* [Examiner -> Request]: the teacher's request being served
  told       \* [Examinee -> BOOLEAN]: the last refused save said result_available

vars == <<session, attempt, request, told>>

Statuses == {"draft", "open", "closed"}
Session == [exists : BOOLEAN, status : Statuses, archived : BOOLEAN]

Settled == {"submitted", "timed_out"}

\* current is current_marker; graded is the revision the score was computed
\* from, 0 for the empty draft, and meaningless while in progress.
Attempt == [status : {"in_progress", "reset"} \union Settled, current : BOOLEAN,
            timed : BOOLEAN, left : 0..(TimeLimit + Grace),
            rev : Nat, graded : Nat]

\* op "purge": a delete that has found no attempt.
Request == [op : AllOperations \union {"none", "purge"}, seen : Statuses]
NoRequest == [op |-> "none", seen |-> "draft"]

-----------------------------------------------------------------------------
(* Attempts *)

InTime(a)    == ~a.timed \/ a.left > Grace
PastGrace(a) == a.timed /\ a.left = 0

NewAttempt(timed) ==
  [status |-> "in_progress", current |-> TRUE, timed |-> timed,
   left |-> IF timed THEN TimeLimit + Grace ELSE 0, rev |-> 0, graded |-> 0]

\* _settle_locked without final answers: the saved draft is graded.
SettledByDraft(a) == [a EXCEPT !.status = "timed_out", !.graded = a.rev]

\* Faulty: the score is computed before the final answers are stored.
SettledByOldAnswers(a) ==
  IF PastGrace(a) THEN SettledByDraft(a)
  ELSE [a EXCEPT !.status = "submitted", !.rev = a.rev + 1, !.graded = a.rev]

\* _settle_locked for a submission.
SettledBySubmit(a) ==
  IF PastGrace(a) THEN SettledByDraft(a)
  ELSE [a EXCEPT !.status = "submitted", !.rev = a.rev + 1, !.graded = a.rev + 1]

Current(s) == {n \in DOMAIN attempt[s] : attempt[s][n].current}
\* Faulty: a settled attempt that is current counts as running.
RunningOrOver(s) == Current(s)

Running(s) == {n \in Current(s) : attempt[s][n].status = "in_progress"}

-----------------------------------------------------------------------------
(* The student: quiz_services.py *)

\* Faulty: the old attempt stays current.
HistoricCurrent(s) ==
  [n \in DOMAIN attempt[s] |->
     IF n \in Running(s) THEN SettledByDraft(attempt[s][n]) ELSE attempt[s][n]]

\* The current attempt, settled if it is over, becomes history.
Historic(s) ==
  [n \in DOMAIN attempt[s] |->
     IF n \in Current(s)
     THEN [(IF n \in Running(s) THEN SettledByDraft(attempt[s][n]) ELSE attempt[s][n])
             EXCEPT !.current = FALSE]
     ELSE attempt[s][n]]

\* start_or_resume_attempt; a running attempt that is not over is resumed,
\* which changes nothing.
StartOrResumeAttempt(s) ==
  /\ session.exists /\ ~session.archived /\ session.status = "open"
  /\ \A n \in Running(s) : PastGrace(attempt[s][n])
  /\ Len(attempt[s]) < MaxAttempts
  /\ \E timed \in Timings :
       attempt' = [attempt EXCEPT ![s] = Append(Historic(s), NewAttempt(timed))]
  /\ UNCHANGED <<session, request, told>>

SaveAnswers(s) ==
  \E n \in Running(s) :
    /\ InTime(attempt[s][n])
    /\ attempt[s][n].rev < MaxRevision
    /\ attempt' = [attempt EXCEPT ![s][n].rev = @ + 1]
    /\ told' = [told EXCEPT ![s] = FALSE]
    /\ UNCHANGED <<session, request>>

\* After the deadline a save is refused.  Past the grace it has settled the
\* attempt by then and says so, but the exception that refuses it leaves the
\* transaction and takes the settlement back.
RefuseSave(s) ==
  \E n \in Running(s) :
    /\ ~InTime(attempt[s][n])
    /\ told' = [told EXCEPT ![s] = PastGrace(attempt[s][n])]
    /\ UNCHANGED <<session, attempt, request>>

\* submit_attempt; of a settled attempt it returns the result and changes nothing.
SubmitAttempt(s) ==
  \E n \in Running(s) :
    /\ attempt[s][n].rev < MaxRevision
    /\ attempt' = [attempt EXCEPT ![s][n] = SettledBySubmit(attempt[s][n])]
    /\ UNCHANGED <<session, request, told>>

\* get_current_attempt and settle_expired_attempts: whoever looks settles it.
SettleExpired(s) ==
  \E n \in Running(s) :
    /\ PastGrace(attempt[s][n])
    /\ attempt' = [attempt EXCEPT ![s][n] = SettledByDraft(attempt[s][n])]
    /\ UNCHANGED <<session, request, told>>

-----------------------------------------------------------------------------
(* The teacher: views.py with the session it read *)

ReadSession(t, op) ==
  /\ request[t].op = "none"
  /\ session.exists /\ ~session.archived
  /\ request' = [request EXCEPT ![t] = [op |-> op, seen |-> session.status]]
  /\ UNCHANGED <<session, attempt, told>>

Doing(t, op) == request[t].op = op
Done(t) == request' = [request EXCEPT ![t] = NoRequest]

\* _open_session saves the status of its copy; a copy already open is left alone.
OpenSession(t) ==
  /\ Doing(t, "open") /\ Done(t)
  /\ session' = IF request[t].seen # "open" /\ session.exists
                THEN [session EXCEPT !.status = "open"] ELSE session
  /\ UNCHANGED <<attempt, told>>

AllSettled ==
  [s \in Examinee |-> [n \in DOMAIN attempt[s] |->
     IF n \in Running(s) THEN SettledByDraft(attempt[s][n]) ELSE attempt[s][n]]]

\* close_session reads the row again under a lock.
CloseSession(t) ==
  /\ Doing(t, "close") /\ Done(t)
  /\ IF session.exists /\ session.status = "open"
     THEN session' = [session EXCEPT !.status = "closed"] /\ attempt' = AllSettled
     ELSE UNCHANGED <<session, attempt>>
  /\ UNCHANGED told

\* The edit saves every column of its copy, status and archived_at included;
\* a row that is gone is inserted again.  With is_visible it opens the quiz.
EditSession(t) ==
  /\ Doing(t, "edit") /\ Done(t)
  /\ \E status \in {request[t].seen, "open"} :
       session' = [exists |-> TRUE, status |-> status, archived |-> FALSE]
  /\ UNCHANGED <<attempt, told>>

\* The delete view looks for attempts first.
FindNoAttempts(t) ==
  /\ Doing(t, "delete")
  /\ \A s \in Examinee : attempt[s] = <<>>
  /\ request' = [request EXCEPT ![t].op = "purge"]
  /\ UNCHANGED <<session, attempt, told>>

\* session.delete() takes every attempt of the session with it.
DeleteSession(t) ==
  /\ Doing(t, "purge") /\ Done(t)
  /\ session' = [exists |-> FALSE, status |-> "draft", archived |-> FALSE]
  /\ attempt' = [s \in Examinee |-> <<>>]
  /\ UNCHANGED told

\* The copy says whether the quiz has to be closed; a quiz that was sent back to
\* draft meanwhile cannot be, and the request fails.
ArchiveSession(t) ==
  /\ Doing(t, "delete") /\ Done(t)
  /\ \E s \in Examinee : attempt[s] # <<>>
  /\ LET closing == request[t].seen = "open" IN
     IF session.exists /\ (closing => session.status # "draft")
     THEN /\ session' = [session EXCEPT !.archived = TRUE,
                           !.status = IF closing THEN "closed" ELSE @]
          /\ attempt' = IF closing /\ session.status = "open" THEN AllSettled ELSE attempt
     ELSE UNCHANGED <<session, attempt>>
  /\ UNCHANGED told

\* reset_attempt trusts the status of the copy; any current attempt is reset.
ResetAttempt(t, s) ==
  /\ Doing(t, "reset") /\ Done(t)
  /\ request[t].seen = "open"
  /\ \E n \in Current(s) :
       attempt' = [attempt EXCEPT ![s][n] = [@ EXCEPT !.status = "reset", !.current = FALSE]]
  /\ UNCHANGED <<session, told>>

\* Nothing to reset, or a copy that is not open.
RefuseReset(t) ==
  /\ Doing(t, "reset") /\ Done(t)
  /\ UNCHANGED <<session, attempt, told>>

-----------------------------------------------------------------------------

Elapsed(a) == [a EXCEPT !.left = IF a.left > 0 THEN a.left - 1 ELSE 0]

Tick ==
  /\ attempt' = [s \in Examinee |-> [n \in DOMAIN attempt[s] |->
       IF n \in Running(s) THEN Elapsed(attempt[s][n]) ELSE attempt[s][n]]]
  /\ UNCHANGED <<session, request, told>>

Init ==
  /\ session = [exists |-> TRUE, status |-> "draft", archived |-> FALSE]
  /\ attempt = [s \in Examinee |-> <<>>]
  /\ request = [t \in Examiner |-> NoRequest]
  /\ told = [s \in Examinee |-> FALSE]

StudentStep(s) == StartOrResumeAttempt(s) \/ SaveAnswers(s) \/ RefuseSave(s)
                    \/ SubmitAttempt(s) \/ SettleExpired(s)

TeacherStep(t) ==
  \/ \E op \in Operations : ReadSession(t, op)
  \/ OpenSession(t) \/ CloseSession(t) \/ EditSession(t)
  \/ FindNoAttempts(t) \/ DeleteSession(t) \/ ArchiveSession(t)
  \/ RefuseReset(t)
  \/ \E s \in Examinee : ResetAttempt(t, s)

Next ==
  \/ \E s \in Examinee : StudentStep(s)
  \/ \E t \in Examiner : TeacherStep(t)
  \/ Tick

Spec == Init /\ [][Next]_vars

-----------------------------------------------------------------------------
(* Properties *)

\* The session, its attempts and the requests have their shape.
TypeOK ==
  /\ session \in Session
  /\ attempt \in [Examinee -> Seq(Attempt)]
  /\ request \in [Examiner -> Request]
  /\ told \in [Examinee -> BOOLEAN]

\* A student works on one attempt at most, the newest, and only on a current one,
\* through restarts, resets, closures and late settlements.
OneAttemptRuns ==
  \A s \in Examinee : \A n \in DOMAIN attempt[s] :
    /\ attempt[s][n].status = "in_progress" => attempt[s][n].current
    /\ attempt[s][n].current => n = Len(attempt[s])

\* A score is computed from the last answers that were accepted, whoever
\* settles the attempt and when.
ScoredOnLastAnswers ==
  \A s \in Examinee : \A n \in DOMAIN attempt[s] :
    attempt[s][n].status \in Settled => attempt[s][n].graded = attempt[s][n].rev

\* What was settled stays settled, with its answers and its score; only a reset
\* may set it aside.
SettledStick ==
  [][\A s \in Examinee : \A n \in DOMAIN attempt[s] :
       attempt[s][n].status \in Settled \union {"reset"} /\ n \in DOMAIN attempt'[s] =>
         LET a == attempt[s][n]  b == attempt'[s][n] IN
         /\ b.status \in {a.status, "reset"}
         /\ b.graded = a.graded /\ b.rev = a.rev]_vars

\* docs/dev/2026-09-02-info-quiz-integrity-dev.md:111: closing settles every
\* attempt in progress, so a closed quiz has none.  The requests of two teachers
\* break this: an edit closes the quiz with the row it read before.
ClosedMeansSettled ==
  session.exists /\ session.status = "closed" => \A s \in Examinee : Running(s) = {}

\* docs/dev/2026-09-02-quiz-edit-delete-dev.md:22: a quiz that is open when it
\* is archived is closed and settled first.  No run lists this property: the
\* README describes the counterexample.
ArchivedMeansSettled == session.archived => \A s \in Examinee : Running(s) = {}

\* docs/dev/2026-09-02-info-quiz-integrity-dev.md:284: only an open quiz allows
\* a reset.  No run lists this property: the README describes the counterexample.
ResetOnlyWhileOpen ==
  [][\A s \in Examinee : \A n \in DOMAIN attempt[s] :
       attempt[s][n].status # "reset" /\ n \in DOMAIN attempt'[s]
         /\ attempt'[s][n].status = "reset" => session.status = "open"]_vars

\* docs/dev/2026-09-02-quiz-edit-delete-dev.md:21: a quiz is deleted for good
\* only if it has no attempt.  No run lists this property: the README describes
\* the counterexample TLC finds.
AttemptsPreserved ==
  [][\A s \in Examinee : Len(attempt'[s]) >= Len(attempt[s])]_vars

\* docs/dev/2026-09-02-info-quiz-integrity-dev.md:250: a save past the grace
\* settles the attempt before it is refused.
RefusalSettles ==
  [][\A s \in Examinee : told'[s] /\ ~told[s] => Running(s)' = {}]_vars

\* The attempts of a student: their fields, and the one he works on.
AttemptsInv == TypeOK /\ OneAttemptRuns
=============================================================================
