--------------------------- MODULE InfoQuizProofs ---------------------------
(***************************************************************************)
(* Theorems about InfoQuiz for any students, any teachers with any number  *)
(* of requests under way, and any bounds: an attempt runs alone, a score   *)
(* is that of the last accepted answers, and what is settled stays so.     *)
(***************************************************************************)
EXTENDS InfoQuiz, SequenceTheorems, TLAPS

USE OperationsAssumption, BoundsAssumption

\* What is shown to be inductive.
QuizInv == AttemptsInv /\ ScoredOnLastAnswers

-----------------------------------------------------------------------------
(* Rows *)

\* A sequence whose elements are replaced is a sequence of the same length.
LEMMA Replaced ==
  ASSUME NEW S, NEW q \in Seq(S), NEW f, f \in [DOMAIN q -> S]
  PROVE  f \in Seq(S) /\ Len(f) = Len(q) /\ DOMAIN f = 1..Len(q)
<1>1. DOMAIN q = 1..Len(q) /\ Len(q) \in Nat
  BY LenProperties
<1>2. f \in [1..Len(q) -> S]
  BY <1>1
<1>3. f \in Seq(S)
  BY <1>1, <1>2, SeqDef
<1>4. DOMAIN f = 1..Len(f) /\ Len(f) \in Nat
  BY <1>3, LenProperties
<1>5. 1..Len(f) = 1..Len(q)
  BY <1>2, <1>4
<1>6. Len(f) = Len(q)
  BY <1>1, <1>4, <1>5
<1>7. QED BY <1>3, <1>2, <1>6

\* What a step may do to a row.  Nothing that was settled or reset is graded
\* again, and no row becomes current or starts to run.
RowStep(a, b) ==
  /\ b \in Attempt
  /\ b.current => a.current
  /\ b.status = "in_progress" => a.status = "in_progress" /\ b.current = a.current
  /\ b.status \in Settled => b.graded = b.rev
  /\ a.status \in Settled \union {"reset"} =>
       b.status \in {a.status, "reset"} /\ b.graded = a.graded /\ b.rev = a.rev

\* The new row of a student who starts again, and his old ones.
Restarted(s) ==
  /\ Len(attempt'[s]) = Len(attempt[s]) + 1
  /\ \A n \in 1..Len(attempt[s]) :
       RowStep(attempt[s][n], attempt'[s][n]) /\ ~attempt'[s][n].current
  /\ attempt'[s][Len(attempt[s]) + 1].status = "in_progress"
  /\ attempt'[s][Len(attempt[s]) + 1].current

\* A student whose rows stay in place, each of them taking a step.
Kept(s) ==
  /\ Len(attempt'[s]) = Len(attempt[s])
  /\ \A n \in 1..Len(attempt[s]) : RowStep(attempt[s][n], attempt'[s][n])

\* What every step but a start does to the rows; a deletion takes them all.
OldRows ==
  /\ attempt' \in [Examinee -> Seq(Attempt)]
  /\ \A s \in Examinee : attempt'[s] = <<>> \/ Kept(s)

\* What any step does to the rows.
Rows ==
  /\ attempt' \in [Examinee -> Seq(Attempt)]
  /\ \A s \in Examinee : attempt'[s] = <<>> \/ Kept(s) \/ Restarted(s)

\* The fields of a row.
LEMMA RowFields ==
  ASSUME NEW a \in Attempt
  PROVE  /\ a.status \in {"in_progress", "reset"} \union Settled
         /\ a.current \in BOOLEAN /\ a.timed \in BOOLEAN
         /\ a.left \in 0..(TimeLimit + Grace) /\ a.rev \in Nat /\ a.graded \in Nat
  BY DEF Attempt

\* A row of a settled state as the invariant has it may stay as it is.
LEMMA RowStays ==
  ASSUME NEW a \in Attempt, a.status \in Settled => a.graded = a.rev
  PROVE  RowStep(a, a)
  BY DEF RowStep

\* A running row that is settled by its draft.
LEMMA DraftRow ==
  ASSUME NEW a \in Attempt, a.status = "in_progress"
  PROVE  /\ RowStep(a, SettledByDraft(a))
         /\ SettledByDraft(a).status = "timed_out"
         /\ SettledByDraft(a).current = a.current
  BY DEF RowStep, SettledByDraft, Attempt, Settled

\* A running row that is submitted.
LEMMA SubmitRow ==
  ASSUME NEW a \in Attempt, a.status = "in_progress"
  PROVE  RowStep(a, SettledBySubmit(a)) /\ SettledBySubmit(a).status # "in_progress"
<1>1. CASE PastGrace(a)
  BY <1>1, DraftRow DEF SettledBySubmit
<1>2. CASE ~PastGrace(a)
  <2> DEFINE rev == a.rev + 1
             b == [a EXCEPT !.status = "submitted", !.rev = rev, !.graded = rev]
  <2>1. rev \in Nat
    BY RowFields
  <2>2. SettledBySubmit(a) = b
    BY <1>2 DEF SettledBySubmit
  <2> HIDE DEF rev
  <2>4. b \in Attempt /\ b.status = "submitted" /\ b.graded = b.rev /\ b.current = a.current
    BY <2>1 DEF Attempt, Settled
  <2>5. QED BY <2>2, <2>4 DEF RowStep, Settled
<1>3. QED BY <1>1, <1>2

\* A running row that is saved.
LEMMA SavedRow ==
  ASSUME NEW a \in Attempt, a.status = "in_progress"
  PROVE  RowStep(a, [a EXCEPT !.rev = @ + 1])
<1> DEFINE b == [a EXCEPT !.rev = a.rev + 1]
<1>1. b \in Attempt /\ b.status = "in_progress" /\ b.current = a.current
  BY RowFields DEF Attempt
<1>2. QED BY <1>1 DEF RowStep, Settled

\* A running row that grows older.
LEMMA ElapsedRow ==
  ASSUME NEW a \in Attempt, a.status = "in_progress"
  PROVE  RowStep(a, Elapsed(a))
<1> DEFINE left == IF a.left > 0 THEN a.left - 1 ELSE 0
<1>1. left \in 0..(TimeLimit + Grace)
  BY RowFields
<1>2. Elapsed(a) = [a EXCEPT !.left = left]
  BY DEF Elapsed
<1> HIDE DEF left
<1>3. Elapsed(a) \in Attempt /\ Elapsed(a).status = "in_progress"
        /\ Elapsed(a).current = a.current
  BY <1>1, <1>2 DEF Attempt
<1>4. QED BY <1>3 DEF RowStep, Settled

\* A row that is reset.
LEMMA ResetRow ==
  ASSUME NEW a \in Attempt
  PROVE  RowStep(a, [a EXCEPT !.status = "reset", !.current = FALSE])
  BY DEF RowStep, Attempt, Settled

\* The row that becomes history, settled first if it runs.
LEMMA HistoricRow ==
  ASSUME NEW a \in Attempt, a.status \in Settled => a.graded = a.rev,
         NEW b, b = (IF a.status = "in_progress" THEN SettledByDraft(a) ELSE a)
  PROVE  RowStep(a, [b EXCEPT !.current = FALSE])
           /\ [b EXCEPT !.current = FALSE].current = FALSE
<1>1. RowStep(a, b) /\ b.status # "in_progress"
  BY DraftRow, RowStays
<1>2. b \in Attempt
  BY <1>1 DEF RowStep
<1>3. QED BY <1>1, <1>2 DEF RowStep, Attempt
-----------------------------------------------------------------------------
(* Actions *)

\* What the invariant says of a row.
LEMMA RowFacts ==
  ASSUME QuizInv, NEW s \in Examinee, NEW n \in 1..Len(attempt[s])
  PROVE  /\ attempt[s] \in Seq(Attempt) /\ attempt[s][n] \in Attempt
         /\ attempt[s][n].status \in Settled => attempt[s][n].graded = attempt[s][n].rev
         /\ attempt[s][n].status = "in_progress" => attempt[s][n].current
         /\ attempt[s][n].current => n = Len(attempt[s])
<1>1. attempt[s] \in Seq(Attempt)
  BY DEF QuizInv, AttemptsInv, TypeOK
<1>2. DOMAIN attempt[s] = 1..Len(attempt[s]) /\ attempt[s][n] \in Attempt
  BY <1>1, LenProperties, ElementOfSeq
<1>3. QED BY <1>1, <1>2 DEF QuizInv, AttemptsInv, OneAttemptRuns, ScoredOnLastAnswers

\* The rows of a student are a sequence; the ones that run are among them.
LEMMA RowsFacts ==
  ASSUME QuizInv, NEW s \in Examinee
  PROVE  /\ attempt[s] \in Seq(Attempt) /\ Len(attempt[s]) \in Nat
         /\ DOMAIN attempt[s] = 1..Len(attempt[s])
         /\ Current(s) = {n \in 1..Len(attempt[s]) : attempt[s][n].current}
         /\ Running(s) = {n \in 1..Len(attempt[s]) : attempt[s][n].status = "in_progress"}
<1>1. /\ attempt[s] \in Seq(Attempt) /\ Len(attempt[s]) \in Nat
      /\ DOMAIN attempt[s] = 1..Len(attempt[s])
  BY LenProperties DEF QuizInv, AttemptsInv, TypeOK
<1>2. Current(s) = {n \in 1..Len(attempt[s]) : attempt[s][n].current}
  BY <1>1 DEF Current
<1>3. \A n \in 1..Len(attempt[s]) : attempt[s][n].status = "in_progress" => attempt[s][n].current
  BY RowFacts
<1>4. QED BY <1>1, <1>2, <1>3 DEF Running

\* A step that leaves the rows alone.
LEMMA SameRows ==
  ASSUME QuizInv, UNCHANGED attempt
  PROVE  OldRows
<1>1. \A s \in Examinee : \A n \in 1..Len(attempt[s]) : RowStep(attempt[s][n], attempt[s][n])
  BY RowFacts, RowStays
<1>2. attempt \in [Examinee -> Seq(Attempt)]
  BY DEF QuizInv, AttemptsInv, TypeOK
<1>3. QED BY <1>1, <1>2 DEF OldRows, Kept

\* A step that replaces one row of one student.
LEMMA OneRow ==
  ASSUME QuizInv, NEW s \in Examinee, NEW n \in 1..Len(attempt[s]), NEW b,
         RowStep(attempt[s][n], b), attempt' = [attempt EXCEPT ![s][n] = b]
  PROVE  OldRows
<1> DEFINE q == [attempt[s] EXCEPT ![n] = b]
<1>1. attempt \in [Examinee -> Seq(Attempt)] /\ attempt[s] \in Seq(Attempt) /\ b \in Attempt
  BY DEF QuizInv, AttemptsInv, TypeOK, RowStep
<1>2. /\ q \in Seq(Attempt) /\ Len(q) = Len(attempt[s])
      /\ \A m \in 1..Len(attempt[s]) : q[m] = IF m = n THEN b ELSE attempt[s][m]
  BY <1>1, ExceptSeq
<1>3. attempt' = [attempt EXCEPT ![s] = q]
  OBVIOUS
<1>4. \A r \in Examinee : \A m \in 1..Len(attempt[r]) : RowStep(attempt[r][m], attempt[r][m])
  BY RowFacts, RowStays
<1> HIDE DEF q
<1>5. attempt' \in [Examinee -> Seq(Attempt)]
  BY <1>1, <1>2, <1>3
<1>6. Kept(s)
  BY <1>1, <1>2, <1>3, <1>4 DEF Kept
<1>7. \A r \in Examinee : r # s => Kept(r)
  BY <1>1, <1>3, <1>4 DEF Kept
<1>8. QED BY <1>5, <1>6, <1>7 DEF OldRows

\* A step that replaces running rows of every student.
LEMMA EveryRow ==
  ASSUME QuizInv,
         attempt' = [s \in Examinee |-> attempt'[s]],
         \A s \in Examinee : attempt'[s] = [n \in DOMAIN attempt[s] |-> attempt'[s][n]],
         \A s \in Examinee : \A n \in DOMAIN attempt[s] : RowStep(attempt[s][n], attempt'[s][n])
  PROVE  OldRows
<1>1. SUFFICES ASSUME NEW s \in Examinee
               PROVE  attempt'[s] \in Seq(Attempt) /\ Kept(s)
  BY <1>1 DEF OldRows
<1>2. attempt'[s] = [n \in DOMAIN attempt[s] |-> attempt'[s][n]]
  OBVIOUS
<1>3. attempt'[s] \in [DOMAIN attempt[s] -> Attempt]
  BY <1>2 DEF RowStep
<1>4. attempt[s] \in Seq(Attempt) /\ DOMAIN attempt[s] = 1..Len(attempt[s])
  BY RowsFacts
<1>5. attempt'[s] \in Seq(Attempt) /\ Len(attempt'[s]) = Len(attempt[s])
  BY <1>3, <1>4, Replaced
<1>6. QED BY <1>4, <1>5 DEF Kept
\* All running rows settled by their drafts.
LEMMA AllSettledRows ==
  ASSUME QuizInv, attempt' = AllSettled
  PROVE  OldRows /\ \A s \in Examinee : Running(s)' = {}
<1> DEFINE F(s, n) == IF n \in Running(s) THEN SettledByDraft(attempt[s][n]) ELSE attempt[s][n]
<1>1. attempt' = [s \in Examinee |-> [n \in DOMAIN attempt[s] |-> F(s, n)]]
  BY DEF AllSettled
<1>2. ASSUME NEW s \in Examinee, NEW n \in DOMAIN attempt[s]
      PROVE  RowStep(attempt[s][n], F(s, n)) /\ F(s, n).status # "in_progress"
  <2>1. n \in 1..Len(attempt[s])
    BY RowsFacts
  <2>2. n \in Running(s) <=> attempt[s][n].status = "in_progress"
    BY <2>1, RowsFacts
  <2>3. QED BY <2>1, <2>2, RowFacts, DraftRow, RowStays
<1> HIDE DEF F
<1>3. \A s \in Examinee : attempt'[s] = [n \in DOMAIN attempt[s] |-> F(s, n)]
  BY <1>1
<1>4. \A s \in Examinee : \A n \in DOMAIN attempt[s] : attempt'[s][n] = F(s, n)
  BY <1>3
<1>5. \A s \in Examinee : attempt'[s] = [n \in DOMAIN attempt[s] |-> attempt'[s][n]]
  BY <1>3, <1>4
<1>6. attempt' = [s \in Examinee |-> attempt'[s]]
  BY <1>1
<1>7. \A s \in Examinee : \A n \in DOMAIN attempt[s] : RowStep(attempt[s][n], attempt'[s][n])
  BY <1>2, <1>4
<1>8. OldRows
  BY <1>5, <1>6, <1>7, EveryRow
<1>9. \A s \in Examinee : DOMAIN attempt'[s] = DOMAIN attempt[s]
  BY <1>5
<1>10. \A s \in Examinee : \A n \in DOMAIN attempt'[s] : attempt'[s][n].status # "in_progress"
  BY <1>2, <1>4, <1>9
<1>11. QED BY <1>8, <1>10 DEF Running, Current

\* Time that passes.
LEMMA TickRows ==
  ASSUME QuizInv, Tick
  PROVE  OldRows
<1> DEFINE F(s, n) == IF n \in Running(s) THEN Elapsed(attempt[s][n]) ELSE attempt[s][n]
<1>1. attempt' = [s \in Examinee |-> [n \in DOMAIN attempt[s] |-> F(s, n)]]
  BY DEF Tick
<1>2. ASSUME NEW s \in Examinee, NEW n \in DOMAIN attempt[s]
      PROVE  RowStep(attempt[s][n], F(s, n))
  <2>1. n \in 1..Len(attempt[s])
    BY RowsFacts
  <2>2. n \in Running(s) <=> attempt[s][n].status = "in_progress"
    BY <2>1, RowsFacts
  <2>3. QED BY <2>1, <2>2, RowFacts, ElapsedRow, RowStays
<1> HIDE DEF F
<1>3. \A s \in Examinee : attempt'[s] = [n \in DOMAIN attempt[s] |-> F(s, n)]
  BY <1>1
<1>4. \A s \in Examinee : \A n \in DOMAIN attempt[s] : attempt'[s][n] = F(s, n)
  BY <1>3
<1>5. \A s \in Examinee : attempt'[s] = [n \in DOMAIN attempt[s] |-> attempt'[s][n]]
  BY <1>3, <1>4
<1>6. attempt' = [s \in Examinee |-> attempt'[s]]
  BY <1>1
<1>7. \A s \in Examinee : \A n \in DOMAIN attempt[s] : RowStep(attempt[s][n], attempt'[s][n])
  BY <1>2, <1>4
<1>8. QED BY <1>5, <1>6, <1>7, EveryRow

\* A student who starts: his rows become history, and a new one runs.
LEMMA StartRows ==
  ASSUME QuizInv, NEW s \in Examinee, StartOrResumeAttempt(s)
  PROVE  Rows
<1>1. PICK timed \in Timings :
        attempt' = [attempt EXCEPT ![s] = Append(Historic(s), NewAttempt(timed))]
  BY DEF StartOrResumeAttempt
<1>2. /\ NewAttempt(timed) \in Attempt
      /\ NewAttempt(timed).status = "in_progress" /\ NewAttempt(timed).current
  BY DEF NewAttempt, Attempt
<1>3. attempt[s] \in Seq(Attempt) /\ DOMAIN attempt[s] = 1..Len(attempt[s])
        /\ Len(attempt[s]) \in Nat
  BY RowsFacts
<1>4. ASSUME NEW n \in 1..Len(attempt[s])
      PROVE  RowStep(attempt[s][n], Historic(s)[n]) /\ ~Historic(s)[n].current
  <2> DEFINE a == attempt[s][n]
             b == IF a.status = "in_progress" THEN SettledByDraft(a) ELSE a
  <2>1. /\ a \in Attempt /\ (a.status \in Settled => a.graded = a.rev)
        /\ (a.status = "in_progress" => a.current)
    BY RowFacts
  <2>2. n \in Running(s) <=> a.status = "in_progress"
    BY RowsFacts
  <2>3. n \in Current(s) <=> a.current
    BY RowsFacts
  <2>4. Historic(s)[n] = IF n \in Current(s) THEN [b EXCEPT !.current = FALSE] ELSE a
    BY <1>3, <2>2 DEF Historic
  <2> HIDE DEF a
  <2>5. CASE n \in Current(s)
    <3>1. RowStep(a, [b EXCEPT !.current = FALSE]) /\ [b EXCEPT !.current = FALSE].current = FALSE
      BY <2>1, HistoricRow
    <3>2. QED BY <2>4, <2>5, <3>1 DEF a
  <2>6. CASE n \notin Current(s)
    BY <2>1, <2>3, <2>4, <2>6, RowStays DEF a
  <2>7. QED BY <2>5, <2>6
<1>5. Historic(s) \in Seq(Attempt) /\ Len(Historic(s)) = Len(attempt[s])
  <2>1. Historic(s) = [n \in DOMAIN attempt[s] |-> Historic(s)[n]]
    BY DEF Historic
  <2>2. Historic(s) \in [DOMAIN attempt[s] -> Attempt]
    BY <1>3, <1>4, <2>1 DEF RowStep
  <2>3. QED BY <1>3, <2>2, Replaced
<1>6. attempt \in [Examinee -> Seq(Attempt)]
  BY DEF QuizInv, AttemptsInv, TypeOK
<1> DEFINE q == Append(Historic(s), NewAttempt(timed))
<1>7. /\ q \in Seq(Attempt) /\ Len(q) = Len(attempt[s]) + 1
      /\ \A n \in 1..Len(attempt[s]) : q[n] = Historic(s)[n]
      /\ q[Len(attempt[s]) + 1] = NewAttempt(timed)
  BY <1>2, <1>5, AppendProperties
<1>8. attempt' = [attempt EXCEPT ![s] = q]
  BY <1>1
<1> HIDE DEF q
<1>9. attempt' \in [Examinee -> Seq(Attempt)]
  BY <1>6, <1>7, <1>8
<1>10. attempt'[s] = q
  BY <1>6, <1>8
<1>11. Restarted(s)
  BY <1>2, <1>4, <1>7, <1>10 DEF Restarted
<1>12. \A r \in Examinee : \A m \in 1..Len(attempt[r]) : RowStep(attempt[r][m], attempt[r][m])
  BY RowFacts, RowStays
<1>13. \A r \in Examinee : r # s => Kept(r)
  BY <1>6, <1>8, <1>12 DEF Kept
<1>14. QED BY <1>9, <1>11, <1>13 DEF Rows
\* What every other student's operation does to his running attempt.
LEMMA StudentRows ==
  ASSUME QuizInv, NEW s \in Examinee, StudentStep(s)
  PROVE  Rows /\ (OldRows \/ StartOrResumeAttempt(s))
<1>1. OldRows => Rows
  BY DEF OldRows, Rows
<1> SUFFICES ASSUME ~StartOrResumeAttempt(s) PROVE OldRows
  BY <1>1, StartRows
<1>2. CASE SaveAnswers(s)
  <2>1. PICK n \in Running(s) : attempt' = [attempt EXCEPT ![s][n].rev = @ + 1]
    BY <1>2 DEF SaveAnswers
  <2>2. n \in 1..Len(attempt[s]) /\ attempt[s][n].status = "in_progress"
    BY RowsFacts
  <2>3. RowStep(attempt[s][n], [attempt[s][n] EXCEPT !.rev = @ + 1])
    BY <2>2, RowFacts, SavedRow
  <2>4. attempt' = [attempt EXCEPT ![s][n] = [attempt[s][n] EXCEPT !.rev = @ + 1]]
    BY <2>1
  <2>5. QED BY <2>2, <2>3, <2>4, OneRow
<1>3. CASE RefuseSave(s)
  BY <1>3, SameRows DEF RefuseSave
<1>4. CASE SubmitAttempt(s)
  <2>1. PICK n \in Running(s) :
          attempt' = [attempt EXCEPT ![s][n] = SettledBySubmit(attempt[s][n])]
    BY <1>4 DEF SubmitAttempt
  <2>2. n \in 1..Len(attempt[s]) /\ attempt[s][n].status = "in_progress"
    BY RowsFacts
  <2>3. RowStep(attempt[s][n], SettledBySubmit(attempt[s][n]))
    BY <2>2, RowFacts, SubmitRow
  <2>4. QED BY <2>1, <2>2, <2>3, OneRow
<1>5. CASE SettleExpired(s)
  <2>1. PICK n \in Running(s) :
          attempt' = [attempt EXCEPT ![s][n] = SettledByDraft(attempt[s][n])]
    BY <1>5 DEF SettleExpired
  <2>2. n \in 1..Len(attempt[s]) /\ attempt[s][n].status = "in_progress"
    BY RowsFacts
  <2>3. RowStep(attempt[s][n], SettledByDraft(attempt[s][n]))
    BY <2>2, RowFacts, DraftRow
  <2>4. QED BY <2>1, <2>2, <2>3, OneRow
<1>6. QED BY <1>2, <1>3, <1>4, <1>5 DEF StudentStep

\* What a teacher's request does to the attempts.
LEMMA TeacherRows ==
  ASSUME QuizInv, NEW t \in Examiner, TeacherStep(t)
  PROVE  OldRows
<1>1. CASE UNCHANGED attempt
  BY <1>1, SameRows
<1>2. CASE attempt' = AllSettled
  BY <1>2, AllSettledRows
<1>3. CASE attempt' = [s \in Examinee |-> <<>>]
  <2>1. <<>> \in Seq(Attempt)
    OBVIOUS
  <2>2. QED BY <1>3, <2>1 DEF OldRows
<1>4. CASE \E s \in Examinee : ResetAttempt(t, s)
  <2>1. PICK s \in Examinee, n \in Nat :
          /\ n \in Current(s)
          /\ attempt' = [attempt EXCEPT ![s][n] = [@ EXCEPT !.status = "reset", !.current = FALSE]]
    <3>1. PICK s \in Examinee : ResetAttempt(t, s)
      BY <1>4
    <3>2. PICK n \in Current(s) :
            attempt' = [attempt EXCEPT ![s][n] = [@ EXCEPT !.status = "reset", !.current = FALSE]]
      BY <3>1 DEF ResetAttempt
    <3>3. n \in Nat
      BY RowsFacts
    <3>4. QED BY <3>2, <3>3
  <2>2. n \in 1..Len(attempt[s])
    BY <2>1, RowsFacts
  <2>3. RowStep(attempt[s][n], [attempt[s][n] EXCEPT !.status = "reset", !.current = FALSE])
    BY <2>2, RowFacts, ResetRow
  <2>4. attempt' = [attempt EXCEPT ![s][n] =
                      [attempt[s][n] EXCEPT !.status = "reset", !.current = FALSE]]
    BY <2>1
  <2>5. QED BY <2>2, <2>3, <2>4, OneRow
<1>5. \/ UNCHANGED attempt \/ attempt' = AllSettled \/ attempt' = [s \in Examinee |-> <<>>]
      \/ \E s \in Examinee : ResetAttempt(t, s)
  BY DEF TeacherStep, ReadSession, OpenSession, CloseSession, EditSession, FindNoAttempts,
         DeleteSession, ArchiveSession, RefuseReset
<1>6. QED BY <1>1, <1>2, <1>3, <1>4, <1>5

\* Every step moves the rows as OldRows says.
LEMMA StepRows ==
  ASSUME QuizInv, [Next]_vars
  PROVE  Rows
<1>1. OldRows => Rows
  BY DEF OldRows, Rows
<1>2. QED BY <1>1, StudentRows, TeacherRows, TickRows, SameRows DEF Next, vars

\* A type is kept by what a step does to the session, the views and told.
LEMMA StepTypes ==
  ASSUME QuizInv, [Next]_vars
  PROVE  session' \in Session /\ request' \in [Examiner -> Request] /\ told' \in [Examinee -> BOOLEAN]
<1>1. session \in Session /\ request \in [Examiner -> Request] /\ told \in [Examinee -> BOOLEAN]
  BY DEF QuizInv, AttemptsInv, TypeOK
<1>2. ASSUME NEW s \in Examinee, StudentStep(s)
      PROVE  UNCHANGED <<session, request>> /\ told' \in [Examinee -> BOOLEAN]
  <2>1. PastGrace(attempt[s][1]) \in BOOLEAN /\ \A n : PastGrace(attempt[s][n]) \in BOOLEAN
    BY DEF PastGrace
  <2>2. QED BY <1>1, <1>2, <2>1 DEF StudentStep, StartOrResumeAttempt, SaveAnswers, RefuseSave,
                                   SubmitAttempt, SettleExpired
<1>3. ASSUME NEW t \in Examiner, TeacherStep(t)
      PROVE  session' \in Session /\ request' \in [Examiner -> Request] /\ UNCHANGED told
  <2>1. request[t] \in Request /\ NoRequest \in Request
    BY <1>1 DEF NoRequest, Request, Statuses
  <2>2. session' \in Session
    <3>1. CASE UNCHANGED session
      BY <1>1, <3>1
    <3>2. CASE OpenSession(t) \/ CloseSession(t)
      BY <1>1, <3>2 DEF OpenSession, CloseSession, Session, Statuses
    <3>3. CASE EditSession(t)
      <4>1. PICK status \in {request[t].seen, "open"} :
              session' = [exists |-> TRUE, status |-> status, archived |-> FALSE]
        BY <3>3 DEF EditSession
      <4>2. status \in Statuses
        BY <2>1 DEF Request, Statuses
      <4>3. QED BY <4>1, <4>2 DEF Session
    <3>4. CASE DeleteSession(t)
      BY <3>4 DEF DeleteSession, Session, Statuses
    <3>5. CASE ArchiveSession(t)
      BY <1>1, <3>5 DEF ArchiveSession, Session, Statuses
    <3>6. QED BY <1>3, <3>1, <3>2, <3>3, <3>4, <3>5 DEF TeacherStep, ReadSession, FindNoAttempts,
                                                 RefuseReset, ResetAttempt
  <2>3. request' \in [Examiner -> Request]
    <3>1. CASE Done(t)
      BY <1>1, <2>1, <3>1 DEF Done
    <3>2. CASE \E op \in Operations : ReadSession(t, op)
      <4>1. PICK op \in Operations : ReadSession(t, op)
        BY <3>2
      <4>2. [op |-> op, seen |-> session.status] \in Request
        BY <1>1 DEF Request, Session
      <4>3. QED BY <1>1, <4>1, <4>2 DEF ReadSession
    <3>3. CASE FindNoAttempts(t)
      <4>1. [request[t] EXCEPT !.op = "purge"] \in Request
        BY <2>1 DEF Request
      <4>2. request' = [request EXCEPT ![t] = [request[t] EXCEPT !.op = "purge"]]
        BY <3>3 DEF FindNoAttempts
      <4>3. QED BY <1>1, <4>1, <4>2
    <3>4. QED BY <1>3, <3>1, <3>2, <3>3 DEF TeacherStep, OpenSession, CloseSession, EditSession,
                                           DeleteSession, ArchiveSession, RefuseReset, ResetAttempt
  <2>4. UNCHANGED told
    BY <1>3 DEF TeacherStep, ReadSession, OpenSession, CloseSession, EditSession, FindNoAttempts,
                DeleteSession, ArchiveSession, RefuseReset, ResetAttempt
  <2>5. QED BY <2>2, <2>3, <2>4
<1>4. QED BY <1>1, <1>2, <1>3 DEF Next, Tick, vars
-----------------------------------------------------------------------------
(* Theorems *)

LEMMA InitQuiz == Init => QuizInv
<1> SUFFICES ASSUME Init PROVE QuizInv
  OBVIOUS
<1>1. \A s \in Examinee : DOMAIN attempt[s] = {}
  <2>1. <<>> \in Seq(Attempt) /\ Len(<<>>) = 0
    BY EmptySeq
  <2>2. DOMAIN <<>> = 1..0
    BY <2>1, LenProperties
  <2>3. 1..0 = {}
    OBVIOUS
  <2>4. \A s \in Examinee : attempt[s] = <<>>
    BY DEF Init
  <2>5. QED BY <2>2, <2>3, <2>4
<1>2. TypeOK
  BY DEF TypeOK, Init, Session, Statuses, Request, NoRequest
<1>3. QED BY <1>1, <1>2 DEF QuizInv, AttemptsInv, OneAttemptRuns, ScoredOnLastAnswers

\* The rows of a student after a step, whatever was done to them.
LEMMA RowsAfter ==
  ASSUME QuizInv, Rows, NEW s \in Examinee, NEW n \in DOMAIN attempt'[s]
  PROVE  /\ n \in 1..Len(attempt'[s])
         /\ attempt'[s][n].status = "in_progress" => attempt'[s][n].current
         /\ attempt'[s][n].current => n = Len(attempt'[s])
         /\ attempt'[s][n].status \in Settled => attempt'[s][n].graded = attempt'[s][n].rev
<1>1. DOMAIN attempt'[s] = 1..Len(attempt'[s]) /\ Len(attempt'[s]) \in Nat
  BY LenProperties DEF Rows
<1>2. attempt'[s] # <<>>
  BY <1>1
<1>3. Len(attempt[s]) \in Nat
  BY RowsFacts
<1>4. ASSUME n \in 1..Len(attempt[s]), RowStep(attempt[s][n], attempt'[s][n])
      PROVE  /\ attempt'[s][n].status = "in_progress" => attempt'[s][n].current
             /\ attempt'[s][n].current => n = Len(attempt[s])
             /\ attempt'[s][n].status \in Settled => attempt'[s][n].graded = attempt'[s][n].rev
  BY <1>4, RowFacts DEF RowStep
<1>5. CASE Kept(s)
  BY <1>1, <1>4, <1>5 DEF Kept
<1>6. CASE Restarted(s)
  <2>1. CASE n = Len(attempt[s]) + 1
    BY <1>1, <1>3, <1>6, <2>1 DEF Restarted, Settled
  <2>2. CASE n \in 1..Len(attempt[s])
    BY <1>1, <1>4, <1>6, <2>2 DEF Restarted
  <2>3. n = Len(attempt[s]) + 1 \/ n \in 1..Len(attempt[s])
    BY <1>1, <1>3, <1>6 DEF Restarted
  <2>4. QED BY <2>1, <2>2, <2>3
<1>7. QED BY <1>2, <1>5, <1>6 DEF Rows

LEMMA StepQuiz ==
  ASSUME QuizInv, [Next]_vars
  PROVE  QuizInv'
<1>1. Rows
  BY StepRows
<1>2. attempt' \in [Examinee -> Seq(Attempt)]
  BY <1>1 DEF Rows
<1>3. TypeOK'
  BY <1>2, StepTypes DEF TypeOK
<1>4. OneAttemptRuns'
  BY <1>1, RowsAfter DEF OneAttemptRuns
<1>5. ScoredOnLastAnswers'
  BY <1>1, RowsAfter DEF ScoredOnLastAnswers
<1>6. QED BY <1>3, <1>4, <1>5 DEF QuizInv, AttemptsInv

LEMMA QuizInvHolds == Spec => []QuizInv
<1>1. QuizInv /\ [Next]_vars => QuizInv'
  BY StepQuiz
<1>2. QED BY <1>1, InitQuiz, PTL DEF Spec

\* Rows have their fields, and a student works on one attempt at most, the
\* newest, and only while it is current: start_or_resume_attempt, the teacher's
\* reset and every way an attempt is settled keep that, in any order.
THEOREM OneAttemptAtATime == Spec => []AttemptsInv
<1>1. QuizInv => AttemptsInv
  BY DEF QuizInv
<1>2. QED BY <1>1, QuizInvHolds, PTL

\* Whoever settles an attempt, and whenever, its score is that of the last
\* answers the server accepted (_settle_locked).
THEOREM ScoresAreCurrent == Spec => []ScoredOnLastAnswers
<1>1. QuizInv => ScoredOnLastAnswers
  BY DEF QuizInv
<1>2. QED BY <1>1, QuizInvHolds, PTL

\* What a step leaves of settled rows.
LEMMA StepSticks ==
  ASSUME QuizInv, [Next]_vars,
         NEW s \in Examinee, NEW n \in DOMAIN attempt[s], n \in DOMAIN attempt'[s],
         attempt[s][n].status \in Settled \union {"reset"}
  PROVE  /\ attempt'[s][n].status \in {attempt[s][n].status, "reset"}
         /\ attempt'[s][n].graded = attempt[s][n].graded
         /\ attempt'[s][n].rev = attempt[s][n].rev
<1>1. Rows
  BY StepRows
<1>2. n \in 1..Len(attempt[s])
  BY RowsFacts
<1>3. attempt'[s] # <<>>
  OBVIOUS
<1>4. RowStep(attempt[s][n], attempt'[s][n])
  BY <1>1, <1>2, <1>3 DEF Rows, Kept, Restarted
<1>5. QED BY <1>4 DEF RowStep

\* No operation of a student or a teacher changes a settled attempt, its answers
\* or its score, except that a reset sets it aside.
THEOREM SettledAttemptsStick == Spec => SettledStick
<1>1. QuizInv /\ [Next]_vars =>
        [\A s \in Examinee : \A n \in DOMAIN attempt[s] :
           attempt[s][n].status \in Settled \union {"reset"} /\ n \in DOMAIN attempt'[s] =>
             LET a == attempt[s][n]  b == attempt'[s][n] IN
             /\ b.status \in {a.status, "reset"}
             /\ b.graded = a.graded /\ b.rev = a.rev]_vars
  BY StepSticks
<1>2. QED BY <1>1, QuizInvHolds, PTL DEF Spec, SettledStick
=============================================================================
