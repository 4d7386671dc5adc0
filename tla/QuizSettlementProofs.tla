------------------------- MODULE QuizSettlementProofs -------------------------
(***************************************************************************)
(* Theorems about QuizSettlement for any students, scores, limits and      *)
(* faults: a settled attempt shows the score of everything that counts for *)
(* it, a locked paper stays locked, and every result has its cause.        *)
(***************************************************************************)
EXTENDS QuizSettlement, SequenceTheorems, FiniteSetTheorems, TLAPS

USE ScoresAssumption, BoundsAssumption

-----------------------------------------------------------------------------
(* Scores *)

\* Among finitely many values one is the highest.
LEMMA Highest ==
  ASSUME NEW I, IsFiniteSet(I), I # {}, NEW f, \A i \in I : f[i] \in Nat
  PROVE  \E i \in I : \A j \in I : f[i] >= f[j]
<1> DEFINE Above(x) == {y \in I : f[y] >= f[x]}
           T == {U \in SUBSET I : \E x \in I : U = Above(x)}
<1>1. T \subseteq FiniteSubsetsOf(I)
  BY FS_Subset DEF FiniteSubsetsOf
<1>2. T # {}
  <2>1. PICK x \in I : TRUE
    OBVIOUS
  <2>2. Above(x) \in T
    OBVIOUS
  <2>3. QED BY <2>2
<1>3. IsWellFoundedOn(StrictSubsetOrdering(I), FiniteSubsetsOf(I))
  BY FS_StrictSubsetOrderingWellFounded
<1>4. PICK U \in T : \A V \in T : ~ (<<V, U>> \in StrictSubsetOrdering(I))
  <2> HIDE DEF T
  <2>1. QED BY <1>1, <1>2, <1>3, WFMin
<1>5. PICK x \in I : U = Above(x)
  OBVIOUS
<1>6. ASSUME NEW y \in I, f[y] > f[x]
      PROVE  FALSE
  <2>1. Above(y) \in T
    OBVIOUS
  <2>2. Above(y) \subseteq Above(x)
    BY <1>6
  <2>3. x \in Above(x) /\ x \notin Above(y)
    BY <1>6
  <2>4. <<Above(y), U>> \in StrictSubsetOrdering(I)
    BY <1>5, <2>2, <2>3 DEF StrictSubsetOrdering
  <2>5. QED BY <1>4, <2>1, <2>4
<1>7. \A y \in I : f[x] >= f[y]
  BY <1>6
<1>8. QED BY <1>7

\* A sequence whose elements are replaced is a sequence of the same length.
LEMMA Replaced ==
  ASSUME NEW S, NEW q \in Seq(S), NEW f, f \in [DOMAIN q -> S]
  PROVE  f \in Seq(S) /\ Len(f) = Len(q) /\ DOMAIN f = 1..Len(q)
<1>1. DOMAIN q = 1..Len(q) /\ Len(q) \in Nat
  BY LenProperties
<1>2. f \in [1..Len(q) -> S]
  BY <1>1
<1>3. f \in Seq(S)
  BY <1>1, <1>2, SeqDef
<1>4. DOMAIN f = 1..Len(f) /\ Len(f) \in Nat
  BY <1>3, LenProperties
<1>5. 1..Len(f) = 1..Len(q)
  BY <1>2, <1>4
<1>6. Len(f) = Len(q)
  BY <1>1, <1>4, <1>5
<1>7. QED BY <1>3, <1>2, <1>6

\* The bounds are numbers.
LEMMA BoundFacts ==
  /\ TimeLimit \in Nat /\ BrowserGrace \in Nat /\ MaxAttempts \in Nat /\ MaxVersion \in Nat
  /\ TimeLimit \in 0..TimeLimit /\ 0 \in 0..(BrowserGrace + 1)
<1>1. TimeLimit \in Nat /\ BrowserGrace \in Nat /\ MaxAttempts \in Nat /\ MaxVersion \in Nat
  OBVIOUS
<1>2. QED BY <1>1

\* The fields of a row.
LEMMA RowFields ==
  ASSUME NEW a \in Attempt
  PROVE  /\ a.status \in Statuses /\ a.current \in BOOLEAN /\ a.reason \in Reasons \union {""}
         /\ a.left \in 0..TimeLimit /\ a.rev \in Nat /\ a.subs \in Seq(Submission)
         /\ a.result \in Result /\ a.age \in 0..(BrowserGrace + 1)
         /\ a.result.revision \in Nat
         /\ Len(a.subs) \in Nat /\ DOMAIN a.subs = 1..Len(a.subs)
         /\ \A i \in 1..Len(a.subs) : a.subs[i] \in Submission
<1>1. a.subs \in Seq(Submission) /\ a.result \in Result
  BY DEF Attempt
<1>2. a.result.revision \in Nat
  BY <1>1 DEF Result
<1>3. /\ Len(a.subs) \in Nat /\ DOMAIN a.subs = 1..Len(a.subs)
      /\ \A i \in 1..Len(a.subs) : a.subs[i] \in Submission
  BY <1>1, LenProperties, ElementOfSeq
<1>4. QED BY <1>1, <1>2, <1>3 DEF Attempt

\* A set of the submissions of a row is finite.
LEMMA SubsFinite ==
  ASSUME NEW a \in Attempt, NEW I \in SUBSET (1..Len(a.subs))
  PROVE  IsFiniteSet(I) /\ Cardinality(I) \in Nat
<1> DEFINE n == Len(a.subs)
<1>1. n \in Nat
  BY RowFields
<1> HIDE DEF n
<1>2. IsFiniteSet(1..n)
  <2>1. n \in Int /\ 1 \in Int
    BY <1>1
  <2>2. QED BY <2>1, FS_Interval
<1>3. IsFiniteSet(I)
  BY <1>2, FS_Subset DEF n
<1>4. QED BY <1>3, FS_CardinalityType

\* The score of a row is a score.
LEMMA ScoreType ==
  ASSUME NEW a \in Attempt
  PROVE  Score(a) \in Scores
<1> DEFINE I == {j \in Counted(a) : a.subs[j].status = "scored"}
           f == [j \in I |-> a.subs[j].score]
<1>1. CASE Best(a) = {}
  BY <1>1 DEF Score
<1>2. CASE Best(a) # {}
  <2>1. I \in SUBSET (1..Len(a.subs))
    BY DEF Counted
  <2>2. \A j \in I : a.subs[j].score \in Scores
    BY <2>1, RowFields DEF Submission
  <2>3. \A j \in I : f[j] = a.subs[j].score /\ f[j] \in Nat
    BY <2>2
  <2>4. IsFiniteSet(I)
    BY <2>1, SubsFinite
  <2>5. I # {}
    BY <1>2 DEF Best
  <2>6. PICK i \in I : \A j \in I : f[i] >= f[j]
    <3> HIDE DEF I, f
    <3>1. QED BY <2>3, <2>4, <2>5, Highest
  <2>7. Best(a) = {a.subs[j].score : j \in I}
    BY DEF Best
  <2>8. \E x \in Best(a) : \A y \in Best(a) : x >= y
    BY <2>3, <2>6, <2>7
  <2>9. Max(Best(a)) \in Best(a)
    BY <2>8 DEF Max
  <2>10. QED BY <1>2, <2>2, <2>7, <2>9 DEF Score
<1>3. QED BY <1>1, <1>2
\* What is computed from the submissions is the same while they are.
LEMMA SameSubs ==
  ASSUME NEW a, NEW b, b.subs = a.subs
  PROVE  /\ Counted(b) = Counted(a) /\ ActiveGrades(b) = ActiveGrades(a)
         /\ Best(b) = Best(a) /\ Score(b) = Score(a) /\ Issues(b) = Issues(a)
         /\ RunnerGrades(b) = RunnerGrades(a)
<1>1. Counted(b) = Counted(a) /\ RunnerGrades(b) = RunnerGrades(a)
  BY DEF Counted, RunnerGrades
<1>2. ActiveGrades(b) = ActiveGrades(a) /\ Best(b) = Best(a) /\ (HasIssue(b) <=> HasIssue(a))
  BY <1>1 DEF ActiveGrades, Best, HasIssue
<1>3. QED BY <1>1, <1>2 DEF Score, Issues

-----------------------------------------------------------------------------
(* Rows *)

\* What the invariants say of a row.
Graded(a) ==
  /\ ActiveGrades(a) = {}
  /\ a.result.score = Score(a) /\ a.result.issue = Issues(a)
  /\ a.result.graded = a.rev

\* The results a row has had, the one under way included.
Results(a) == a.result.revision + (IF a.status = "settling" THEN 1 ELSE 0)
\* Of ResultsExplained, what is said of a row.
Explained(a) ==
  /\ Active(a) => Results(a) = 0
  /\ Results(a) <= 2 \/ Results(a) <= 1 + Cardinality(RunnerGrades(a))

\* All that is kept of a row.
RowInv(a) ==
  /\ a \in Attempt
  /\ Active(a) => a.current
  /\ a.status = "settling" => a.reason \in Reasons
  /\ a.status \in Final => a.status = a.reason /\ Graded(a)
  /\ Explained(a)

\* What a step may do to a locked row.
Locked(a, b) ==
  /\ b.status # "in_progress" /\ b.rev = a.rev /\ b.reason = a.reason
  /\ Len(b.subs) > Len(a.subs)
       => \/ b.subs[Len(b.subs)].by = "browser"
          \/ a.status \in Final /\ a.result.issue > 0

\* What a step may do to a row.
RowStep(a, b) ==
  /\ RowInv(b)
  /\ b.current => a.current
  /\ ~Active(a) => Locked(a, b)

\* The numbers a row's results are counted with.
LEMMA ResultsType ==
  ASSUME NEW a \in Attempt
  PROVE  Results(a) \in Nat /\ Cardinality(RunnerGrades(a)) \in Nat
<1>1. RunnerGrades(a) \in SUBSET (1..Len(a.subs))
  BY DEF RunnerGrades
<1>2. Cardinality(RunnerGrades(a)) \in Nat
  BY <1>1, SubsFinite
<1>3. a.result.revision \in Nat
  BY RowFields
<1>4. QED BY <1>2, <1>3 DEF Results

LEMMA RowStays ==
  ASSUME NEW a, RowInv(a)
  PROVE  RowStep(a, a)
<1>1. Len(a.subs) \in Nat
  BY RowFields DEF RowInv
<1>2. QED BY <1>1 DEF RowStep, Locked, Active

\* A row that is graded for good.
LEMMA FinalizedRow ==
  ASSUME NEW a, RowInv(a), a.status = "settling", ActiveGrades(a) = {}
  PROVE  RowStep(a, Finalized(a))
<1> DEFINE b == Finalized(a)
           revision == a.result.revision + 1
           result == [score |-> Score(a), graded |-> a.rev, issue |-> Issues(a),
                      revision |-> revision]
<1>1. a \in Attempt /\ a.reason \in Reasons /\ a.rev \in Nat /\ Len(a.subs) \in Nat
  BY RowFields DEF RowInv
<1>2. Score(a) \in Scores /\ Issues(a) \in 0..1 /\ revision \in Nat
  <2>1. a.result.revision \in Nat
    BY <1>1, RowFields
  <2>2. Score(a) \in Scores
    BY <1>1, ScoreType
  <2>3. QED BY <2>1, <2>2 DEF Issues
<1>3. b = [a EXCEPT !.status = a.reason, !.age = 0, !.result = result]
  BY DEF Finalized
<1> HIDE DEF b, revision
<1>4. result \in Result
  BY <1>1, <1>2 DEF Result
<1> HIDE DEF result
<1>5. /\ b \in Attempt
      /\ b.status = a.reason /\ b.reason = a.reason /\ b.current = a.current
      /\ b.subs = a.subs /\ b.rev = a.rev /\ b.result = result
  BY <1>1, <1>3, <1>4, BoundFacts DEF Attempt, Statuses, Final
<1>6. b.status \in Final /\ b.status # "settling" /\ ~Active(b)
  BY <1>1, <1>5 DEF Final, Reasons, Active
<1>7. Graded(b)
  <2>1. ActiveGrades(b) = {} /\ Score(b) = Score(a) /\ Issues(b) = Issues(a)
    BY <1>5, SameSubs
  <2>2. QED BY <1>5, <2>1 DEF Graded, result
<1>8. Explained(b)
  <2>1. RunnerGrades(b) = RunnerGrades(a)
    BY <1>5, SameSubs
  <2>2. Results(b) = revision
    BY <1>2, <1>5, <1>6 DEF Results, result
  <2>3. Results(a) = revision
    BY DEF Results, revision
  <2>4. QED BY <1>6, <2>1, <2>2, <2>3 DEF RowInv, Explained
<1>9. QED BY <1>1, <1>5, <1>6, <1>7, <1>8 DEF RowStep, RowInv, Locked, Active, b

\* A paper in progress that is locked, for whatever reason.
LEMMA SettlingRow ==
  ASSUME NEW a, RowInv(a), Active(a), NEW reason \in Reasons
  PROVE  RowStep(a, Settling(a, reason)) /\ Settling(a, reason).subs = a.subs
<1> DEFINE b == Settling(a, reason)
<1>1. a \in Attempt /\ a.current /\ Results(a) = 0
  BY DEF RowInv, Explained
<1>2. /\ b \in Attempt /\ b.status = "settling" /\ b.reason = reason
      /\ b.current = a.current /\ b.subs = a.subs /\ b.result = a.result
  BY <1>1 DEF Settling, Attempt, Statuses, Reasons
<1>3. a.result.revision = 0
  <2>1. a.result.revision \in Nat
    BY <1>1, RowFields
  <2>2. QED BY <1>1, <2>1 DEF Results, Active
<1>4. Results(b) = 1
  BY <1>2, <1>3 DEF Results
<1>5. Explained(b)
  BY <1>2, <1>4 DEF Explained, Active
<1>6. b.status \notin Final
  BY <1>2 DEF Final, Reasons
<1>7. QED BY <1>1, <1>2, <1>5, <1>6 DEF RowStep, RowInv, Active

\* A paper that is not in progress and becomes history.
LEMMA HistoricRow ==
  ASSUME NEW a, RowInv(a), ~Active(a)
  PROVE  RowStep(a, Historic(a)) /\ ~Historic(a).current
<1> DEFINE b == Historic(a)
<1>1. a \in Attempt /\ Len(a.subs) \in Nat
  BY RowFields DEF RowInv
<1>2. /\ b \in Attempt /\ b.status = a.status /\ b.reason = a.reason /\ b.rev = a.rev
      /\ ~b.current /\ b.subs = a.subs /\ b.result = a.result
  BY <1>1 DEF Historic, Attempt
<1>3. /\ ActiveGrades(b) = ActiveGrades(a) /\ Score(b) = Score(a) /\ Issues(b) = Issues(a)
      /\ RunnerGrades(b) = RunnerGrades(a)
  BY <1>2, SameSubs
<1>4. Explained(b)
  BY <1>2, <1>3 DEF RowInv, Explained, Results, Active
<1>5. a.status \in Final => b.status = b.reason /\ Graded(b)
  BY <1>2, <1>3 DEF RowInv, Graded
<1> HIDE DEF b
<1>6. RowInv(b) /\ Locked(a, b)
  BY <1>1, <1>2, <1>4, <1>5 DEF RowInv, Locked, Active
<1>7. QED BY <1>2, <1>6 DEF RowStep, b

\* Answers that are saved.
LEMMA SavedRow ==
  ASSUME NEW a, RowInv(a), Active(a)
  PROVE  RowStep(a, [a EXCEPT !.rev = @ + 1])
<1> DEFINE rev == a.rev + 1
           b == [a EXCEPT !.rev = rev]
<1>1. a \in Attempt /\ a.current
  BY DEF RowInv
<1>2. rev \in Nat
  <2>1. a.rev \in Nat
    BY <1>1, RowFields
  <2>2. QED BY <2>1
<1> HIDE DEF rev
<1>3. /\ b \in Attempt /\ b.status = a.status /\ b.current = a.current
      /\ b.subs = a.subs /\ b.result = a.result
  BY <1>1, <1>2 DEF Attempt
<1>4. RunnerGrades(b) = RunnerGrades(a)
  BY <1>3, SameSubs
<1>5. Explained(b)
  BY <1>3, <1>4 DEF RowInv, Explained, Results, Active
<1>6. RowStep(a, b)
  BY <1>1, <1>3, <1>5 DEF RowStep, RowInv, Active, Final, Reasons
<1>7. QED BY <1>6 DEF rev
\* The row of a new attempt.
LEMMA NewRow ==
  /\ RowInv(NewAttempt) /\ NewAttempt.current
<1> DEFINE b == NewAttempt
<1>1. <<>> \in Seq(Submission) /\ NoResult \in Result
  BY DEF NoResult, Result
<1>2. /\ b \in Attempt /\ b.status = "in_progress" /\ b.current
      /\ b.result = NoResult
  BY <1>1, BoundFacts DEF NewAttempt, Attempt, Statuses
<1>3. Results(b) = 0
  BY <1>2 DEF Results, NoResult
<1>4. QED BY <1>2, <1>3 DEF RowInv, Explained, Active, Final, Reasons

\* A grade task that is added to a row.
LEMMA WithGradeFacts ==
  ASSUME NEW a \in Attempt
  PROVE  /\ WithGrade(a) \in Attempt
         /\ WithGrade(a).status = a.status /\ WithGrade(a).current = a.current
         /\ WithGrade(a).reason = a.reason /\ WithGrade(a).rev = a.rev
         /\ WithGrade(a).result = a.result
         /\ Cardinality(RunnerGrades(WithGrade(a))) = Cardinality(RunnerGrades(a)) + 1
<1> DEFINE grade == [by |-> "runner", status |-> "active", score |-> 0, counts |-> TRUE]
           subs == Append(a.subs, grade)
           n == Len(a.subs)
<1>1. grade \in Submission
  BY DEF Submission
<1>2. a.subs \in Seq(Submission) /\ n \in Nat
  BY RowFields
<1>3. /\ subs \in Seq(Submission) /\ Len(subs) = n + 1
      /\ \A i \in 1..n : subs[i] = a.subs[i]
      /\ subs[n + 1] = grade
  BY <1>1, <1>2, AppendProperties
<1>4. WithGrade(a) = [a EXCEPT !.subs = subs]
  BY DEF WithGrade
<1>5. subs[n + 1].by = "runner"
  BY <1>3
<1> HIDE DEF subs, grade, n
<1>6. /\ WithGrade(a) \in Attempt
      /\ WithGrade(a).status = a.status /\ WithGrade(a).current = a.current
      /\ WithGrade(a).reason = a.reason /\ WithGrade(a).rev = a.rev
      /\ WithGrade(a).result = a.result /\ WithGrade(a).subs = subs
  BY <1>3, <1>4 DEF Attempt
<1>7. RunnerGrades(a) = {i \in 1..n : a.subs[i].by = "runner"}
  BY DEF RunnerGrades, n
<1>8. RunnerGrades(WithGrade(a)) = {i \in 1..(n + 1) : subs[i].by = "runner"}
  BY <1>3, <1>6 DEF RunnerGrades
<1>9. RunnerGrades(WithGrade(a)) = RunnerGrades(a) \union {n + 1}
  BY SMTT(30), <1>2, <1>3, <1>5, <1>7, <1>8
<1>10. IsFiniteSet(RunnerGrades(a)) /\ n + 1 \notin RunnerGrades(a)
  <2>1. RunnerGrades(a) \in SUBSET (1..Len(a.subs))
    BY DEF RunnerGrades
  <2>2. n + 1 \notin RunnerGrades(a)
    BY <1>2, <1>7
  <2>3. QED BY <2>1, <2>2, SubsFinite
<1>11. Cardinality(RunnerGrades(WithGrade(a))) = Cardinality(RunnerGrades(a)) + 1
  BY <1>9, <1>10, FS_AddElement
<1>12. QED BY <1>6, <1>11

\* A student's grade task.
LEMMA EnqueuedRow ==
  ASSUME NEW a, RowInv(a), Active(a)
  PROVE  RowStep(a, WithGrade(a))
<1> DEFINE b == WithGrade(a)
<1>1. a \in Attempt /\ a.current /\ Results(a) = 0
  BY DEF RowInv, Explained
<1>2. /\ b \in Attempt /\ b.status = a.status /\ b.current = a.current /\ b.result = a.result
  BY <1>1, WithGradeFacts
<1> HIDE DEF b
<1>3. Results(b) = 0
  BY <1>1, <1>2 DEF Results
<1>4. RowStep(a, b)
  BY <1>1, <1>2, <1>3 DEF RowStep, RowInv, Explained, Active, Final, Reasons
<1>5. QED BY <1>4 DEF b

\* A regrade of a settled row that a failed grading left without a score.
LEMMA RegradedRow ==
  ASSUME NEW a, RowInv(a), a.status \in Final, a.result.issue > 0, RunnerGrades(a) # {}
  PROVE  RowStep(a, [WithGrade(a) EXCEPT !.status = "settling"])
<1> DEFINE w == WithGrade(a)
           b == [w EXCEPT !.status = "settling"]
           c == Cardinality(RunnerGrades(a))
<1>1. a \in Attempt /\ a.status = a.reason
  BY DEF RowInv
<1>2. /\ w \in Attempt /\ w.current = a.current /\ w.reason = a.reason /\ w.rev = a.rev
      /\ w.result = a.result /\ Cardinality(RunnerGrades(w)) = c + 1
  BY <1>1, WithGradeFacts
<1> HIDE DEF w
<1>3. /\ b \in Attempt /\ b.status = "settling" /\ b.current = a.current /\ b.reason = a.reason
      /\ b.rev = a.rev /\ b.result = a.result /\ b.subs = w.subs
  BY <1>2 DEF Attempt, Statuses
<1>4. Cardinality(RunnerGrades(b)) = c + 1
  BY <1>2, <1>3, SameSubs
<1>5. c \in Nat /\ c # 0
  <2>1. RunnerGrades(a) \in SUBSET (1..Len(a.subs))
    BY DEF RunnerGrades
  <2>2. IsFiniteSet(RunnerGrades(a)) /\ c \in Nat
    BY <1>1, <2>1, SubsFinite
  <2>3. QED BY <2>2, FS_EmptySet
<1>6. a.status # "settling" /\ ~Active(a) /\ a.reason \in Reasons
  BY <1>1 DEF Final, Reasons, Active
<1> HIDE DEF b, c
<1>7. a.result.revision \in Nat
  BY <1>1, RowFields
<1>8. Results(a) = a.result.revision /\ Results(b) = a.result.revision + 1
  BY <1>3, <1>6, <1>7 DEF Results
<1>9. Results(a) <= 2 \/ Results(a) <= 1 + c
  BY DEF RowInv, Explained, c
<1>10. Results(b) <= 1 + (c + 1)
  BY <1>5, <1>7, <1>8, <1>9
<1>11. Explained(b)
  BY <1>3, <1>4, <1>10 DEF Explained, Active
<1>12. RowInv(b)
  BY <1>3, <1>6, <1>11 DEF RowInv, Active, Final, Reasons
<1>13. QED BY <1>3, <1>12 DEF RowStep, Locked, b, w
\* What the browser sends takes the place of all that counted.
LEMMA StoreFacts ==
  ASSUME NEW a \in Attempt, NEW local \in Local, local.given # "nothing"
  PROVE  LET b == StoreLocalProgramming(a, local) IN
         /\ b \in Attempt
         /\ b.status = a.status /\ b.current = a.current /\ b.reason = a.reason
         /\ b.rev = a.rev /\ b.result = a.result
         /\ Len(b.subs) > Len(a.subs) => b.subs[Len(b.subs)].by = "browser"
         /\ RunnerGrades(b) = RunnerGrades(a)
<1> DEFINE n == Len(a.subs)
           old == [i \in DOMAIN a.subs |-> [a.subs[i] EXCEPT !.counts = FALSE]]
           sub == [by |-> "browser", status |-> local.given, score |-> local.score, counts |-> TRUE]
           subs == IF local.given = "empty" THEN old ELSE Append(old, sub)
           b == StoreLocalProgramming(a, local)
<1>1. /\ n \in Nat /\ DOMAIN a.subs = 1..n /\ a.subs \in Seq(Submission)
      /\ \A i \in 1..n : a.subs[i] \in Submission
  BY RowFields
<1>2. \A i \in 1..n : old[i] \in Submission /\ old[i].by = a.subs[i].by
  BY <1>1 DEF Submission
<1>3. old \in Seq(Submission) /\ Len(old) = n
  <2>1. old = [i \in 1..n |-> old[i]]
    BY <1>1
  <2>2. old \in [1..n -> Submission]
    BY <1>2, <2>1
  <2> HIDE DEF old
  <2>3. old \in [DOMAIN a.subs -> Submission]
    BY <1>1, <2>2
  <2>4. QED BY <1>1, <2>3, Replaced
<1>4. local.given = "empty" \/ (local.given \in {"failed", "scored"} /\ local.score \in Scores)
  BY DEF Local
<1>5. local.given # "empty" => sub \in Submission /\ sub.by = "browser"
  BY <1>4 DEF Submission
<1>6. b = [a EXCEPT !.subs = subs]
  BY DEF StoreLocalProgramming
<1> HIDE DEF old, sub, n
<1>7. CASE local.given = "empty"
  <2>1. subs = old
    BY <1>7
  <2> HIDE DEF subs
  <2>2. /\ b \in Attempt /\ b.status = a.status /\ b.current = a.current /\ b.reason = a.reason
        /\ b.rev = a.rev /\ b.result = a.result /\ b.subs = old
    BY <1>3, <1>6, <2>1 DEF Attempt
  <2> HIDE DEF b
  <2>3. RunnerGrades(b) = {i \in 1..n : old[i].by = "runner"}
    BY <1>3, <2>2 DEF RunnerGrades
  <2>4. RunnerGrades(a) = {i \in 1..n : a.subs[i].by = "runner"}
    BY DEF RunnerGrades, n
  <2>5. RunnerGrades(b) = RunnerGrades(a)
    BY <1>2, <2>3, <2>4
  <2>6. ~(Len(b.subs) > Len(a.subs))
    BY <1>1, <1>3, <2>2 DEF n
  <2>7. QED BY <2>2, <2>5, <2>6 DEF b
<1>8. CASE local.given # "empty"
  <2>1. subs = Append(old, sub)
    BY <1>8
  <2>2. /\ subs \in Seq(Submission) /\ Len(subs) = n + 1
        /\ \A i \in 1..n : subs[i] = old[i]
        /\ subs[n + 1] = sub
    BY <1>3, <1>5, <1>8, <2>1, AppendProperties
  <2> HIDE DEF subs
  <2>3. /\ b \in Attempt /\ b.status = a.status /\ b.current = a.current /\ b.reason = a.reason
        /\ b.rev = a.rev /\ b.result = a.result /\ b.subs = subs
    BY <1>6, <2>2 DEF Attempt
  <2> HIDE DEF b
  <2>4. RunnerGrades(b) = {i \in 1..(n + 1) : subs[i].by = "runner"}
    BY <2>2, <2>3 DEF RunnerGrades
  <2>5. RunnerGrades(a) = {i \in 1..n : a.subs[i].by = "runner"}
    BY DEF RunnerGrades, n
  <2>6. subs[n + 1].by = "browser"
    BY <1>5, <1>8, <2>2
  <2>7. \A i \in 1..n : subs[i].by = a.subs[i].by
    BY <1>2, <2>2
  <2>8. RunnerGrades(b) = RunnerGrades(a)
    <3>1. \A i \in 1..(n + 1) : subs[i].by = "runner" <=> i \in 1..n /\ a.subs[i].by = "runner"
      BY <1>1, <2>6, <2>7
    <3>2. 1..n \subseteq 1..(n + 1)
      BY <1>1
    <3>3. QED BY <2>4, <2>5, <3>1, <3>2
  <2>9. b.subs[Len(b.subs)].by = "browser"
    BY <2>2, <2>3, <2>6
  <2>10. QED BY <2>3, <2>8, <2>9 DEF b
<1>9. QED BY <1>7, <1>8

\* A browser score for a paper that is being settled.
LEMMA StoredRow ==
  ASSUME NEW a, RowInv(a), a.status = "settling", NEW local \in Local, local.given # "nothing"
  PROVE  RowStep(a, StoreLocalProgramming(a, local))
<1> DEFINE b == StoreLocalProgramming(a, local)
<1>1. a \in Attempt
  BY DEF RowInv
<1>2. /\ b \in Attempt
      /\ b.status = a.status /\ b.current = a.current /\ b.reason = a.reason
      /\ b.rev = a.rev /\ b.result = a.result
      /\ Len(b.subs) > Len(a.subs) => b.subs[Len(b.subs)].by = "browser"
      /\ RunnerGrades(b) = RunnerGrades(a)
  BY <1>1, StoreFacts
<1> HIDE DEF b
<1>3. Explained(b)
  BY <1>2 DEF RowInv, Explained, Results, Active
<1>4. RowInv(b)
  BY <1>2, <1>3 DEF RowInv, Active, Final, Reasons
<1>5. Locked(a, b)
  BY <1>2 DEF Locked
<1>6. QED BY <1>2, <1>4, <1>5 DEF RowStep, b

\* A late browser score.
LEMMA LateRow ==
  ASSUME NEW a, RowInv(a), LateScoreAccepted(a), NEW local \in Local, local.given # "nothing"
  PROVE  RowStep(a, [StoreLocalProgramming(a, local) EXCEPT !.status = "settling"])
<1> DEFINE w == StoreLocalProgramming(a, local)
           b == [w EXCEPT !.status = "settling"]
<1>1. a \in Attempt /\ a.status \in {"timed_out", "closed"} /\ a.result.revision = 1
  BY DEF RowInv, LateScoreAccepted
<1>2. a.status = a.reason
  BY <1>1 DEF RowInv, Final, Reasons
<1>3. /\ w \in Attempt /\ w.current = a.current /\ w.reason = a.reason
      /\ w.rev = a.rev /\ w.result = a.result
      /\ Len(w.subs) > Len(a.subs) => w.subs[Len(w.subs)].by = "browser"
  BY <1>1, StoreFacts
<1> HIDE DEF w
<1>4. /\ b \in Attempt /\ b.status = "settling" /\ b.current = a.current /\ b.reason = a.reason
      /\ b.rev = a.rev /\ b.result = a.result /\ b.subs = w.subs
  BY <1>3 DEF Attempt, Statuses
<1> HIDE DEF b
<1>5. Results(b) = 2
  BY <1>1, <1>4 DEF Results
<1>6. RowInv(b)
  BY <1>1, <1>2, <1>4, <1>5 DEF RowInv, Explained, Active, Final, Reasons
<1>7. Locked(a, b)
  BY <1>3, <1>4 DEF Locked
<1>8. QED BY <1>1, <1>4, <1>6, <1>7 DEF RowStep, b, w

\* A paper that is handed in, in time or too late, with or without a browser score.
LEMMA SubmittedRow ==
  ASSUME NEW a, RowInv(a), Active(a), NEW local \in Local, NEW saves \in BOOLEAN
  PROVE  RowStep(a, WithLocal(Submitted(a, saves), local))
<1> DEFINE b == Submitted(a, saves)
<1>1. RowStep(a, b) /\ b.status = "settling"
  <2>1. CASE Overdue(a)
    <3>1. b = Settling(a, "timed_out")
      BY <2>1 DEF Submitted
    <3>2. RowStep(a, Settling(a, "timed_out"))
      BY SettlingRow DEF Reasons
    <3>3. QED BY <3>1, <3>2 DEF Settling, RowInv, Attempt
  <2>2. CASE ~Overdue(a)
    <3> DEFINE w == [a EXCEPT !.rev = IF saves THEN @ + 1 ELSE @]
    <3>1. RowStep(a, w) /\ Active(w)
      <4>1. CASE saves
        <5>1. RowStep(a, [a EXCEPT !.rev = @ + 1])
          BY SavedRow
        <5>2. w = [a EXCEPT !.rev = @ + 1]
          BY <4>1
        <5>3. QED BY <5>1, <5>2 DEF Active
      <4>2. CASE ~saves
        <5>1. w = a
          BY <4>2 DEF RowInv, Attempt
        <5>2. QED BY <5>1, RowStays
      <4>3. QED BY <4>1, <4>2
    <3>2. b = Settling(w, "submitted")
      BY <2>2 DEF Submitted
    <3> HIDE DEF w, b
    <3>3. RowInv(w)
      BY <3>1 DEF RowStep
    <3>4. RowStep(w, Settling(w, "submitted"))
      BY <3>1, <3>3, SettlingRow DEF Reasons
    <3>5. Settling(w, "submitted").status = "settling"
      BY <3>3 DEF Settling, RowInv, Attempt
    <3>6. QED BY <3>1, <3>2, <3>4, <3>5 DEF RowStep
  <2>3. QED BY <2>1, <2>2
<1>2. CASE local.given = "nothing"
  BY <1>1, <1>2 DEF WithLocal
<1>3. CASE local.given # "nothing"
  <2> HIDE DEF b
  <2>1. RowInv(b)
    BY <1>1 DEF RowStep
  <2>2. RowStep(b, StoreLocalProgramming(b, local))
    BY <1>1, <1>3, <2>1, StoredRow
  <2>3. WithLocal(b, local) = StoreLocalProgramming(b, local)
    BY <1>3 DEF WithLocal
  <2>4. QED BY <1>1, <2>2, <2>3 DEF RowStep, b
<1>4. QED BY <1>2, <1>3
\* The Runner's result for a grade task.  A settled row is not owed one, so it
\* is the result of a task that no longer counts.
LEMMA FinishedRow ==
  ASSUME NEW a, RowInv(a), NEW i \in 1..Len(a.subs), a.subs[i].status = "active",
         NEW status \in {"scored", "failed"}, NEW score \in Scores
  PROVE  RowStep(a, [a EXCEPT !.subs[i].status = status, !.subs[i].score = score])
<1> DEFINE n == Len(a.subs)
           sub == [a.subs[i] EXCEPT !.status = status, !.score = score]
           subs == [a.subs EXCEPT ![i] = sub]
           b == [a EXCEPT !.subs = subs]
<1>1. a \in Attempt
  BY DEF RowInv
<1>2. /\ n \in Nat /\ DOMAIN a.subs = 1..n /\ a.subs \in Seq(Submission)
      /\ \A j \in 1..n : a.subs[j] \in Submission
  BY <1>1, RowFields
<1>3. sub \in Submission /\ sub.by = a.subs[i].by /\ sub.counts = a.subs[i].counts
        /\ sub.status = status
  BY <1>2 DEF Submission
<1>4. /\ subs \in Seq(Submission) /\ Len(subs) = n
      /\ \A j \in 1..n : subs[j] = IF j = i THEN sub ELSE a.subs[j]
  BY <1>2, <1>3, ExceptSeq
<1>5. b = [a EXCEPT !.subs[i].status = status, !.subs[i].score = score]
  BY <1>1 DEF Attempt
<1> HIDE DEF sub, subs
<1>6. /\ b \in Attempt /\ b.status = a.status /\ b.current = a.current /\ b.reason = a.reason
      /\ b.rev = a.rev /\ b.result = a.result /\ b.subs = subs
  BY <1>1, <1>4 DEF Attempt
<1> HIDE DEF b, n
<1>7. \A j \in 1..n : /\ b.subs[j].by = a.subs[j].by /\ b.subs[j].counts = a.subs[j].counts
                      /\ j # i => b.subs[j] = a.subs[j]
  BY <1>3, <1>4, <1>6
<1>8. Len(b.subs) = n /\ Len(a.subs) = n
  BY <1>4, <1>6 DEF n
<1>9. RunnerGrades(b) = RunnerGrades(a) /\ Counted(b) = Counted(a)
  BY <1>7, <1>8 DEF RunnerGrades, Counted
<1>10. Explained(b)
  BY <1>6, <1>9 DEF RowInv, Explained, Results, Active
<1>11. ASSUME a.status \in Final
       PROVE  b.status = b.reason /\ Graded(b)
  <2>1. Graded(a) /\ a.status = a.reason
    BY <1>11 DEF RowInv
  <2>2. i \notin Counted(a)
    BY <2>1 DEF Graded, ActiveGrades
  <2>3. \A j \in Counted(a) : b.subs[j] = a.subs[j]
    BY <1>7, <1>8, <2>2 DEF Counted
  <2>4. ActiveGrades(b) = ActiveGrades(a)
    BY <1>9, <2>3 DEF ActiveGrades
  <2>5. Best(b) = Best(a)
    BY <1>9, <2>3 DEF Best
  <2>6. HasIssue(b) <=> HasIssue(a)
    BY <1>9, <2>3 DEF HasIssue
  <2>7. Score(b) = Score(a) /\ Issues(b) = Issues(a)
    BY <2>5, <2>6 DEF Score, Issues
  <2>8. QED BY <1>6, <2>1, <2>4, <2>7 DEF Graded
<1>12. RowInv(b)
  BY <1>6, <1>10, <1>11 DEF RowInv, Active
<1>13. ~(Len(b.subs) > Len(a.subs))
  BY <1>2, <1>8
<1>14. RowStep(a, b)
  BY <1>6, <1>12, <1>13 DEF RowStep, Locked, Active
<1>15. QED BY <1>5, <1>14

\* Time that passes.
LEMMA OlderRow ==
  ASSUME NEW a, RowInv(a)
  PROVE  RowStep(a, Older(a))
<1>1. a \in Attempt /\ a.left \in Nat /\ a.left <= TimeLimit /\ a.age \in Nat
        /\ Len(a.subs) \in Nat
  <2>1. a \in Attempt
    BY DEF RowInv
  <2>2. a.left \in 0..TimeLimit /\ a.age \in 0..(BrowserGrace + 1) /\ Len(a.subs) \in Nat
    BY <2>1, RowFields
  <2>3. QED BY <2>1, <2>2, BoundFacts
<1>2. ASSUME NEW b, b \in Attempt, b.status = a.status, b.current = a.current,
             b.reason = a.reason, b.rev = a.rev, b.result = a.result, b.subs = a.subs
      PROVE  RowStep(a, b)
  <2>1. /\ ActiveGrades(b) = ActiveGrades(a) /\ Score(b) = Score(a) /\ Issues(b) = Issues(a)
        /\ RunnerGrades(b) = RunnerGrades(a)
    BY <1>2, SameSubs
  <2>2. Explained(b)
    BY <1>2, <2>1 DEF RowInv, Explained, Results, Active
  <2>3. a.status \in Final => b.status = b.reason /\ Graded(b)
    BY <1>2, <2>1 DEF RowInv, Graded
  <2>4. RowInv(b)
    BY <1>2, <2>2, <2>3 DEF RowInv, Active
  <2>5. QED BY <1>1, <1>2, <2>4 DEF RowStep, Locked, Active
<1>3. CASE a.status = "in_progress" /\ a.left > 0
  <2> DEFINE left == a.left - 1
  <2>1. left \in 0..TimeLimit
    BY <1>1, <1>3, BoundFacts
  <2>2. Older(a) = [a EXCEPT !.left = left]
    BY <1>3 DEF Older, Final, Reasons
  <2> HIDE DEF left
  <2> DEFINE b == [a EXCEPT !.left = left]
  <2>3. /\ b \in Attempt /\ b.status = a.status /\ b.current = a.current
        /\ b.reason = a.reason /\ b.rev = a.rev /\ b.result = a.result /\ b.subs = a.subs
    BY <1>1, <2>1 DEF Attempt
  <2> HIDE DEF b
  <2>4. RowStep(a, b)
    BY <1>2, <2>3
  <2>5. QED BY <2>2, <2>4 DEF b
<1>4. CASE a.status \in Final /\ a.age <= BrowserGrace
  <2> DEFINE age == a.age + 1
  <2>1. age \in 0..(BrowserGrace + 1)
    BY <1>1, <1>4, BoundFacts
  <2>2. Older(a) = [a EXCEPT !.age = age]
    BY <1>4 DEF Older, Final, Reasons
  <2> HIDE DEF age
  <2> DEFINE b == [a EXCEPT !.age = age]
  <2>3. /\ b \in Attempt /\ b.status = a.status /\ b.current = a.current
        /\ b.reason = a.reason /\ b.rev = a.rev /\ b.result = a.result /\ b.subs = a.subs
    BY <1>1, <2>1 DEF Attempt
  <2> HIDE DEF b
  <2>4. RowStep(a, b)
    BY <1>2, <2>3
  <2>5. QED BY <2>2, <2>4 DEF b
<1>5. CASE ~(a.status = "in_progress" /\ a.left > 0) /\ ~(a.status \in Final /\ a.age <= BrowserGrace)
  BY <1>5, RowStays DEF Older
<1>6. QED BY <1>3, <1>4, <1>5

\* A row that is reset.
LEMMA ResetRow ==
  ASSUME NEW a, RowInv(a)
  PROVE  RowStep(a, [a EXCEPT !.status = "reset", !.current = FALSE])
<1> DEFINE b == [a EXCEPT !.status = "reset", !.current = FALSE]
           c == Cardinality(RunnerGrades(a))
<1>1. a \in Attempt
  BY DEF RowInv
<1>2. a.result.revision \in Nat /\ Len(a.subs) \in Nat /\ c \in Nat
  BY <1>1, RowFields, ResultsType
<1>3. /\ b \in Attempt /\ b.status = "reset" /\ ~b.current /\ b.reason = a.reason
      /\ b.rev = a.rev /\ b.result = a.result /\ b.subs = a.subs
  BY <1>1 DEF Attempt, Statuses
<1> HIDE DEF b
<1>4. Cardinality(RunnerGrades(b)) = c
  BY <1>3, SameSubs
<1> HIDE DEF c
<1>5. Results(b) = a.result.revision /\ Results(b) <= Results(a) /\ Results(a) \in Nat
  BY SMTT(30), <1>2, <1>3 DEF Results
<1>6. Results(a) <= 2 \/ Results(a) <= 1 + c
  BY DEF RowInv, Explained, c
<1>7. Results(b) <= 2 \/ Results(b) <= 1 + c
  <2>1. Results(b) \in Nat
    BY <1>2, <1>5
  <2>2. QED BY <1>2, <1>5, <1>6, <2>1
<1>8. RowInv(b)
  BY <1>3, <1>4, <1>7 DEF RowInv, Explained, Active, Final, Reasons
<1>9. RowStep(a, b)
  BY <1>2, <1>3, <1>8 DEF RowStep, Locked
<1>10. QED BY <1>9 DEF b
-----------------------------------------------------------------------------
(* Steps *)

\* What is shown to be inductive.
SettlementInv == AttemptsInv /\ GradedOnEverything /\ ResultsExplained

\* All a student's rows have their invariant, and one at most is current.
LEMMA Rows ==
  ASSUME SettlementInv, NEW s \in Student
  PROVE  /\ attempt[s] \in Seq(Attempt)
         /\ Len(attempt[s]) \in 0..MaxAttempts /\ DOMAIN attempt[s] = 1..Len(attempt[s])
         /\ \A n \in 1..Len(attempt[s]) : RowInv(attempt[s][n]) /\ <<s, n>> \in Ids
         /\ \A m, n \in 1..Len(attempt[s]) :
              attempt[s][m].current /\ attempt[s][n].current => m = n
<1>1. attempt[s] \in Seq(Attempt) /\ Len(attempt[s]) <= MaxAttempts
  BY DEF SettlementInv, AttemptsInv, TypeOK
<1>2. Len(attempt[s]) \in 0..MaxAttempts /\ DOMAIN attempt[s] = 1..Len(attempt[s])
  BY <1>1, LenProperties, BoundFacts
<1>3. ASSUME NEW n \in 1..Len(attempt[s])
      PROVE  /\ <<s, n>> \in Ids /\ Row(<<s, n>>) = attempt[s][n]
             /\ attempt[s][n] \in Attempt
  <2>1. n \in 1..MaxAttempts
    BY <1>2, BoundFacts
  <2>2. QED BY <1>1, <2>1, ElementOfSeq DEF Ids, Row
<1>4. ASSUME NEW n \in 1..Len(attempt[s])
      PROVE  RowInv(attempt[s][n])
  <2> DEFINE a == attempt[s][n]
  <2>1. <<s, n>> \in Ids /\ Row(<<s, n>>) = a /\ a \in Attempt
    BY <1>3
  <2>2. Active(a) => a.current
    BY <2>1 DEF SettlementInv, AttemptsInv, InProgressIsCurrent
  <2>3. /\ a.status = "settling" => a.reason \in Reasons
        /\ a.status \in Final => a.status = a.reason
    BY <2>1 DEF SettlementInv, AttemptsInv, ReasonKnown
  <2>4. a.status \in Final => Graded(a)
    BY <2>1 DEF SettlementInv, GradedOnEverything, Graded
  <2>5. Explained(a)
    BY <2>1 DEF SettlementInv, ResultsExplained, Explained, Results
  <2>6. QED BY <2>1, <2>2, <2>3, <2>4, <2>5 DEF RowInv
<1>5. ASSUME NEW m \in 1..Len(attempt[s]), NEW n \in 1..Len(attempt[s]),
             attempt[s][m].current, attempt[s][n].current
      PROVE  m = n
  <2>1. <<s, n>> \in Ids /\ Row(<<s, n>>) = attempt[s][n]
    BY <1>3
  <2>2. <<s, n>>[1] = s /\ <<s, n>>[2] = n
    OBVIOUS
  <2>3. QED BY <1>5, <2>1, <2>2 DEF SettlementInv, AttemptsInv, InProgressIsCurrent
<1>6. QED BY <1>1, <1>2, <1>3, <1>4, <1>5

\* A student whose rows stay in place, each of them taking a step.
Kept(s) ==
  /\ Len(attempt'[s]) = Len(attempt[s])
  /\ \A n \in 1..Len(attempt[s]) : RowStep(attempt[s][n], attempt'[s][n])

\* A student who starts: his rows become history.
Restarted(s) ==
  /\ Len(attempt[s]) < MaxAttempts
  /\ Len(attempt'[s]) = Len(attempt[s]) + 1
  /\ \A n \in 1..Len(attempt[s]) :
       RowStep(attempt[s][n], attempt'[s][n]) /\ ~attempt'[s][n].current
  /\ RowInv(attempt'[s][Len(attempt[s]) + 1])

\* What a step does to the rows of all students.
RowsMove ==
  /\ attempt' \in [Student -> Seq(Attempt)]
  /\ \A s \in Student : Kept(s) \/ Restarted(s)

\* A step that leaves the rows alone.
LEMMA SameRows ==
  ASSUME SettlementInv, UNCHANGED attempt
  PROVE  RowsMove
<1>1. \A s \in Student : \A n \in 1..Len(attempt[s]) : RowStep(attempt[s][n], attempt[s][n])
  BY Rows, RowStays
<1>2. attempt \in [Student -> Seq(Attempt)]
  BY DEF SettlementInv, AttemptsInv, TypeOK
<1>3. QED BY <1>1, <1>2 DEF RowsMove, Kept

\* A row that is named is one of its student's.
LEMMA IdFacts ==
  ASSUME SettlementInv, NEW id \in Ids
  PROVE  /\ id[1] \in Student /\ id[2] \in 1..Len(attempt[id[1]])
         /\ Row(id) = attempt[id[1]][id[2]] /\ RowInv(Row(id))
<1>1. id[1] \in Student /\ id[2] \in 1..MaxAttempts /\ id[2] <= Len(attempt[id[1]])
  BY DEF Ids
<1>2. Len(attempt[id[1]]) \in 0..MaxAttempts
  BY <1>1, Rows
<1>3. id[2] \in 1..Len(attempt[id[1]])
  BY <1>1, <1>2, BoundFacts
<1>4. QED BY <1>1, <1>3, Rows DEF Row

\* A step that writes one row.
LEMMA OneRow ==
  ASSUME SettlementInv, NEW id \in Ids, NEW b, RowStep(Row(id), b), Write(id, b)
  PROVE  RowsMove
<1> DEFINE s == id[1]
           n == id[2]
           q == [attempt[s] EXCEPT ![n] = b]
<1>1. s \in Student /\ n \in 1..Len(attempt[s]) /\ Row(id) = attempt[s][n]
  BY IdFacts
<1>2. attempt \in [Student -> Seq(Attempt)] /\ b \in Attempt
  BY DEF SettlementInv, AttemptsInv, TypeOK, RowStep, RowInv
<1> HIDE DEF s, n
<1>3. attempt' = [attempt EXCEPT ![s] = q]
  BY DEF Write, s, n
<1>4. /\ q \in Seq(Attempt) /\ Len(q) = Len(attempt[s])
      /\ \A m \in 1..Len(attempt[s]) : q[m] = IF m = n THEN b ELSE attempt[s][m]
  BY <1>1, <1>2, ExceptSeq
<1>5. \A r \in Student : \A m \in 1..Len(attempt[r]) : RowStep(attempt[r][m], attempt[r][m])
  BY Rows, RowStays
<1> HIDE DEF q
<1>6. attempt' \in [Student -> Seq(Attempt)]
  BY <1>2, <1>3, <1>4
<1>7. attempt'[s] = q
  BY <1>1, <1>2, <1>3
<1>8. Kept(s)
  BY <1>1, <1>4, <1>5, <1>7 DEF Kept
<1>9. \A r \in Student : r # s => Kept(r)
  BY <1>2, <1>3, <1>5 DEF Kept
<1>10. QED BY <1>6, <1>8, <1>9 DEF RowsMove
\* A paper whose time is found to be over.
LEMMA DeadlineRows ==
  ASSUME SettlementInv, NEW id \in Ids, MarkDeadlinePassed(id)
  PROVE  RowsMove
<1>1. RowInv(Row(id)) /\ Active(Row(id)) /\ Write(id, Settling(Row(id), "timed_out"))
  BY IdFacts DEF MarkDeadlinePassed
<1>2. RowStep(Row(id), Settling(Row(id), "timed_out"))
  BY <1>1, SettlingRow DEF Reasons
<1>3. QED BY <1>1, <1>2, OneRow

LEMMA StartRows ==
  ASSUME SettlementInv, NEW s \in Student, StartAttempt(s)
  PROVE  RowsMove
<1> DEFINE old == [n \in DOMAIN attempt[s] |-> Historic(attempt[s][n])]
           q == Append(old, NewAttempt)
<1>1. CASE \E n \in 1..Len(attempt[s]) : attempt[s][n].current /\ MarkDeadlinePassed(<<s, n>>)
  BY <1>1, Rows, DeadlineRows
<1>2. CASE /\ Len(attempt[s]) < MaxAttempts
           /\ \A n \in 1..Len(attempt[s]) :
                attempt[s][n].current => attempt[s][n].status \in Final \union {"reset"}
           /\ attempt' = [attempt EXCEPT ![s] = q]
  <2>1. /\ attempt[s] \in Seq(Attempt) /\ Len(attempt[s]) \in Nat
        /\ DOMAIN attempt[s] = 1..Len(attempt[s])
    BY Rows, BoundFacts
  <2>2. ASSUME NEW n \in 1..Len(attempt[s])
        PROVE  RowStep(attempt[s][n], old[n]) /\ ~old[n].current
    <3> DEFINE a == attempt[s][n]
    <3>1. RowInv(a)
      BY Rows
    <3>2. ~Active(a)
      BY <1>2, <3>1 DEF RowInv, Active, Final, Reasons
    <3>3. old[n] = Historic(a)
      BY <2>1
    <3>4. QED BY <3>1, <3>2, <3>3, HistoricRow
  <2>3. old \in Seq(Attempt) /\ Len(old) = Len(attempt[s])
    <3>1. old = [n \in 1..Len(attempt[s]) |-> old[n]]
      BY <2>1
    <3>2. \A n \in 1..Len(attempt[s]) : old[n] \in Attempt
      BY <2>2 DEF RowStep, RowInv
    <3> HIDE DEF old
    <3>3. old \in [DOMAIN attempt[s] -> Attempt]
      BY <2>1, <3>1, <3>2
    <3>4. QED BY <2>1, <3>3, Replaced
  <2>4. NewAttempt \in Attempt /\ RowInv(NewAttempt)
    BY NewRow DEF RowInv
  <2> HIDE DEF old
  <2>5. /\ q \in Seq(Attempt) /\ Len(q) = Len(attempt[s]) + 1
        /\ \A n \in 1..Len(attempt[s]) : q[n] = old[n]
        /\ q[Len(attempt[s]) + 1] = NewAttempt
    BY <2>3, <2>4, AppendProperties
  <2> HIDE DEF q
  <2>6. attempt \in [Student -> Seq(Attempt)]
    BY DEF SettlementInv, AttemptsInv, TypeOK
  <2>7. attempt' \in [Student -> Seq(Attempt)] /\ attempt'[s] = q
    BY <1>2, <2>5, <2>6
  <2>8. Restarted(s)
    BY <1>2, <2>2, <2>4, <2>5, <2>7 DEF Restarted
  <2>9. \A r \in Student : \A m \in 1..Len(attempt[r]) : RowStep(attempt[r][m], attempt[r][m])
    BY Rows, RowStays
  <2>10. \A r \in Student : r # s => Kept(r)
    BY <1>2, <2>6, <2>9 DEF Kept
  <2>11. QED BY <2>7, <2>8, <2>10 DEF RowsMove
<1>3. QED BY <1>1, <1>2 DEF StartAttempt

LEMMA StudentRows ==
  ASSUME SettlementInv, NEW id \in Ids, StudentStep(id)
  PROVE  RowsMove
<1>1. RowInv(Row(id))
  BY IdFacts
<1>2. CASE MarkDeadlinePassed(id)
  BY <1>2, DeadlineRows
<1>3. CASE SaveAnswers(id) /\ ~MarkDeadlinePassed(id)
  <2>1. Active(Row(id)) /\ Write(id, [Row(id) EXCEPT !.rev = @ + 1])
    BY <1>3 DEF SaveAnswers
  <2>2. RowStep(Row(id), [Row(id) EXCEPT !.rev = @ + 1])
    BY <1>1, <2>1, SavedRow
  <2>3. QED BY <2>1, <2>2, OneRow
<1>4. CASE EnqueueGrade(id) /\ ~MarkDeadlinePassed(id)
  <2>1. Active(Row(id)) /\ Write(id, WithGrade(Row(id)))
    BY <1>4 DEF EnqueueGrade
  <2>2. RowStep(Row(id), WithGrade(Row(id)))
    BY <1>1, <2>1, EnqueuedRow
  <2>3. QED BY <2>1, <2>2, OneRow
<1>5. ASSUME NEW local \in Local, NEW saves \in BOOLEAN, RequestSettlement(id, local, saves)
      PROVE  RowsMove
  <2> DEFINE a == Row(id)
  <2>1. CASE /\ LateScoreAccepted(a) /\ local.given # "nothing"
             /\ Write(id, [StoreLocalProgramming(a, local) EXCEPT !.status = "settling"])
    <3>1. RowStep(a, [StoreLocalProgramming(a, local) EXCEPT !.status = "settling"])
      BY <1>1, <2>1, LateRow
    <3>2. QED BY <2>1, <3>1, OneRow
  <2>2. CASE /\ a.status = "settling" /\ local.given # "nothing"
             /\ Write(id, StoreLocalProgramming(a, local))
    <3>1. RowStep(a, StoreLocalProgramming(a, local))
      BY <1>1, <2>2, StoredRow
    <3>2. QED BY <2>2, <3>1, OneRow
  <2>3. CASE Active(a) /\ Write(id, WithLocal(Submitted(a, saves), local))
    <3>1. RowStep(a, WithLocal(Submitted(a, saves), local))
      BY <1>1, <2>3, SubmittedRow
    <3>2. QED BY <2>3, <3>1, OneRow
  <2>4. QED BY <1>5, <2>1, <2>2, <2>3 DEF RequestSettlement
<1>6. QED BY <1>2, <1>3, <1>4, <1>5 DEF StudentStep

LEMMA RunnerRows ==
  ASSUME SettlementInv, NEW id \in Ids, RunnerStep(id)
  PROVE  RowsMove
<1>1. PICK status \in {"scored", "failed"}, score \in Scores : GradeFinished(id, status, score)
  BY DEF RunnerStep
<1>2. PICK i \in 1..Len(Row(id).subs) :
        /\ Row(id).subs[i].status = "active"
        /\ Write(id, [Row(id) EXCEPT !.subs[i].status = status, !.subs[i].score = score])
  BY <1>1 DEF GradeFinished
<1>3. RowInv(Row(id))
  BY IdFacts
<1>4. RowStep(Row(id), [Row(id) EXCEPT !.subs[i].status = status, !.subs[i].score = score])
  BY <1>2, <1>3, FinishedRow
<1>5. QED BY <1>2, <1>4, OneRow

\* A settlement that no student asked for.
LEMMA SystemSettlementRows ==
  ASSUME SettlementInv, NEW id \in Ids, NEW reason \in Reasons, SystemSettlement(id, reason)
  PROVE  RowsMove
<1>1. RowInv(Row(id)) /\ Active(Row(id)) /\ Write(id, Settling(Row(id), reason))
  BY IdFacts DEF SystemSettlement
<1>2. RowStep(Row(id), Settling(Row(id), reason))
  BY <1>1, SettlingRow
<1>3. QED BY <1>1, <1>2, OneRow

LEMMA SystemRows ==
  ASSUME SettlementInv, NEW id \in Ids, SystemStep(id)
  PROVE  RowsMove
<1>1. CASE SettleDue(id)
  BY <1>1, SystemSettlementRows DEF SettleDue, Reasons
<1>2. CASE FinalizeAttempt(id)
  <2>1. /\ RowInv(Row(id)) /\ Row(id).status = "settling" /\ ActiveGrades(Row(id)) = {}
        /\ Write(id, Finalized(Row(id)))
    BY <1>2, IdFacts DEF FinalizeAttempt
  <2>2. RowStep(Row(id), Finalized(Row(id)))
    BY <2>1, FinalizedRow
  <2>3. QED BY <2>1, <2>2, OneRow
<1>3. QED BY <1>1, <1>2 DEF SystemStep

LEMMA TickRows ==
  ASSUME SettlementInv, Tick
  PROVE  RowsMove
<1>1. SUFFICES ASSUME NEW s \in Student
               PROVE  attempt'[s] \in Seq(Attempt) /\ Kept(s)
  BY <1>1 DEF RowsMove, Tick
<1>2. /\ attempt[s] \in Seq(Attempt) /\ Len(attempt[s]) \in Nat
      /\ DOMAIN attempt[s] = 1..Len(attempt[s])
  BY Rows, BoundFacts
<1>3. attempt'[s] = [n \in 1..Len(attempt[s]) |-> Older(attempt[s][n])]
  BY <1>2 DEF Tick
<1>4. \A n \in 1..Len(attempt[s]) : RowStep(attempt[s][n], attempt'[s][n])
  BY <1>3, Rows, OlderRow
<1>5. attempt'[s] \in [DOMAIN attempt[s] -> Attempt]
  BY <1>2, <1>3, <1>4 DEF RowStep, RowInv
<1>6. attempt'[s] \in Seq(Attempt) /\ Len(attempt'[s]) = Len(attempt[s])
  BY <1>2, <1>5, Replaced
<1>7. QED BY <1>4, <1>6 DEF Kept
\* What a teacher does to the rows.
LEMMA TeacherRows ==
  ASSUME SettlementInv, TeacherStep
  PROVE  RowsMove
<1>1. CASE UNCHANGED attempt
  BY <1>1, SameRows
<1>2. ASSUME NEW id \in Ids, ResetAttempt(id)
      PROVE  RowsMove
  <2>1. RowInv(Row(id)) /\ Write(id, [Row(id) EXCEPT !.status = "reset", !.current = FALSE])
    BY <1>2, IdFacts DEF ResetAttempt
  <2>2. RowStep(Row(id), [Row(id) EXCEPT !.status = "reset", !.current = FALSE])
    BY <2>1, ResetRow
  <2>3. QED BY <2>1, <2>2, OneRow
<1>3. ASSUME NEW id \in Ids, RegradeItem(id)
      PROVE  RowsMove
  <2>1. /\ RowInv(Row(id)) /\ Row(id).status \in Final /\ Row(id).result.issue > 0
        /\ \E i \in 1..Len(Row(id).subs) : Row(id).subs[i].by = "runner"
        /\ Write(id, [WithGrade(Row(id)) EXCEPT !.status = "settling"])
    BY <1>3, IdFacts DEF RegradeItem
  <2>2. RunnerGrades(Row(id)) # {}
    BY <2>1 DEF RunnerGrades
  <2>3. RowStep(Row(id), [WithGrade(Row(id)) EXCEPT !.status = "settling"])
    BY <2>1, <2>2, RegradedRow
  <2>4. QED BY <2>1, <2>3, OneRow
<1>4. QED BY <1>1, <1>2, <1>3 DEF TeacherStep, CloseQuiz, ReopenQuiz, ArchiveQuiz

\* What the hook of a closed quiz does to them.
LEMMA HookRows ==
  ASSUME SettlementInv, HookStep
  PROVE  RowsMove
<1>1. CASE UNCHANGED attempt
  BY <1>1, SameRows
<1>2. ASSUME NEW id \in Ids, SettleClosed(id)
      PROVE  RowsMove
  BY <1>1, <1>2, SystemSettlementRows DEF SettleClosed, Reasons
<1>3. QED BY <1>1, <1>2 DEF HookStep, ListClosed, HookLost

\* Every step moves the rows as RowsMove says.
LEMMA StepRows ==
  ASSUME SettlementInv, [Next]_vars
  PROVE  RowsMove
  BY StartRows, StudentRows, RunnerRows, SystemRows, TickRows, TeacherRows, HookRows, SameRows
  DEF Next, vars

\* Rows that move stay within their bound, and no row that is named is lost.
LEMMA IdsGrow ==
  ASSUME SettlementInv, RowsMove
  PROVE  /\ \A s \in Student : /\ Len(attempt'[s]) \in Nat /\ Len(attempt'[s]) <= MaxAttempts
                               /\ Len(attempt'[s]) >= Len(attempt[s])
         /\ Ids \subseteq Ids'
<1>1. ASSUME NEW s \in Student
      PROVE  /\ Len(attempt'[s]) \in Nat /\ Len(attempt'[s]) <= MaxAttempts
             /\ Len(attempt'[s]) >= Len(attempt[s])
  <2>1. Len(attempt[s]) \in Nat /\ Len(attempt[s]) <= MaxAttempts
    BY Rows, BoundFacts
  <2>2. Kept(s) \/ Restarted(s)
    BY DEF RowsMove
  <2>3. CASE Kept(s)
    BY <2>1, <2>3 DEF Kept
  <2>4. CASE Restarted(s)
    BY <2>1, <2>4, BoundFacts DEF Restarted
  <2>5. QED BY <2>2, <2>3, <2>4
<1>2. ASSUME NEW id \in Ids
      PROVE  id \in Ids'
  <2>1. /\ id \in Student \X (1..MaxAttempts) /\ id[1] \in Student /\ id[2] \in 1..MaxAttempts
        /\ id[2] <= Len(attempt[id[1]])
    BY DEF Ids
  <2>2. /\ Len(attempt'[id[1]]) \in Nat /\ Len(attempt'[id[1]]) >= Len(attempt[id[1]])
        /\ Len(attempt[id[1]]) \in Nat
    BY <1>1, <2>1, Rows, BoundFacts
  <2>3. id[2] <= Len(attempt'[id[1]])
    BY <2>1, <2>2, BoundFacts
  <2>4. QED BY <2>1, <2>3 DEF Ids
<1>3. QED BY <1>1, <1>2

\* The rows of a student after they moved.
LEMMA RowsAfter ==
  ASSUME SettlementInv, RowsMove, NEW s \in Student
  PROVE  /\ \A n \in 1..Len(attempt'[s]) : RowInv(attempt'[s][n])
         /\ \A m, n \in 1..Len(attempt'[s]) :
              attempt'[s][m].current /\ attempt'[s][n].current => m = n
<1>1. Len(attempt[s]) \in Nat
  BY Rows, BoundFacts
<1>2. CASE Kept(s)
  <2>1. \A n \in 1..Len(attempt[s]) : attempt'[s][n].current => attempt[s][n].current
    BY <1>2 DEF Kept, RowStep
  <2>2. \A n \in 1..Len(attempt[s]) : RowInv(attempt'[s][n])
    BY <1>2 DEF Kept, RowStep
  <2>3. Len(attempt'[s]) = Len(attempt[s])
    BY <1>2 DEF Kept
  <2>4. QED BY <2>1, <2>2, <2>3, Rows
<1>3. CASE Restarted(s)
  <2> DEFINE k == Len(attempt[s]) + 1
  <2>1. Len(attempt'[s]) = k /\ \A n \in 1..k : n \in 1..Len(attempt[s]) \/ n = k
    BY <1>1, <1>3 DEF Restarted
  <2>2. \A n \in 1..Len(attempt[s]) : RowInv(attempt'[s][n]) /\ ~attempt'[s][n].current
    BY <1>3 DEF Restarted, RowStep
  <2>3. RowInv(attempt'[s][k])
    BY <1>3 DEF Restarted
  <2>4. QED BY <2>1, <2>2, <2>3
<1>4. QED BY <1>2, <1>3 DEF RowsMove
\* What a step does to the session and its hooks.
LEMMA StepTypes ==
  ASSUME SettlementInv, [Next]_vars
  PROVE  session' \in Session /\ hooks' \in 0..session'.version /\ listed' \subseteq Ids
<1>1. session \in Session /\ hooks \in 0..session.version /\ listed \subseteq Ids
  BY DEF SettlementInv, AttemptsInv, TypeOK
<1>2. session.version \in Nat /\ session.version <= MaxVersion /\ hooks \in Nat
  <2>1. session.version \in 0..MaxVersion
    BY <1>1 DEF Session
  <2>2. session.version \in Nat /\ session.version <= MaxVersion
    BY <2>1, BoundFacts
  <2>3. QED BY <1>1, <2>2
<1>3. CASE UNCHANGED <<session, hooks, listed>>
  BY <1>1, <1>3
<1>4. ASSUME NEW status \in {"open", "closed"}, NEW archived \in BOOLEAN, Managed(status, archived)
      PROVE  session' \in Session /\ session'.version = session.version + 1
  <2> DEFINE version == session.version + 1
  <2>1. version \in 0..MaxVersion
    BY <1>2, <1>4, BoundFacts DEF Managed
  <2>2. session' = [status |-> status, archived |-> archived, version |-> version]
    BY <1>4 DEF Managed
  <2> HIDE DEF version
  <2>3. session' \in Session /\ session'.version = version
    BY <2>1, <2>2 DEF Session
  <2>4. QED BY <2>3 DEF version
<1>5. CASE CloseQuiz
  <2>1. session' \in Session /\ session'.version = session.version + 1
          /\ hooks' = hooks + 1 /\ UNCHANGED listed
    BY <1>4, <1>5 DEF CloseQuiz
  <2>2. QED BY <1>1, <1>2, <2>1
<1>6. CASE ReopenQuiz \/ ArchiveQuiz
  <2>1. session.status \in {"open", "closed"}
    BY <1>1 DEF Session
  <2>2. session' \in Session /\ session'.version = session.version + 1
          /\ UNCHANGED <<hooks, listed>>
    BY <1>4, <1>6, <2>1 DEF ReopenQuiz, ArchiveQuiz
  <2>3. QED BY <1>1, <1>2, <2>2
<1>7. CASE HookStep
  <2>1. UNCHANGED session /\ listed' \subseteq Ids
    BY <1>1, <1>7 DEF HookStep, ListClosed, HookLost, SettleClosed
  <2>2. hooks' = hooks \/ (hooks > 0 /\ hooks' = hooks - 1)
    BY <1>7 DEF HookStep, ListClosed, HookLost, SettleClosed
  <2>3. hooks' \in 0..session.version
    BY <1>1, <1>2, <2>2
  <2>4. QED BY <1>1, <2>1, <2>3
<1>8. QED
  <2>1. \/ UNCHANGED <<session, hooks, listed>> \/ CloseQuiz \/ ReopenQuiz \/ ArchiveQuiz \/ HookStep
    <3>1. CASE \E s \in Student : StartAttempt(s)
      BY <3>1 DEF StartAttempt
    <3>2. ASSUME NEW id \in Ids, StudentStep(id) \/ RunnerStep(id) \/ SystemStep(id)
          PROVE  UNCHANGED <<session, hooks, listed>>
      BY <3>2 DEF StudentStep, SaveAnswers, EnqueueGrade, RequestSettlement, RunnerStep,
                  GradeFinished, SystemStep, SettleDue, FinalizeAttempt
    <3>3. CASE Tick \/ TeacherStep \/ HookStep \/ UNCHANGED vars
      BY <3>3 DEF Tick, TeacherStep, ResetAttempt, RegradeItem, vars
    <3>4. QED BY <3>1, <3>2, <3>3 DEF Next
  <2>2. QED BY <1>3, <1>5, <1>6, <1>7, <2>1

LEMMA InitSettlement == Init => SettlementInv
<1> SUFFICES ASSUME Init PROVE SettlementInv
  OBVIOUS
<1>1. \A s \in Student : attempt[s] = <<>> /\ Len(attempt[s]) = 0
  BY EmptySeq DEF Init
<1>2. Ids = {}
  <2>1. \A id \in Student \X (1..MaxAttempts) : ~ (id[2] <= Len(attempt[id[1]]))
    <3>1. ASSUME NEW id \in Student \X (1..MaxAttempts)
          PROVE  ~ (id[2] <= Len(attempt[id[1]]))
      <4>1. id[1] \in Student /\ id[2] \in 1..MaxAttempts
        OBVIOUS
      <4>2. Len(attempt[id[1]]) = 0
        BY <1>1, <4>1
      <4>3. QED BY <4>1, <4>2, BoundFacts
    <3>2. QED BY <3>1
  <2>2. QED BY <2>1 DEF Ids
<1>3. TypeOK
  <2>1. session \in Session /\ session.version = 0
    <3>1. 0 \in 0..MaxVersion
      BY BoundFacts
    <3>2. QED BY <3>1 DEF Init, Session
  <2>2. attempt \in [Student -> Seq(Attempt)]
    BY EmptySeq DEF Init
  <2>3. \A s \in Student : Len(attempt[s]) <= MaxAttempts
    BY <1>1, BoundFacts
  <2>4. hooks \in 0..session.version /\ listed \subseteq Ids
    BY <2>1 DEF Init
  <2>5. QED BY <2>1, <2>2, <2>3, <2>4 DEF TypeOK
<1>4. QED BY <1>2, <1>3 DEF SettlementInv, AttemptsInv, InProgressIsCurrent, ReasonKnown,
                            GradedOnEverything, ResultsExplained

LEMMA StepSettlement ==
  ASSUME SettlementInv, [Next]_vars
  PROVE  SettlementInv'
<1>1. RowsMove
  BY StepRows
<1>2. TypeOK'
  <2>1. attempt' \in [Student -> Seq(Attempt)]
    BY <1>1 DEF RowsMove
  <2>2. \A s \in Student : Len(attempt'[s]) <= MaxAttempts
    BY <1>1, IdsGrow
  <2>3. session' \in Session /\ hooks' \in 0..session'.version /\ listed' \subseteq Ids'
    BY <1>1, IdsGrow, StepTypes
  <2>4. QED BY <2>1, <2>2, <2>3 DEF TypeOK
<1>3. ASSUME NEW id \in Ids'
      PROVE  /\ id[1] \in Student /\ id[2] \in 1..Len(attempt'[id[1]])
             /\ Row(id)' = attempt'[id[1]][id[2]] /\ RowInv(attempt'[id[1]][id[2]])
  <2>1. id[1] \in Student /\ id[2] \in 1..MaxAttempts /\ id[2] <= Len(attempt'[id[1]])
    BY DEF Ids
  <2>2. Len(attempt'[id[1]]) \in Nat
    BY <1>1, <2>1, IdsGrow
  <2>3. id[2] \in 1..Len(attempt'[id[1]])
    BY <2>1, <2>2, BoundFacts
  <2>4. QED BY <1>1, <2>1, <2>3, RowsAfter DEF Row
<1>4. InProgressIsCurrent'
  <2>1. SUFFICES ASSUME NEW id \in Ids'
                 PROVE  /\ Active(Row(id)') => Row(id)'.current
                        /\ \A n \in 1..Len(attempt'[id[1]]) :
                             Row(id)'.current /\ attempt'[id[1]][n].current => n = id[2]
    BY <2>1 DEF InProgressIsCurrent, Active
  <2>2. Active(Row(id)') => Row(id)'.current
    BY <1>3 DEF RowInv
  <2>3. \A n \in 1..Len(attempt'[id[1]]) :
          Row(id)'.current /\ attempt'[id[1]][n].current => n = id[2]
    BY <1>1, <1>3, RowsAfter
  <2>4. QED BY <2>2, <2>3
<1>5. ReasonKnown'
  BY <1>3 DEF ReasonKnown, RowInv
<1>6. GradedOnEverything'
  <2>1. SUFFICES ASSUME NEW id \in Ids', Row(id)'.status \in Final
                 PROVE  Graded(Row(id)')
    BY <2>1 DEF GradedOnEverything, Graded, ActiveGrades, Counted, Score, Issues, Best, HasIssue
  <2>2. QED BY <1>3, <2>1 DEF RowInv
<1>7. ResultsExplained'
  <2>1. SUFFICES ASSUME NEW id \in Ids'
                 PROVE  Explained(Row(id)')
    BY <2>1 DEF ResultsExplained, Explained, Results, Active, RunnerGrades
  <2>2. QED BY <1>3 DEF RowInv
<1>8. QED BY <1>2, <1>4, <1>5, <1>6, <1>7 DEF SettlementInv, AttemptsInv

LEMMA SettlementInvHolds == Spec => []SettlementInv
<1>1. SettlementInv /\ [Next]_vars => SettlementInv'
  BY StepSettlement
<1>2. QED BY <1>1, InitSettlement, PTL DEF Spec
-----------------------------------------------------------------------------
(* Theorems *)

\* Rows have their fields; a student's attempt in progress is his current one
\* and the only one, so that the commands which settle what is overdue or closed
\* find it; and a paper that is locked says why.
THEOREM OneCurrentAttempt == Spec => []AttemptsInv
<1>1. SettlementInv => AttemptsInv
  BY DEF SettlementInv
<1>2. QED BY <1>1, SettlementInvHolds, PTL

\* The result of a settled attempt is that of its last answers and of all that
\* counts for it, however gradings, browser scores, regrades and the settle
\* command race with finalize_attempt.
THEOREM ResultsAreComplete == Spec => []GradedOnEverything
<1>1. SettlementInv => GradedOnEverything
  BY DEF SettlementInv
<1>2. QED BY <1>1, SettlementInvHolds, PTL

\* A late browser score corrects a result once; every result after the second
\* answers a grade task that a regrade queued.
THEOREM ResultsHaveCauses == Spec => []ResultsExplained
<1>1. SettlementInv => ResultsExplained
  BY DEF SettlementInv
<1>2. QED BY <1>1, SettlementInvHolds, PTL

\* What a step does to a row that is there.
LEMMA StepRow ==
  ASSUME SettlementInv, [Next]_vars, NEW id \in Ids
  PROVE  RowStep(Row(id), Row(id)')
<1>1. /\ id[1] \in Student /\ id[2] \in 1..Len(attempt[id[1]])
      /\ Row(id) = attempt[id[1]][id[2]]
  BY IdFacts
<1>2. Kept(id[1]) \/ Restarted(id[1])
  BY <1>1, StepRows DEF RowsMove
<1>3. RowStep(attempt[id[1]][id[2]], attempt'[id[1]][id[2]])
  BY <1>1, <1>2 DEF Kept, Restarted
<1>4. Row(id)' = attempt'[id[1]][id[2]]
  BY DEF Row
<1>5. QED BY <1>1, <1>3, <1>4

\* A locked paper takes no answer and no grade task of its student, keeps its
\* reason and is never open again, whatever was under way when it was locked.
THEOREM PapersStayLocked == Spec => LockedPaper
<1>1. SettlementInv /\ [Next]_vars =>
        [\A id \in Ids :
           ~Active(Row(id)) =>
             /\ Row(id)'.status # "in_progress"
             /\ Row(id)'.rev = Row(id).rev
             /\ Row(id)'.reason = Row(id).reason
             /\ Len(Row(id)'.subs) > Len(Row(id).subs)
                  => \/ Row(id)'.subs[Len(Row(id)'.subs)].by = "browser"
                     \/ Row(id).status \in Final /\ Row(id).result.issue > 0]_vars
  BY StepRow DEF RowStep, Locked
<1>2. QED BY <1>1, SettlementInvHolds, PTL DEF Spec, LockedPaper

=============================================================================
