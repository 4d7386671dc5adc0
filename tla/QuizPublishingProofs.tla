------------------------ MODULE QuizPublishingProofs ------------------------
(***************************************************************************)
(* Theorems about QuizPublishing for any teachers, quizzes, configurations *)
(* and questions.                                                          *)
(*                                                                         *)
(* The services that lock a quiz are one step and keep its row in order.   *)
(* Publishing takes two: the argument is that the locks on the sections    *)
(* keep their pool as it was counted, so what is enough at the first step  *)
(* is enough at the second, and that a paper can be drawn from it.         *)
(***************************************************************************)
EXTENDS QuizPublishing, FiniteSetTheorems, TLAPS

USE StaffAssumption, PublishingAssumption

-----------------------------------------------------------------------------
(* Pools and draws *)

\* A finite set has subsets of every smaller size.
LEMMA SubsetOfSize ==
  ASSUME NEW S, IsFiniteSet(S), NEW n \in Nat, n <= Cardinality(S)
  PROVE  \E T \in SUBSET S : Cardinality(T) = n
<1> DEFINE m == Cardinality(S)
<1>1. m \in Nat /\ ExistsBijection(1..m, S)
  BY FS_CardinalityType
<1>2. PICK f \in Bijection(1..m, S) : TRUE
  BY <1>1 DEF ExistsBijection
<1>3. 1..n \subseteq 1..m
  BY <1>1
<1> DEFINE T == {f[i] : i \in 1..n}
           g == [i \in 1..n |-> f[i]]
<1>4. /\ f \in [1..m -> S]
      /\ \A i, j \in 1..m : f[i] = f[j] => i = j
  BY <1>2 DEF Bijection, Injection, IsInjective
<1>5. T \in SUBSET S
  BY <1>3, <1>4
<1>6. g \in Injection(1..n, T)
  BY <1>3, <1>4 DEF Injection, IsInjective
<1>7. g \in Surjection(1..n, T)
  BY DEF Surjection
<1>8. ExistsBijection(1..n, T)
  BY <1>6, <1>7 DEF ExistsBijection, Bijection
<1>9. Cardinality(T) = n
  BY <1>8, FS_CountingElements
<1>10. QED BY <1>5, <1>9

\* The bank with its types; versions count the changes.
BankTypeOK ==
  /\ bank \in [question : [BankQuestion -> [section : BankSection, difficulty : Difficulty,
                                            version : Nat, live : BOOLEAN]],
               open : SUBSET BankSection,
               problem : [BankProblem -> [version : Nat, usable : BOOLEAN]],
               changes : 0..MaxBankChanges]
  /\ \A q \in BankQuestion : bank.question[q].version \in 1..(bank.changes + 1)
  /\ \A p \in BankProblem : bank.problem[p].version \in 1..(bank.changes + 1)

LEMMA ContentFields ==
  ASSUME NEW c \in Contents
  PROVE  /\ c.units \in SUBSET BankSection /\ c.ratio \in [Difficulty -> Nat]
         /\ c.items \in SUBSET BankProblem
  BY DEF Content

LEMMA BankFields ==
  ASSUME BankTypeOK
  PROVE  /\ bank.changes \in Nat /\ bank.changes <= MaxBankChanges
         /\ bank.open \in SUBSET BankSection
         /\ \A q \in BankQuestion :
              /\ bank.question[q].section \in BankSection
              /\ bank.question[q].difficulty \in Difficulty
              /\ bank.question[q].version \in 1..(MaxBankChanges + 1)
         /\ \A p \in BankProblem : bank.problem[p].version \in 1..(MaxBankChanges + 1)
<1>1. bank.changes \in 0..MaxBankChanges /\ MaxBankChanges \in Nat
  BY DEF BankTypeOK
<1>2. 1..(bank.changes + 1) \subseteq 1..(MaxBankChanges + 1)
  BY <1>1
<1>3. QED BY <1>1, <1>2 DEF BankTypeOK

LEMMA PoolType ==
  ASSUME BankTypeOK, NEW units
  PROVE  /\ Pool(units) \in SUBSET [question : BankQuestion, version : 1..(MaxBankChanges + 1),
                                    difficulty : Difficulty]
         /\ IsFiniteSet(Pool(units))
<1> DEFINE P == Pool(units)
           f == [i \in P |-> i.question]
<1>1. ASSUME NEW i \in P
      PROVE  \E q \in BankQuestion :
               i = [question |-> q, version |-> bank.question[q].version,
                    difficulty |-> bank.question[q].difficulty]
  BY DEF Pool
<1>2. P \in SUBSET [question : BankQuestion, version : 1..(MaxBankChanges + 1),
                    difficulty : Difficulty]
  BY <1>1, BankFields
<1>3. \A i, j \in P : i.question = j.question => i = j
  BY <1>1
<1>4. f \in Injection(P, BankQuestion)
  <2>1. f \in [P -> BankQuestion]
    BY <1>2
  <2>2. \A i, j \in P : f[i] = f[j] => i = j
    BY <1>3
  <2>3. QED BY <2>1, <2>2 DEF Injection, IsInjective
<1>5. QED BY <1>2, <1>4, FS_Injection

\* What was counted is enough to draw from.
LEMMA EnoughToDraw ==
  ASSUME BankTypeOK, NEW c \in Contents, EnoughQuestions(c)
  PROVE  Draws(BuildBlueprint(c)) # {}
<1> DEFINE P == Pool(c.units)
           b == BuildBlueprint(c)
           pick(d) == CHOOSE T \in SUBSET OfDifficulty(P, d) : Cardinality(T) = c.ratio[d]
           drawn == UNION {pick(d) : d \in Difficulty}
<1>1. IsFiniteSet(P) /\ c.ratio \in [Difficulty -> Nat]
  BY PoolType, ContentFields
<1>2. ASSUME NEW d \in Difficulty
      PROVE  pick(d) \in SUBSET OfDifficulty(P, d) /\ Cardinality(pick(d)) = c.ratio[d]
  <2>1. IsFiniteSet(OfDifficulty(P, d))
    BY <1>1, FS_Subset DEF OfDifficulty
  <2>2. c.ratio[d] \in Nat /\ c.ratio[d] <= Cardinality(OfDifficulty(P, d))
    <3>1. Cardinality(OfDifficulty(P, d)) >= c.ratio[d]
      BY DEF EnoughQuestions
    <3>2. Cardinality(OfDifficulty(P, d)) \in Nat
      BY <2>1, FS_CardinalityType
    <3>3. QED BY <1>1, <3>1, <3>2
  <2>3. \E T \in SUBSET OfDifficulty(P, d) : Cardinality(T) = c.ratio[d]
    BY <2>1, <2>2, SubsetOfSize
  <2>4. QED BY <2>3
<1> HIDE DEF pick
<1>3. drawn \in SUBSET P
  BY <1>2 DEF OfDifficulty
<1>4. ASSUME NEW d \in Difficulty
      PROVE  Cardinality(OfDifficulty(drawn, d)) = c.ratio[d]
  <2>1. OfDifficulty(drawn, d) = pick(d)
    <3>1. \A e \in Difficulty : \A i \in pick(e) : i.difficulty = e
      BY <1>2 DEF OfDifficulty
    <3>2. QED BY <1>4, <3>1 DEF OfDifficulty
  <2>2. QED BY <1>2, <2>1
<1>5. b.pool = P /\ b.content = c
  BY DEF BuildBlueprint
<1>6. QED BY <1>3, <1>4, <1>5 DEF Draws

\* A paper that can be drawn, and is not empty.
Complete(b) == Draws(b) # {} /\ (Draws(b) # {{}} \/ b.items # {})

LEMMA BuiltComplete ==
  ASSUME BankTypeOK, NEW c \in Contents, EnoughQuestions(c), ConfigurationValid(c)
  PROVE  BuildBlueprint(c) \in Blueprint /\ Complete(BuildBlueprint(c))
<1> DEFINE b == BuildBlueprint(c)
<1>1. /\ b.content = c /\ b.pool = Pool(c.units)
      /\ b.items = {[problem |-> p, version |-> bank.problem[p].version] : p \in c.items}
  BY DEF BuildBlueprint
<1>2. b \in Blueprint
  <2>1. b.items \in SUBSET [problem : BankProblem, version : 1..(MaxBankChanges + 1)]
    BY <1>1, ContentFields, BankFields
  <2>2. b = [content |-> b.content, pool |-> b.pool, items |-> b.items]
    BY DEF BuildBlueprint
  <2>3. b.pool \in SUBSET [question : BankQuestion, version : 1..(MaxBankChanges + 1),
                           difficulty : Difficulty]
    BY <1>1, PoolType
  <2> HIDE DEF b
  <2>4. QED BY <1>1, <2>1, <2>2, <2>3 DEF Blueprint
<1>3. Draws(b) # {}
  BY EnoughToDraw
<1>4. CASE HasChoices(c)
  <2>1. PICK d \in Difficulty : c.ratio[d] > 0
    BY <1>4 DEF HasChoices
  <2>2. OfDifficulty({}, d) = {} /\ Cardinality({}) = 0 /\ c.ratio[d] \in Nat
    BY FS_EmptySet, ContentFields DEF OfDifficulty
  <2>3. {} \notin Draws(b)
    <3> SUFFICES ASSUME {} \in Draws(b) PROVE FALSE
      OBVIOUS
    <3>1. Cardinality(OfDifficulty({}, d)) = b.content.ratio[d]
      BY DEF Draws
    <3>2. c.ratio[d] = 0
      <4>1. b.content = c
        BY <1>1
      <4> HIDE DEF b
      <4>2. QED BY <2>2, <3>1, <4>1
    <3>3. QED BY <2>1, <3>2
  <2>4. QED BY <1>2, <1>3, <2>3 DEF Complete
<1>5. CASE ~HasChoices(c)
  <2>1. PICK p : p \in c.items
    BY <1>5 DEF ConfigurationValid
  <2>2. b.items # {}
    BY <1>1, <2>1
  <2>3. QED BY <1>2, <1>3, <2>2 DEF Complete
<1>6. QED BY <1>4, <1>5

-----------------------------------------------------------------------------
(* What is shown to be inductive *)

QuizRow == [content : Contents, rules : SUBSET QuizRule, status : {"draft", "open", "closed"},
            version : Nat, blueprint : Blueprint, archived : BOOLEAN]

Builds == {NotBuilding} \union [at : Quiz, publish : BOOLEAN, locked : SUBSET BankSection]

\* Every variable has its type; a quiz without a row has no papers.
PublishingTypes ==
  /\ Quizzes \subseteq everIssued /\ everIssued \subseteq Quiz
  /\ quiz \in [Quizzes -> QuizRow]
  /\ papers = [s \in Quiz |-> papers[s]]
  /\ \A s \in Quiz \ everIssued : papers[s] = {}
  /\ view = [t \in Teacher |-> view[t]]
  /\ \A t \in Teacher : view[t] \in [DOMAIN view[t] -> QuizRow] /\ DOMAIN view[t] \subseteq everIssued
  /\ build \in [Teacher -> Builds]
  /\ BankTypeOK
  /\ written \in 0..MaxWrites

\* A row is in order after n writes: a draft has no blueprint, any other the one of
\* its configuration, from which a paper can be drawn.
InOrder(row, n) ==
  /\ row.version \in 1..(n + 1)
  /\ row.status = "draft" <=> row.blueprint = NoBlueprint
  /\ row.status # "draft" => row.blueprint.content = row.content /\ Complete(row.blueprint)
  /\ \A r \in row.rules : MayPublishTo(r.by, r.says)

\* The papers of a quiz come from the blueprint of the row.
Fit(some, row) ==
  \A paper \in some : /\ row.status # "draft"
                      /\ paper.choice \in Draws(row.blueprint)
                      /\ paper.items = row.blueprint.items

\* No two transactions lock a quiz.
BuildsApart ==
  \A t, o \in Teacher : t # o /\ build[t].at # None => build[o].at # build[t].at

\* The pool of a bank, and whether it is enough.
PoolOf(b, units) ==
  {[question |-> q, version |-> b.question[q].version, difficulty |-> b.question[q].difficulty]
     : q \in {q \in BankQuestion : /\ b.question[q].live
                                   /\ b.question[q].section \in units
                                   /\ b.question[q].section \in b.open}}

EnoughOf(b, c) ==
  \A d \in Difficulty : Cardinality(OfDifficulty(PoolOf(b, c.units), d)) >= c.ratio[d]

LEMMA EnoughNow ==
  ASSUME NEW c
  PROVE  EnoughQuestions(c) <=> EnoughOf(bank, c)
<1>1. Pool(c.units) = PoolOf(bank, c.units)
  BY DEF Pool, PoolOf
<1>2. QED BY <1>1 DEF EnoughQuestions, EnoughOf

\* While t builds a blueprint, her draft stays as she saw it, its sections are locked
\* and open, and hold the questions that were counted.
BuildHolds(t) ==
  build[t].at # None =>
    /\ build[t].at \in Quizzes
    /\ build[t].at \in DOMAIN view[t] /\ view[t][build[t].at] = quiz[build[t].at]
    /\ quiz[build[t].at].status = "draft"
    /\ build[t].locked = quiz[build[t].at].content.units
    /\ build[t].locked \subseteq bank.open
    /\ EnoughOf(bank, quiz[build[t].at].content)

\* A page shows a quiz as it is or an older version.
ViewsPast ==
  \A t \in Teacher : \A s \in DOMAIN view[t] \cap Quizzes :
    view[t][s] = quiz[s] \/ view[t][s].version < quiz[s].version

PublishingIInv ==
  /\ PublishingTypes /\ BuildsApart /\ ViewsPast
  /\ \A s \in Quizzes : InOrder(quiz[s], written) /\ Fit(papers[s], quiz[s])
  /\ \A t \in Teacher : BuildHolds(t)

LEMMA BuildFacts ==
  ASSUME NEW x \in Builds
  PROVE  /\ x.at \in Quiz \union {None} /\ x.locked \in SUBSET BankSection
         /\ x.at = None => x = NotBuilding
         /\ NotBuilding \in Builds /\ NotBuilding.at = None /\ NotBuilding.locked = {}
  BY DEF Builds, NotBuilding

LEMMA QuizFields ==
  ASSUME NEW row \in QuizRow
  PROVE  /\ row.content \in Contents /\ row.rules \in SUBSET QuizRule
         /\ row.status \in {"draft", "open", "closed"} /\ row.version \in Nat
         /\ row.blueprint \in Blueprint /\ row.archived \in BOOLEAN
  BY DEF QuizRow

LEMMA RuleFields ==
  ASSUME NEW r \in QuizRule
  PROVE  r.says \in Scopes /\ r.by \in Teacher /\ r = [says |-> r.says, by |-> r.by]
  BY DEF QuizRule

-----------------------------------------------------------------------------
(* What a step may leave behind *)

\* What is changed or deleted is what the page of a teacher shows.
SeenBefore ==
  \A s \in Quizzes :
    s \notin Quizzes' \/ quiz'[s] # quiz[s] =>
      \E t \in Teacher : s \in DOMAIN view[t] /\ view[t][s] = quiz[s]

\* Rows stay, are new, or have the next version.
QuizzesAdvance ==
  \A s \in Quizzes' :
    \/ s \notin everIssued
    \/ s \in Quizzes /\ (\/ quiz'[s] = quiz[s]
                         \/ quiz'[s].version = quiz[s].version + 1)

\* Transactions end, or what they lock stays.
BuildsSurvive ==
  \A t \in Teacher :
    \/ build'[t] = NotBuilding
    \/ /\ build'[t] = build[t]
       /\ build[t].at # None =>
            build[t].at \in Quizzes' /\ quiz'[build[t].at] = quiz[build[t].at]

LEMMA QuizzesAlone ==
  ASSUME UNCHANGED quiz
  PROVE  Quizzes' = Quizzes /\ SeenBefore
<1>1. Quizzes' = Quizzes
  BY DEF Quizzes
<1>2. QED BY <1>1 DEF SeenBefore

LEMMA RowsWritten ==
  ASSUME PublishingIInv, UNCHANGED <<view, bank>>, QuizzesAdvance, BuildsSurvive,
         build' \in [Teacher -> Builds],
         Quizzes' \subseteq everIssued', everIssued \subseteq everIssued', everIssued' \subseteq Quiz,
         quiz' \in [Quizzes' -> QuizRow], papers' = [s \in Quiz |-> papers'[s]],
         \A s \in Quiz \ everIssued' : papers'[s] = {}, written' \in 0..MaxWrites,
         \A s \in Quizzes' : InOrder(quiz'[s], written') /\ Fit(papers'[s], quiz'[s])
  PROVE  PublishingIInv'
<1>1. PublishingTypes'
  <2>1. BankTypeOK'
    BY DEF PublishingIInv, PublishingTypes, BankTypeOK
  <2>2. QED BY <2>1 DEF PublishingIInv, PublishingTypes
<1>2. BuildsApart'
  BY DEF PublishingIInv, BuildsApart, BuildsSurvive, NotBuilding
<1>3. ViewsPast'
  <2> SUFFICES ASSUME NEW t \in Teacher, NEW s \in DOMAIN view[t] \cap Quizzes'
               PROVE  view[t][s] = quiz'[s] \/ view[t][s].version < quiz'[s].version
    BY DEF ViewsPast
  <2>1. s \in everIssued
    BY DEF PublishingIInv, PublishingTypes
  <2>2. /\ s \in Quizzes
        /\ quiz'[s] = quiz[s] \/ quiz'[s].version = quiz[s].version + 1
    BY <2>1 DEF QuizzesAdvance
  <2>3. view[t][s] = quiz[s] \/ view[t][s].version < quiz[s].version
    BY <2>2 DEF PublishingIInv, ViewsPast
  <2>4. view[t][s].version \in Nat /\ quiz[s].version \in Nat
    BY <2>2, QuizFields DEF PublishingIInv, PublishingTypes
  <2>5. QED BY <2>2, <2>3, <2>4
<1>4. ASSUME NEW t \in Teacher PROVE BuildHolds(t)'
  <2>1. CASE build'[t] = NotBuilding
    BY <2>1 DEF BuildHolds, NotBuilding
  <2>2. CASE build'[t] # NotBuilding
    <3>1. /\ build'[t] = build[t] /\ BuildHolds(t)
          /\ build[t].at # None =>
               build[t].at \in Quizzes' /\ quiz'[build[t].at] = quiz[build[t].at]
      BY <2>2 DEF BuildsSurvive, PublishingIInv
    <3>2. QED BY <3>1 DEF BuildHolds
  <2>3. QED BY <2>1, <2>2
<1>5. QED BY <1>1, <1>2, <1>3, <1>4 DEF PublishingIInv

\* Whose version is that of the page is as the page shows it.
LEMMA CheckedMeansSeen ==
  ASSUME PublishingIInv, NEW t \in Teacher, NEW s \in Quizzes, CheckQuizVersion(t, s)
  PROVE  s \in DOMAIN view[t] /\ view[t][s] = quiz[s]
<1>1. quiz[s].version \in Nat
  BY QuizFields DEF PublishingIInv, PublishingTypes
<1>2. s \in DOMAIN view[t] /\ view[t][s].version = quiz[s].version
  BY DEF CheckQuizVersion
<1>3. view[t][s] = quiz[s] \/ view[t][s].version < quiz[s].version
  BY <1>2 DEF PublishingIInv, ViewsPast
<1>4. QED BY <1>1, <1>2, <1>3

-----------------------------------------------------------------------------
(* The services of one step *)

LEMMA SaveSessionInductive ==
  ASSUME PublishingIInv, NEW t \in Teacher, NEW s \in Quizzes, QuizFree(s),
         CheckQuizVersion(t, s),
         NEW row \in QuizRow, row.version = quiz[s].version,
         InOrder(row, written), Fit(papers[s], row), SaveSession(s, row)
  PROVE  PublishingIInv' /\ SeenBefore
<1> DEFINE new == [row EXCEPT !.version = @ + 1]
<1>1. /\ PublishingTypes /\ quiz \in [Quizzes -> QuizRow] /\ written \in 0..MaxWrites
      /\ \A r \in Quizzes : InOrder(quiz[r], written) /\ Fit(papers[r], quiz[r])
  BY DEF PublishingIInv, PublishingTypes
<1>2. /\ new \in QuizRow /\ new.version = row.version + 1 /\ new.status = row.status
      /\ new.blueprint = row.blueprint /\ new.content = row.content /\ new.rules = row.rules
  BY DEF QuizRow
<1>3. written' = written + 1 /\ written' \in 0..MaxWrites
  BY <1>1 DEF SaveSession, CountWrite
<1>4. quiz' = [quiz EXCEPT ![s] = new] /\ UNCHANGED <<everIssued, papers, view, build, bank>>
  BY DEF SaveSession
<1> HIDE DEF new
<1>5. InOrder(new, written') /\ Fit(papers[s], new)
  <2>1. new.version \in 1..(written' + 1)
    BY <1>1, <1>2, <1>3 DEF InOrder
  <2>2. QED BY <1>2, <2>1 DEF InOrder, Fit
<1>6. /\ Quizzes' = Quizzes /\ quiz' \in [Quizzes -> QuizRow] /\ quiz'[s] = new
      /\ \A r \in Quizzes \ {s} : quiz'[r] = quiz[r]
  BY <1>1, <1>2, <1>4 DEF Quizzes
<1>7. \A r \in Quizzes' : InOrder(quiz'[r], written') /\ Fit(papers'[r], quiz'[r])
  <2> SUFFICES ASSUME NEW r \in Quizzes
               PROVE  InOrder(quiz'[r], written') /\ Fit(papers[r], quiz'[r])
    BY <1>4, <1>6
  <2>1. CASE r = s
    BY <1>5, <1>6, <2>1
  <2>2. CASE r # s
    <3>1. quiz'[r] = quiz[r] /\ InOrder(quiz[r], written) /\ Fit(papers[r], quiz[r])
      BY <1>1, <1>6, <2>2
    <3>2. 1..(written + 1) \subseteq 1..(written' + 1)
      BY <1>1, <1>3
    <3>3. QED BY <3>1, <3>2 DEF InOrder
  <2>3. QED BY <2>1, <2>2
<1>8. QuizzesAdvance
  BY <1>2, <1>6 DEF QuizzesAdvance
<1>9. SeenBefore
  BY <1>6, CheckedMeansSeen DEF SeenBefore
<1>10. BuildsSurvive
  <2> SUFFICES ASSUME NEW o \in Teacher, build[o].at # None
               PROVE  build[o].at \in Quizzes' /\ quiz'[build[o].at] = quiz[build[o].at]
    BY <1>4 DEF BuildsSurvive
  <2>1. build[o].at \in Quizzes /\ build[o].at # s
    BY DEF PublishingIInv, BuildHolds, QuizFree
  <2>2. QED BY <1>6, <2>1
<1>11. /\ Quizzes' \subseteq everIssued' /\ everIssued \subseteq everIssued' /\ everIssued' \subseteq Quiz
       /\ papers' = [r \in Quiz |-> papers'[r]] /\ \A r \in Quiz \ everIssued' : papers'[r] = {}
       /\ build' \in [Teacher -> Builds]
  BY <1>1, <1>4, <1>6 DEF PublishingTypes
<1>12. QED BY <1>3, <1>4, <1>6, <1>7, <1>8, <1>9, <1>10, <1>11, RowsWritten

LEMMA InsertQuizInductive ==
  ASSUME PublishingIInv, NEW c \in Contents, NEW R \in SUBSET QuizRule,
         \A r \in R : MayPublishTo(r.by, r.says), InsertQuiz(Draft(c, R))
  PROVE  PublishingIInv' /\ SeenBefore
<1> DEFINE row == Draft(c, R)
<1>1. /\ PublishingTypes /\ quiz \in [Quizzes -> QuizRow] /\ written \in 0..MaxWrites
      /\ \A r \in Quizzes : InOrder(quiz[r], written) /\ Fit(papers[r], quiz[r])
  BY DEF PublishingIInv, PublishingTypes
<1>2. /\ row.version = 1 /\ row.status = "draft" /\ row.blueprint = NoBlueprint
      /\ row.rules = R /\ row.content = c /\ row.archived = FALSE
  BY DEF Draft
<1>3. row \in QuizRow
  <2>1. NoBlueprint \in Blueprint
    BY DEF NoBlueprint, Blueprint
  <2>2. QED BY <2>1 DEF Draft, QuizRow
<1>4. written' = written + 1 /\ written' \in 0..MaxWrites
  BY <1>1 DEF InsertQuiz, CountWrite
<1>5. PICK s \in Quiz \ everIssued :
        /\ quiz' = [r \in Quizzes \union {s} |-> IF r = s THEN row ELSE quiz[r]]
        /\ everIssued' = everIssued \union {s}
        /\ UNCHANGED <<papers, view, build, bank>>
  BY DEF InsertQuiz
<1> HIDE DEF row
<1>6. s \notin Quizzes /\ papers[s] = {}
  BY <1>1 DEF PublishingTypes
<1>7. /\ Quizzes' = Quizzes \union {s} /\ quiz'[s] = row
      /\ \A r \in Quizzes : quiz'[r] = quiz[r]
      /\ quiz' \in [Quizzes' -> QuizRow]
  <2>1. Quizzes' = Quizzes \union {s} /\ quiz'[s] = row
    BY <1>5 DEF Quizzes
  <2>2. \A r \in Quizzes : quiz'[r] = quiz[r]
    BY <1>5, <1>6
  <2>3. quiz' = [r \in Quizzes' |-> quiz'[r]]
    BY <1>5, <2>1
  <2>4. \A r \in Quizzes' : quiz'[r] \in QuizRow
    BY <1>1, <1>3, <2>1, <2>2
  <2>5. QED BY <2>1, <2>2, <2>3, <2>4
<1>8. \A r \in Quizzes' : InOrder(quiz'[r], written') /\ Fit(papers'[r], quiz'[r])
  <2> SUFFICES ASSUME NEW r \in Quizzes'
               PROVE  InOrder(quiz'[r], written') /\ Fit(papers[r], quiz'[r])
    BY <1>5
  <2>1. CASE r = s
    <3>1. 1 \in 1..(written' + 1)
      BY <1>1, <1>4
    <3>2. QED BY <1>2, <1>6, <1>7, <2>1, <3>1 DEF InOrder, Fit
  <2>2. CASE r # s
    <3>1. quiz'[r] = quiz[r] /\ InOrder(quiz[r], written) /\ Fit(papers[r], quiz[r])
      BY <1>1, <1>7, <2>2
    <3>2. 1..(written + 1) \subseteq 1..(written' + 1)
      BY <1>1, <1>4
    <3>3. QED BY <3>1, <3>2 DEF InOrder
  <2>3. QED BY <2>1, <2>2
<1>9. QuizzesAdvance /\ SeenBefore
  BY <1>5, <1>7 DEF QuizzesAdvance, SeenBefore
<1>10. BuildsSurvive
  BY <1>5, <1>7 DEF BuildsSurvive, PublishingIInv, BuildHolds
<1>11. /\ Quizzes' \subseteq everIssued' /\ everIssued \subseteq everIssued' /\ everIssued' \subseteq Quiz
       /\ papers' = [r \in Quiz |-> papers'[r]] /\ \A r \in Quiz \ everIssued' : papers'[r] = {}
       /\ build' \in [Teacher -> Builds]
  BY <1>1, <1>5, <1>7 DEF PublishingTypes
<1>12. QED BY <1>4, <1>5, <1>7, <1>8, <1>9, <1>10, <1>11, RowsWritten

\* The rules a request may bring.
LEMMA NormalizedFacts ==
  ASSUME NEW t \in Teacher, NEW R \in NormalizedRules[t]
  PROVE  R \in SUBSET QuizRule /\ \A r \in R : MayPublishTo(r.by, r.says)
<1>1. R \in SUBSET {[says |-> scope, by |-> t] : scope \in {c \in Scopes : MayPublishTo(t, c)}}
  BY DEF NormalizedRules
<1>2. QED BY <1>1 DEF QuizRule

LEMMA CreateQuizInductive ==
  ASSUME PublishingIInv, NEW t \in Teacher, CreateQuiz(t)
  PROVE  PublishingIInv' /\ SeenBefore
<1>1. PICK c \in Contents, R \in NormalizedRules[t] : InsertQuiz(Draft(c, R))
  BY DEF CreateQuiz
<1>2. QED BY <1>1, NormalizedFacts, InsertQuizInductive

LEMMA CopyQuizInductive ==
  ASSUME PublishingIInv, NEW t \in Teacher, NEW s \in Quizzes, CopyQuiz(t, s)
  PROVE  PublishingIInv' /\ SeenBefore
<1> DEFINE hers(r) == [r EXCEPT !.by = t]
           mine == {hers(r) : r \in quiz[s].rules}
<1>1. quiz[s].content \in Contents /\ quiz[s].rules \in SUBSET QuizRule
  BY QuizFields DEF PublishingIInv, PublishingTypes
<1>2. ASSUME NEW r \in QuizRule PROVE hers(r) \in QuizRule /\ hers(r).by = t
  BY DEF QuizRule
<1>3. (\A r \in mine : MayPublishTo(t, r.says)) /\ InsertQuiz(Draft(quiz[s].content, mine))
  BY DEF CopyQuiz
<1> HIDE DEF hers
<1>4. mine \in SUBSET QuizRule /\ \A r \in mine : r.by = t
  BY <1>1, <1>2
<1> HIDE DEF mine
<1>5. \A r \in mine : MayPublishTo(r.by, r.says)
  BY <1>3, <1>4
<1>6. QED BY <1>1, <1>3, <1>4, <1>5, InsertQuizInductive

LEMMA UpdateQuizInductive ==
  ASSUME PublishingIInv, NEW t \in Teacher, NEW s \in Quizzes, UpdateQuiz(t, s)
  PROVE  PublishingIInv' /\ SeenBefore
<1>1. /\ quiz[s] \in QuizRow /\ InOrder(quiz[s], written) /\ Fit(papers[s], quiz[s])
      /\ QuizFree(s) /\ CheckQuizVersion(t, s) /\ quiz[s].blueprint = NoBlueprint
  BY DEF PublishingIInv, PublishingTypes, UpdateQuiz, ActiveSession, LockedSession
<1>2. PICK c \in Contents \union {quiz[s].content},
           R \in NormalizedRules[t] \union {quiz[s].rules} :
        SaveSession(s, [quiz[s] EXCEPT !.content = c, !.rules = R])
  BY DEF UpdateQuiz
<1> DEFINE row == [quiz[s] EXCEPT !.content = c, !.rules = R]
<1>3. R \in SUBSET QuizRule /\ \A r \in R : MayPublishTo(r.by, r.says)
  <2>1. quiz[s].rules \in SUBSET QuizRule /\ \A r \in quiz[s].rules : MayPublishTo(r.by, r.says)
    BY <1>1, QuizFields DEF InOrder
  <2>2. QED BY <2>1, NormalizedFacts
<1>4. c \in Contents
  BY <1>1, QuizFields
<1>5. /\ row \in QuizRow /\ row.version = quiz[s].version /\ row.status = quiz[s].status
      /\ row.blueprint = NoBlueprint /\ row.rules = R
  BY <1>1, <1>3, <1>4 DEF QuizRow
<1>6. row.status = "draft" /\ papers[s] = {}
  BY <1>1, <1>5 DEF InOrder, Fit
<1>7. SaveSession(s, row)
  BY <1>2
<1> HIDE DEF row
<1>8. InOrder(row, written) /\ Fit(papers[s], row)
  BY <1>1, <1>3, <1>5, <1>6 DEF InOrder, Fit
<1>9. QED BY <1>1, <1>5, <1>7, <1>8, SaveSessionInductive

LEMMA UpdateQuizAudienceInductive ==
  ASSUME PublishingIInv, NEW t \in Teacher, NEW s \in Quizzes, UpdateQuizAudience(t, s)
  PROVE  PublishingIInv' /\ SeenBefore
<1>1. /\ quiz[s] \in QuizRow /\ InOrder(quiz[s], written) /\ Fit(papers[s], quiz[s])
      /\ QuizFree(s) /\ CheckQuizVersion(t, s)
  BY DEF PublishingIInv, PublishingTypes, UpdateQuizAudience, ActiveSession, LockedSession
<1>2. PICK R \in NormalizedRules[t] : SaveSession(s, [quiz[s] EXCEPT !.rules = R])
  BY DEF UpdateQuizAudience
<1> DEFINE row == [quiz[s] EXCEPT !.rules = R]
<1>3. R \in SUBSET QuizRule /\ \A r \in R : MayPublishTo(r.by, r.says)
  BY NormalizedFacts
<1>4. /\ row \in QuizRow /\ row.version = quiz[s].version /\ row.status = quiz[s].status
      /\ row.blueprint = quiz[s].blueprint /\ row.rules = R /\ row.content = quiz[s].content
  BY <1>1, <1>3 DEF QuizRow
<1>5. SaveSession(s, row)
  BY <1>2
<1> HIDE DEF row
<1>6. InOrder(row, written) /\ Fit(papers[s], row)
  BY <1>1, <1>3, <1>4 DEF InOrder, Fit
<1>7. QED BY <1>1, <1>4, <1>5, <1>6, SaveSessionInductive

\* Closing and reopening: a quiz that is not a draft does not become one.
LEMMA StatusInductive ==
  ASSUME PublishingIInv, NEW t \in Teacher, NEW s \in Quizzes, QuizFree(s),
         CheckQuizVersion(t, s), quiz[s].status # "draft", NEW status \in {"open", "closed"},
         SaveSession(s, [quiz[s] EXCEPT !.status = status])
  PROVE  PublishingIInv' /\ SeenBefore
<1>1. quiz[s] \in QuizRow /\ InOrder(quiz[s], written) /\ Fit(papers[s], quiz[s])
  BY DEF PublishingIInv, PublishingTypes
<1> DEFINE row == [quiz[s] EXCEPT !.status = status]
<1>2. /\ row \in QuizRow /\ row.version = quiz[s].version /\ row.status = status
      /\ row.blueprint = quiz[s].blueprint /\ row.rules = quiz[s].rules
      /\ row.content = quiz[s].content
  BY <1>1 DEF QuizRow
<1>3. SaveSession(s, row)
  OBVIOUS
<1> HIDE DEF row
<1>4. InOrder(row, written) /\ Fit(papers[s], row)
  BY <1>1, <1>2 DEF InOrder, Fit
<1>5. QED BY <1>2, <1>3, <1>4, SaveSessionInductive

LEMMA ArchiveQuizInductive ==
  ASSUME PublishingIInv, NEW t \in Teacher, NEW s \in Quizzes, ArchiveQuiz(t, s)
  PROVE  PublishingIInv' /\ SeenBefore
<1>1. /\ quiz[s] \in QuizRow /\ InOrder(quiz[s], written) /\ Fit(papers[s], quiz[s])
      /\ QuizFree(s) /\ CheckQuizVersion(t, s)
  BY DEF PublishingIInv, PublishingTypes, ArchiveQuiz, ActiveSession, LockedSession
<1> DEFINE row == [quiz[s] EXCEPT !.archived = TRUE]
<1>2. /\ row \in QuizRow /\ row.version = quiz[s].version /\ row.status = quiz[s].status
      /\ row.blueprint = quiz[s].blueprint /\ row.rules = quiz[s].rules
      /\ row.content = quiz[s].content
  BY <1>1 DEF QuizRow
<1>3. SaveSession(s, row)
  BY DEF ArchiveQuiz
<1> HIDE DEF row
<1>4. InOrder(row, written) /\ Fit(papers[s], row)
  BY <1>1, <1>2 DEF InOrder, Fit
<1>5. QED BY <1>1, <1>2, <1>3, <1>4, SaveSessionInductive

\* A deleted quiz takes its papers along; its id is not used again.
LEMMA DeleteQuizInductive ==
  ASSUME PublishingIInv, NEW t \in Teacher, NEW s \in Quizzes, DeleteQuiz(t, s)
  PROVE  PublishingIInv' /\ SeenBefore
<1>1. /\ PublishingTypes /\ quiz \in [Quizzes -> QuizRow] /\ written \in 0..MaxWrites
      /\ papers = [r \in Quiz |-> papers[r]]
      /\ \A r \in Quizzes : InOrder(quiz[r], written) /\ Fit(papers[r], quiz[r])
      /\ QuizFree(s) /\ CheckQuizVersion(t, s)
  BY DEF PublishingIInv, PublishingTypes, DeleteQuiz, LockedSession
<1>2. /\ papers' = [papers EXCEPT ![s] = {}] /\ UNCHANGED <<everIssued, view, build, bank>>
      /\ written' = written + 1 /\ written' \in 0..MaxWrites
  BY <1>1 DEF DeleteQuiz, CountWrite
<1>3. /\ Quizzes' = Quizzes \ {s} /\ quiz' \in [Quizzes' -> QuizRow]
      /\ \A r \in Quizzes' : quiz'[r] = quiz[r]
  BY <1>1 DEF DeleteQuiz, Restrict, Quizzes
<1>4. \A r \in Quiz \ {s} : papers'[r] = papers[r]
  BY <1>1, <1>2
<1>5. papers' = [r \in Quiz |-> papers'[r]] /\ papers'[s] = {}
  <2>1. s \in Quiz
    BY <1>1 DEF PublishingTypes
  <2>2. QED BY <1>1, <1>2, <2>1
<1>6. \A r \in Quizzes' : InOrder(quiz'[r], written') /\ Fit(papers'[r], quiz'[r])
  <2> SUFFICES ASSUME NEW r \in Quizzes'
               PROVE  InOrder(quiz'[r], written') /\ Fit(papers'[r], quiz'[r])
    OBVIOUS
  <2>1. papers'[r] = papers[r] /\ quiz'[r] = quiz[r]
    BY <1>1, <1>3, <1>4 DEF PublishingTypes
  <2>2. InOrder(quiz[r], written) /\ Fit(papers[r], quiz[r])
    BY <1>1, <1>3
  <2>3. 1..(written + 1) \subseteq 1..(written' + 1)
    BY <1>1, <1>2
  <2>4. QED BY <2>1, <2>2, <2>3 DEF InOrder
<1>7. QuizzesAdvance
  BY <1>3 DEF QuizzesAdvance
<1>8. SeenBefore
  <2> SUFFICES ASSUME NEW r \in Quizzes, r \notin Quizzes' \/ quiz'[r] # quiz[r]
               PROVE  \E o \in Teacher : r \in DOMAIN view[o] /\ view[o][r] = quiz[r]
    BY DEF SeenBefore
  <2>1. r = s
    BY <1>3
  <2>2. QED BY <1>1, <2>1, CheckedMeansSeen
<1>9. BuildsSurvive
  <2> SUFFICES ASSUME NEW o \in Teacher, build[o].at # None
               PROVE  build[o].at \in Quizzes' /\ quiz'[build[o].at] = quiz[build[o].at]
    BY <1>2 DEF BuildsSurvive
  <2>1. build[o].at \in Quizzes /\ build[o].at # s
    BY <1>1 DEF PublishingIInv, BuildHolds, QuizFree
  <2>2. QED BY <1>3, <2>1
<1>10. /\ Quizzes' \subseteq everIssued' /\ everIssued \subseteq everIssued' /\ everIssued' \subseteq Quiz
       /\ build' \in [Teacher -> Builds]
  BY <1>1, <1>2, <1>3 DEF PublishingTypes
<1>11. \A r \in Quiz \ everIssued' : papers'[r] = {}
  BY <1>1, <1>2, <1>4, <1>5 DEF PublishingTypes
<1>12. QED BY <1>2, <1>3, <1>5, <1>6, <1>7, <1>8, <1>9, <1>10, <1>11, RowsWritten

\* A paper is drawn from the blueprint.
LEMMA StartAttemptInductive ==
  ASSUME PublishingIInv, NEW student \in Student, StartAttempt(student)
  PROVE  PublishingIInv' /\ SeenBefore
<1>1. /\ PublishingTypes /\ papers = [r \in Quiz |-> papers[r]]
      /\ \A r \in Quizzes : InOrder(quiz[r], written) /\ Fit(papers[r], quiz[r])
  BY DEF PublishingIInv, PublishingTypes
<1>13. PICK s \in Quizzes :
         /\ quiz[s].status = "open"
         /\ \E drawn \in Draws(quiz[s].blueprint) :
              papers' = [papers EXCEPT ![s] =
                           @ \union {[choice |-> drawn, items |-> quiz[s].blueprint.items]}]
  BY DEF StartAttempt
<1>2. PICK drawn \in Draws(quiz[s].blueprint) :
        /\ quiz[s].status = "open"
        /\ papers' = [papers EXCEPT ![s] =
                        @ \union {[choice |-> drawn, items |-> quiz[s].blueprint.items]}]
        /\ UNCHANGED <<quiz, everIssued, view, build, bank, written>>
  BY <1>13 DEF StartAttempt
<1> DEFINE paper == [choice |-> drawn, items |-> quiz[s].blueprint.items]
<1>3. paper.choice = drawn /\ paper.items = quiz[s].blueprint.items
  OBVIOUS
<1>4. papers' = [papers EXCEPT ![s] = papers[s] \union {paper}]
  BY <1>2
<1> HIDE DEF paper
<1>5. s \in Quiz /\ s \in everIssued
  BY <1>1 DEF PublishingTypes
<1>6. /\ papers'[s] = papers[s] \union {paper} /\ papers' = [r \in Quiz |-> papers'[r]]
      /\ \A r \in Quiz \ {s} : papers'[r] = papers[r]
  BY <1>1, <1>4, <1>5
<1>7. Quizzes' = Quizzes /\ SeenBefore
  BY <1>2, QuizzesAlone
<1>8. Fit(papers'[s], quiz[s])
  BY <1>1, <1>2, <1>3, <1>6 DEF Fit
<1>9. \A r \in Quizzes' : InOrder(quiz'[r], written') /\ Fit(papers'[r], quiz'[r])
  <2> SUFFICES ASSUME NEW r \in Quizzes
               PROVE  InOrder(quiz[r], written) /\ Fit(papers'[r], quiz[r])
    BY <1>2, <1>7
  <2>1. CASE r = s
    BY <1>1, <1>8, <2>1
  <2>2. CASE r # s
    <3>1. papers'[r] = papers[r]
      BY <1>1, <1>6, <2>2 DEF PublishingTypes
    <3>2. QED BY <1>1, <3>1
  <2>3. QED BY <2>1, <2>2
<1>10. QuizzesAdvance /\ BuildsSurvive
  BY <1>2, <1>7 DEF QuizzesAdvance, BuildsSurvive, PublishingIInv, BuildHolds
<1>11. /\ Quizzes' \subseteq everIssued' /\ everIssued \subseteq everIssued' /\ everIssued' \subseteq Quiz
       /\ quiz' \in [Quizzes' -> QuizRow] /\ build' \in [Teacher -> Builds]
       /\ written' \in 0..MaxWrites
       /\ \A r \in Quiz \ everIssued' : papers'[r] = {}
  BY <1>1, <1>2, <1>5, <1>6, <1>7 DEF PublishingTypes
<1>12. QED BY <1>2, <1>6, <1>7, <1>9, <1>10, <1>11, RowsWritten

\* A page shows a quiz as it is; its teacher builds nothing meanwhile.
LEMMA GetQuizInductive ==
  ASSUME PublishingIInv, NEW t \in Teacher, GetQuiz(t)
  PROVE  PublishingIInv' /\ SeenBefore
<1>1. PICK s \in ScopedQuizzes(t) \union {None} :
        view' = [view EXCEPT ![t] = Restrict(quiz, {s} \ {None})]
  BY DEF GetQuiz
<1> DEFINE S == {s} \ {None}
           new == Restrict(quiz, S)
<1>2. /\ PublishingTypes /\ quiz \in [Quizzes -> QuizRow] /\ build[t] = NotBuilding
      /\ UNCHANGED <<quiz, everIssued, papers, build, bank, written>>
      /\ view = [o \in Teacher |-> view[o]]
  BY DEF PublishingIInv, PublishingTypes, GetQuiz
<1>3. S \subseteq Quizzes
  BY DEF ScopedQuizzes
<1>4. DOMAIN new = S /\ new \in [S -> QuizRow] /\ \A r \in S : new[r] = quiz[r]
  BY <1>2, <1>3 DEF Restrict
<1>5. view' = [view EXCEPT ![t] = new]
  BY <1>1
<1> HIDE DEF new, S
<1>6. /\ view' = [o \in Teacher |-> view'[o]] /\ view'[t] = new
      /\ \A o \in Teacher \ {t} : view'[o] = view[o]
  BY <1>2, <1>5
<1>7. Quizzes' = Quizzes /\ SeenBefore
  BY <1>2, QuizzesAlone
<1>8. PublishingTypes'
  <2>1. \A o \in Teacher : /\ view'[o] \in [DOMAIN view'[o] -> QuizRow]
                           /\ DOMAIN view'[o] \subseteq everIssued
    BY <1>2, <1>3, <1>4, <1>6 DEF PublishingTypes
  <2>2. BankTypeOK'
    BY <1>2 DEF PublishingTypes, BankTypeOK
  <2>3. QED BY <1>2, <1>6, <1>7, <2>1, <2>2 DEF PublishingTypes
<1>9. ViewsPast'
  BY <1>2, <1>4, <1>6, <1>7 DEF PublishingIInv, ViewsPast
<1>10. BuildsApart'
  BY <1>2 DEF PublishingIInv, BuildsApart
<1>11. ASSUME NEW o \in Teacher PROVE BuildHolds(o)'
  <2>1. CASE o = t
    BY <1>2, <2>1 DEF BuildHolds, NotBuilding
  <2>2. CASE o # t
    <3>1. view'[o] = view[o] /\ BuildHolds(o)
      BY <1>6, <2>2 DEF PublishingIInv
    <3>2. QED BY <1>2, <1>7, <3>1 DEF BuildHolds
  <2>3. QED BY <2>1, <2>2
<1>12. \A r \in Quizzes' : InOrder(quiz'[r], written') /\ Fit(papers'[r], quiz'[r])
  BY <1>2, <1>7 DEF PublishingIInv
<1>13. QED BY <1>7, <1>8, <1>9, <1>10, <1>11, <1>12 DEF PublishingIInv

-----------------------------------------------------------------------------
(* Publishing, and the bank meanwhile *)

\* The quiz is nobody's; its sections are locked, open, and hold enough.
LEMMA StartBuildInductive ==
  ASSUME PublishingIInv, NEW t \in Teacher, NEW s \in Quizzes, NEW publish \in BOOLEAN,
         StartBuild(t, s, publish)
  PROVE  PublishingIInv' /\ SeenBefore
<1> DEFINE c == quiz[s].content
           x == [at |-> s, publish |-> publish, locked |-> SectionsLocked(c)]
<1>1. /\ PublishingTypes /\ quiz[s] \in QuizRow /\ InOrder(quiz[s], written)
      /\ QuizFree(s) /\ CheckQuizVersion(t, s) /\ quiz[s].blueprint = NoBlueprint
      /\ c.units \subseteq bank.open /\ EnoughQuestions(c)
      /\ UNCHANGED <<quiz, everIssued, papers, view, bank, written>>
  BY DEF PublishingIInv, PublishingTypes, StartBuild, ActiveSession, LockedSession, ResolveUnits
<1>2. build' = [build EXCEPT ![t] = x] /\ build \in [Teacher -> Builds]
  BY <1>1 DEF StartBuild, PublishingTypes
<1>3. x.at = s /\ x.locked = c.units /\ x \in Builds
  <2>1. c.units \in SUBSET BankSection /\ s \in Quiz
    BY <1>1, QuizFields, ContentFields DEF PublishingTypes
  <2>2. QED BY <2>1 DEF Builds, SectionsLocked
<1>4. EnoughOf(bank, c)
  BY <1>1, EnoughNow
<1>5. quiz[s].status = "draft" /\ s \in DOMAIN view[t] /\ view[t][s] = quiz[s]
  BY <1>1, CheckedMeansSeen DEF InOrder
<1> HIDE DEF x
<1>6. /\ build' \in [Teacher -> Builds] /\ build'[t] = x
      /\ \A o \in Teacher \ {t} : build'[o] = build[o]
  BY <1>2, <1>3
<1>7. Quizzes' = Quizzes /\ SeenBefore
  BY <1>1, QuizzesAlone
<1>8. PublishingTypes'
  <2>1. BankTypeOK'
    BY <1>1 DEF PublishingTypes, BankTypeOK
  <2>2. QED BY <1>1, <1>6, <1>7, <2>1 DEF PublishingTypes
<1>9. BuildsApart'
  <2> SUFFICES ASSUME NEW a \in Teacher, NEW b \in Teacher, a # b, build'[a].at # None
               PROVE  build'[b].at # build'[a].at
    BY DEF BuildsApart
  <2>1. \A o \in Teacher : build[o].at # s
    BY <1>1 DEF QuizFree
  <2>2. build[a].at # None => build[b].at # build[a].at
    BY DEF PublishingIInv, BuildsApart
  <2>3. QED BY <1>3, <1>6, <2>1, <2>2
<1>10. ASSUME NEW o \in Teacher PROVE BuildHolds(o)'
  <2>1. CASE o = t
    <3>1. build'[o] = x
      BY <1>6, <2>1
    <3>2. QED BY <1>1, <1>3, <1>4, <1>5, <1>7, <2>1, <3>1 DEF BuildHolds
  <2>2. CASE o # t
    <3>1. build'[o] = build[o] /\ BuildHolds(o)
      BY <1>6, <2>2 DEF PublishingIInv
    <3>2. QED BY <1>1, <1>7, <3>1 DEF BuildHolds
  <2>3. QED BY <2>1, <2>2
<1>11. ViewsPast' /\ \A r \in Quizzes' : InOrder(quiz'[r], written') /\ Fit(papers'[r], quiz'[r])
  BY <1>1, <1>7 DEF PublishingIInv, ViewsPast
<1>12. QED BY <1>7, <1>8, <1>9, <1>10, <1>11 DEF PublishingIInv

\* A build that ends and writes nothing.
LEMMA EndedInductive ==
  ASSUME PublishingIInv, NEW t \in Teacher, build' = [build EXCEPT ![t] = NotBuilding],
         UNCHANGED <<quiz, everIssued, papers, view, bank, written>>
  PROVE  PublishingIInv' /\ SeenBefore
<1>1. /\ PublishingTypes /\ build \in [Teacher -> Builds]
      /\ \A r \in Quizzes : InOrder(quiz[r], written) /\ Fit(papers[r], quiz[r])
  BY DEF PublishingIInv, PublishingTypes
<1>2. build' \in [Teacher -> Builds] /\ build'[t] = NotBuilding
      /\ \A o \in Teacher \ {t} : build'[o] = build[o]
  BY <1>1, BuildFacts
<1>3. Quizzes' = Quizzes /\ SeenBefore
  BY QuizzesAlone
<1>4. QuizzesAdvance
  BY <1>3 DEF QuizzesAdvance
<1>5. BuildsSurvive
  BY <1>2, <1>3 DEF BuildsSurvive, PublishingIInv, BuildHolds
<1>6. /\ Quizzes' \subseteq everIssued' /\ everIssued \subseteq everIssued' /\ everIssued' \subseteq Quiz
      /\ quiz' \in [Quizzes' -> QuizRow] /\ papers' = [r \in Quiz |-> papers'[r]]
      /\ written' \in 0..MaxWrites /\ \A r \in Quiz \ everIssued' : papers'[r] = {}
  BY <1>1, <1>3 DEF PublishingTypes
<1>7. \A r \in Quizzes' : InOrder(quiz'[r], written') /\ Fit(papers'[r], quiz'[r])
  BY <1>1, <1>3
<1>8. QED BY <1>2, <1>3, <1>4, <1>5, <1>6, <1>7, RowsWritten

\* What was counted is still there, so a paper can be drawn from what is published.
LEMMA FinishBuildInductive ==
  ASSUME PublishingIInv, NEW t \in Teacher, FinishBuild(t)
  PROVE  PublishingIInv' /\ SeenBefore
<1>0. PICK s : s = build[t].at
  OBVIOUS
<1>1. /\ PublishingTypes /\ build \in [Teacher -> Builds] /\ written \in 0..MaxWrites
      /\ quiz \in [Quizzes -> QuizRow]
      /\ \A r \in Quizzes : InOrder(quiz[r], written) /\ Fit(papers[r], quiz[r])
      /\ s # None /\ build' = [build EXCEPT ![t] = NotBuilding]
      /\ UNCHANGED <<everIssued, papers, view, bank>>
  BY <1>0 DEF PublishingIInv, PublishingTypes, FinishBuild
<1>2. CASE ~(build[t].publish /\ BuildSucceeds(s))
  <2>1. UNCHANGED <<quiz, written>>
    BY <1>0, <1>2 DEF FinishBuild
  <2>2. QED BY <1>1, <2>1, EndedInductive
<1>3. CASE build[t].publish /\ BuildSucceeds(s)
  <2>1. /\ s \in Quizzes /\ s \in DOMAIN view[t] /\ view[t][s] = quiz[s]
        /\ quiz[s].status = "draft" /\ EnoughOf(bank, quiz[s].content)
    BY <1>0, <1>1 DEF PublishingIInv, BuildHolds
  <2>17. PICK B : B = BuildBlueprint(quiz[s].content)
    OBVIOUS
  <2>2. quiz[s] \in QuizRow /\ quiz[s].content \in Contents /\ quiz[s].version \in Nat
    BY <1>1, <2>1, QuizFields
  <2>3. B \in Blueprint /\ Complete(B) /\ B.content = quiz[s].content
    <3>1. EnoughQuestions(quiz[s].content) /\ ConfigurationValid(quiz[s].content)
      BY <1>3, <2>1, EnoughNow DEF BuildSucceeds
    <3>2. B.content = quiz[s].content
      BY <2>17 DEF BuildBlueprint
    <3>3. QED BY <1>1, <2>2, <2>17, <3>1, <3>2, BuiltComplete DEF PublishingTypes
  <2>4. /\ quiz' = [quiz EXCEPT ![s].blueprint = B, ![s].status = "open", ![s].version = @ + 1]
        /\ written' = written + 1 /\ written' \in 0..MaxWrites
    BY <1>0, <1>1, <1>3, <2>17 DEF FinishBuild, CountWrite
  <2>16. \A o \in Teacher \ {t} :
           build[o].at # None => build[o].at \in Quizzes /\ build[o].at # s
    BY <1>0, <1>1 DEF PublishingIInv, BuildHolds, BuildsApart
  <2> DEFINE new == [quiz[s] EXCEPT !.blueprint = B, !.status = "open", !.version = @ + 1]
  <2>5. /\ quiz'[s] = new /\ quiz' = [r \in Quizzes |-> quiz'[r]]
        /\ \A r \in Quizzes \ {s} : quiz'[r] = quiz[r]
    BY <1>1, <2>1, <2>4
  <2>6. /\ new \in QuizRow /\ new.version = quiz[s].version + 1 /\ new.status = "open"
        /\ new.blueprint = B /\ new.content = quiz[s].content /\ new.rules = quiz[s].rules
    <3> DEFINE drafted == quiz[s]
    <3>1. drafted \in QuizRow /\ drafted.version + 1 \in Nat
      BY <2>2
    <3>2. new = [drafted EXCEPT !.blueprint = B, !.status = "open", !.version = drafted.version + 1]
      OBVIOUS
    <3> HIDE DEF new, drafted
    <3>3. /\ new \in QuizRow /\ new.version = drafted.version + 1 /\ new.status = "open"
          /\ new.blueprint = B /\ new.content = drafted.content /\ new.rules = drafted.rules
      BY <2>3, <3>1, <3>2 DEF QuizRow
    <3>4. QED BY <3>3 DEF drafted
  <2> HIDE DEF new
  <2>7. Quizzes' = Quizzes /\ quiz' \in [Quizzes -> QuizRow]
    <3>1. Quizzes' = Quizzes
      BY <2>5 DEF Quizzes
    <3>2. \A r \in Quizzes : quiz'[r] \in QuizRow
      BY <1>1, <2>5, <2>6
    <3>3. QED BY <2>5, <3>1, <3>2
  <2>8. InOrder(new, written')
    <3>1. new.version \in 1..(written' + 1)
      BY <1>1, <2>1, <2>2, <2>4, <2>6 DEF InOrder
    <3>2. B # NoBlueprint
      BY <2>2, <2>3 DEF NoBlueprint
    <3>3. \A r \in new.rules : MayPublishTo(r.by, r.says)
      BY <1>1, <2>1, <2>6 DEF InOrder
    <3>4. QED BY <2>3, <2>6, <3>1, <3>2, <3>3 DEF InOrder
  <2>9. Fit(papers[s], new)
    BY <1>1, <2>1 DEF Fit
  <2>10. \A r \in Quizzes' : InOrder(quiz'[r], written') /\ Fit(papers'[r], quiz'[r])
    <3> SUFFICES ASSUME NEW r \in Quizzes
                 PROVE  InOrder(quiz'[r], written') /\ Fit(papers[r], quiz'[r])
      BY <1>1, <2>7
    <3>1. CASE r = s
      BY <2>5, <2>8, <2>9, <3>1
    <3>2. CASE r # s
      <4>1. quiz'[r] = quiz[r] /\ InOrder(quiz[r], written) /\ Fit(papers[r], quiz[r])
        BY <1>1, <2>5, <3>2
      <4>2. 1..(written + 1) \subseteq 1..(written' + 1)
        BY <1>1, <2>4
      <4>3. QED BY <4>1, <4>2 DEF InOrder
    <3>3. QED BY <3>1, <3>2
  <2>11. QuizzesAdvance /\ SeenBefore
    BY <2>1, <2>5, <2>6, <2>7 DEF QuizzesAdvance, SeenBefore
  <2>12. build' \in [Teacher -> Builds] /\ build'[t] = NotBuilding
         /\ \A o \in Teacher \ {t} : build'[o] = build[o]
    BY <1>1, BuildFacts
  <2>13. BuildsSurvive
    <3> SUFFICES ASSUME NEW o \in Teacher \ {t}, build[o].at # None
                 PROVE  build[o].at \in Quizzes' /\ quiz'[build[o].at] = quiz[build[o].at]
      BY <2>12 DEF BuildsSurvive
    <3>1. build[o].at \in Quizzes /\ build[o].at # s
      BY <2>16
    <3>2. QED BY <2>5, <2>7, <3>1
  <2>14. /\ Quizzes' \subseteq everIssued' /\ everIssued \subseteq everIssued'
         /\ everIssued' \subseteq Quiz /\ papers' = [r \in Quiz |-> papers'[r]]
         /\ \A r \in Quiz \ everIssued' : papers'[r] = {}
    BY <1>1, <2>7 DEF PublishingTypes
  <2>15. QED
    BY <1>1, <2>4, <2>7, <2>10, <2>11, <2>12, <2>13, <2>14, RowsWritten
<1>4. QED BY <1>2, <1>3

\* The bank changes, but not the pools of locked sections.
LEMMA BankInductive ==
  ASSUME PublishingIInv, UNCHANGED <<quiz, everIssued, papers, view, build, written>>,
         BankTypeOK',
         \A units \in SUBSET BankSection :
           units \subseteq LockedSections /\ units \subseteq bank.open =>
             units \subseteq bank'.open /\ PoolOf(bank', units) = PoolOf(bank, units)
  PROVE  PublishingIInv' /\ SeenBefore
<1>1. Quizzes' = Quizzes /\ SeenBefore
  BY QuizzesAlone
<1>2. PublishingTypes'
  BY <1>1 DEF PublishingIInv, PublishingTypes
<1>3. BuildsApart' /\ ViewsPast'
      /\ \A r \in Quizzes' : InOrder(quiz'[r], written') /\ Fit(papers'[r], quiz'[r])
  BY <1>1 DEF PublishingIInv, BuildsApart, ViewsPast
<1>4. ASSUME NEW t \in Teacher, build[t].at # None
      PROVE  /\ build[t].locked \subseteq bank'.open
             /\ EnoughOf(bank', quiz[build[t].at].content)
  <2>1. /\ build[t].at \in Quizzes /\ build[t].locked = quiz[build[t].at].content.units
        /\ build[t].locked \subseteq bank.open /\ EnoughOf(bank, quiz[build[t].at].content)
    BY <1>4 DEF PublishingIInv, BuildHolds
  <2>2. build[t].locked \in SUBSET BankSection /\ build[t].locked \subseteq LockedSections
    BY BuildFacts DEF PublishingIInv, PublishingTypes, LockedSections
  <2>3. /\ build[t].locked \subseteq bank'.open
        /\ PoolOf(bank', build[t].locked) = PoolOf(bank, build[t].locked)
    BY <2>1, <2>2
  <2>4. QED BY <2>1, <2>3 DEF EnoughOf
<1>5. \A t \in Teacher : BuildHolds(t)'
  BY <1>1, <1>4 DEF PublishingIInv, BuildHolds
<1>6. QED BY <1>1, <1>2, <1>3, <1>5 DEF PublishingIInv

\* The same questions of some sections make the same pool.
LEMMA SamePool ==
  ASSUME NEW a, NEW b, NEW units, units \subseteq a.open, units \subseteq b.open,
         \A q \in BankQuestion :
           \/ a.question[q] = b.question[q]
           \/ a.question[q].section \notin units /\ b.question[q].section \notin units
  PROVE  PoolOf(a, units) = PoolOf(b, units)
<1> DEFINE in(c, q) == c.question[q].live /\ c.question[q].section \in units
                                         /\ c.question[q].section \in c.open
<1>1. ASSUME NEW q \in BankQuestion
      PROVE  (in(a, q) <=> in(b, q)) /\ (in(a, q) => a.question[q] = b.question[q])
  OBVIOUS
<1>2. QED BY <1>1 DEF PoolOf

BankRow == [question : [BankQuestion -> [section : BankSection, difficulty : Difficulty,
                                         version : Nat, live : BOOLEAN]],
            open : SUBSET BankSection,
            problem : [BankProblem -> [version : Nat, usable : BOOLEAN]],
            changes : 0..MaxBankChanges]

\* A change of the bank is counted; a version grows by one with it.
LEMMA BankWritten ==
  ASSUME BankTypeOK, NEW b \in BankRow, b.changes = bank.changes, WriteBank(b),
         \A q \in BankQuestion : b.question[q].version \in 1..(bank.changes + 2),
         \A p \in BankProblem : b.problem[p].version \in 1..(bank.changes + 2)
  PROVE  /\ BankTypeOK' /\ bank'.question = b.question /\ bank'.open = b.open
         /\ UNCHANGED <<quiz, everIssued, papers, view, build, written>>
<1>1. bank.changes \in Nat /\ MaxBankChanges \in Nat /\ bank.changes < MaxBankChanges
  BY BankFields DEF WriteBank
<1>2. bank' = [b EXCEPT !.changes = bank.changes + 1]
  BY DEF WriteBank
<1>3. bank.changes + 1 \in 0..MaxBankChanges /\ (bank.changes + 1) + 1 = bank.changes + 2
  BY <1>1
<1>4. /\ bank' \in BankRow /\ bank'.question = b.question /\ bank'.open = b.open
      /\ bank'.problem = b.problem /\ bank'.changes = bank.changes + 1
  BY <1>2, <1>3 DEF BankRow
<1>5. BankTypeOK'
  BY <1>3, <1>4 DEF BankTypeOK, BankRow
<1>6. QED BY <1>4, <1>5 DEF WriteBank

LEMMA VersionsBelow ==
  ASSUME BankTypeOK
  PROVE  /\ bank \in BankRow /\ bank.changes \in Nat
         /\ \A q \in BankQuestion : /\ bank.question[q].version \in 1..(bank.changes + 2)
                                    /\ bank.question[q].version + 1 \in 1..(bank.changes + 2)
         /\ \A p \in BankProblem : /\ bank.problem[p].version \in 1..(bank.changes + 2)
                                   /\ bank.problem[p].version + 1 \in 1..(bank.changes + 2)
<1>1. bank \in BankRow
  BY DEF BankTypeOK, BankRow
<1>2. bank.changes \in Nat
  BY BankFields
<1>3. \A n \in 1..(bank.changes + 1) : n \in 1..(bank.changes + 2) /\ n + 1 \in 1..(bank.changes + 2)
  BY <1>2
<1>4. QED BY <1>1, <1>2, <1>3 DEF BankTypeOK

\* A question gets to an open section only while nobody has it locked.
LEMMA ChangeBankQuestionInductive ==
  ASSUME PublishingIInv, NEW q \in BankQuestion, ChangeBankQuestion(q)
  PROVE  PublishingIInv' /\ SeenBefore
<1>1. BankTypeOK
  BY DEF PublishingIInv, PublishingTypes
<1>2. bank.question[q].section \notin LockedSections
  BY DEF ChangeBankQuestion
<1>3. PICK s \in bank.open \ LockedSections, d \in Difficulty, live \in BOOLEAN :
        WriteBank([bank EXCEPT !.question[q] =
                     [section |-> s, difficulty |-> d, live |-> live, version |-> @.version + 1]])
  BY DEF ChangeBankQuestion
<1> DEFINE new == [section |-> s, difficulty |-> d, live |-> live,
                   version |-> bank.question[q].version + 1]
           b == [bank EXCEPT !.question[q] = new]
<1>4. WriteBank(b)
  BY <1>3
<1>5. /\ new \in [section : BankSection, difficulty : Difficulty, version : Nat, live : BOOLEAN]
      /\ new.section = s /\ new.version = bank.question[q].version + 1
  BY <1>1, VersionsBelow DEF BankRow
<1> HIDE DEF new
<1>6. /\ b \in BankRow /\ b.changes = bank.changes /\ b.open = bank.open
      /\ b.problem = bank.problem /\ b.question[q] = new
      /\ \A r \in BankQuestion \ {q} : b.question[r] = bank.question[r]
  BY <1>1, <1>5, VersionsBelow DEF BankRow
<1> HIDE DEF b
<1>7. /\ \A r \in BankQuestion : b.question[r].version \in 1..(bank.changes + 2)
      /\ \A p \in BankProblem : b.problem[p].version \in 1..(bank.changes + 2)
  BY <1>1, <1>5, <1>6, VersionsBelow
<1>8. /\ BankTypeOK' /\ bank'.question = b.question /\ bank'.open = bank.open
      /\ UNCHANGED <<quiz, everIssued, papers, view, build, written>>
  BY <1>1, <1>4, <1>6, <1>7, BankWritten
<1>9. ASSUME NEW units \in SUBSET BankSection,
             units \subseteq LockedSections, units \subseteq bank.open
      PROVE  units \subseteq bank'.open /\ PoolOf(bank', units) = PoolOf(bank, units)
  <2>1. ASSUME NEW r \in BankQuestion
        PROVE  \/ bank'.question[r] = bank.question[r]
               \/ /\ bank'.question[r].section \notin units
                  /\ bank.question[r].section \notin units
    BY <1>2, <1>5, <1>6, <1>8, <1>9
  <2>2. QED BY <1>8, <1>9, <2>1, SamePool
<1>10. QED BY <1>8, <1>9, BankInductive

LEMMA TurnBankSectionInductive ==
  ASSUME PublishingIInv, NEW s \in BankSection, TurnBankSection(s)
  PROVE  PublishingIInv' /\ SeenBefore
<1> DEFINE open == IF s \in bank.open THEN bank.open \ {s} ELSE bank.open \union {s}
           b == [bank EXCEPT !.open = open]
<1>1. BankTypeOK /\ s \notin LockedSections
  BY DEF PublishingIInv, PublishingTypes, TurnBankSection
<1>2. WriteBank(b)
  BY DEF TurnBankSection
<1>3. open \in SUBSET BankSection /\ \A r \in bank.open : r # s => r \in open
  BY <1>1, BankFields
<1> HIDE DEF open
<1>4. /\ b \in BankRow /\ b.changes = bank.changes /\ b.open = open
      /\ b.problem = bank.problem /\ b.question = bank.question
  BY <1>1, <1>3, VersionsBelow DEF BankRow
<1> HIDE DEF b
<1>5. /\ BankTypeOK' /\ bank'.question = bank.question /\ bank'.open = open
      /\ UNCHANGED <<quiz, everIssued, papers, view, build, written>>
  BY <1>1, <1>2, <1>4, VersionsBelow, BankWritten
<1>6. ASSUME NEW units \in SUBSET BankSection,
             units \subseteq LockedSections, units \subseteq bank.open
      PROVE  units \subseteq bank'.open /\ PoolOf(bank', units) = PoolOf(bank, units)
  <2>1. units \subseteq bank'.open
    BY <1>1, <1>3, <1>5, <1>6
  <2>2. QED BY <1>5, <1>6, <2>1, SamePool
<1>7. QED BY <1>5, <1>6, BankInductive

\* Problems are in no pool.
LEMMA ChangeBankProblemInductive ==
  ASSUME PublishingIInv, NEW p \in BankProblem, ChangeBankProblem(p)
  PROVE  PublishingIInv' /\ SeenBefore
<1>1. BankTypeOK
  BY DEF PublishingIInv, PublishingTypes
<1>2. PICK usable \in BOOLEAN :
        WriteBank([bank EXCEPT !.problem[p] = [version |-> @.version + 1, usable |-> usable]])
  BY DEF ChangeBankProblem
<1> DEFINE new == [version |-> bank.problem[p].version + 1, usable |-> usable]
           b == [bank EXCEPT !.problem[p] = new]
<1>3. WriteBank(b)
  BY <1>2
<1>4. /\ new \in [version : Nat, usable : BOOLEAN]
      /\ new.version = bank.problem[p].version + 1
  BY <1>1, VersionsBelow
<1> HIDE DEF new
<1>5. /\ b \in BankRow /\ b.changes = bank.changes /\ b.open = bank.open
      /\ b.question = bank.question /\ b.problem[p] = new
      /\ \A r \in BankProblem \ {p} : b.problem[r] = bank.problem[r]
  BY <1>1, <1>4, VersionsBelow DEF BankRow
<1> HIDE DEF b
<1>6. /\ \A r \in BankQuestion : b.question[r].version \in 1..(bank.changes + 2)
      /\ \A r \in BankProblem : b.problem[r].version \in 1..(bank.changes + 2)
  BY <1>1, <1>4, <1>5, VersionsBelow
<1>7. /\ BankTypeOK' /\ bank'.question = bank.question /\ bank'.open = bank.open
      /\ UNCHANGED <<quiz, everIssued, papers, view, build, written>>
  BY <1>1, <1>3, <1>5, <1>6, BankWritten
<1>8. ASSUME NEW units \in SUBSET BankSection, units \subseteq bank.open
      PROVE  units \subseteq bank'.open /\ PoolOf(bank', units) = PoolOf(bank, units)
  BY <1>7, <1>8, SamePool
<1>9. QED BY <1>7, <1>8, BankInductive

-----------------------------------------------------------------------------
(* The invariant *)

LEMMA InitPublishing ==
  ASSUME PublishingInit
  PROVE  PublishingIInv
<1>1. Quizzes = {} /\ \A t \in Teacher : DOMAIN view[t] = {} /\ build[t] = NotBuilding
  BY DEF PublishingInit, Quizzes
<1>2. BankTypeOK
  <2>1. /\ bank.changes = 0 /\ bank.open = BankSection
        /\ \A q \in BankQuestion :
             bank.question[q] \in [section : BankSection, difficulty : Difficulty,
                                   version : {1}, live : {TRUE}]
        /\ \A p \in BankProblem : bank.problem[p] \in [version : {1}, usable : {TRUE}]
    BY DEF PublishingInit
  <2>2. /\ bank = [question |-> bank.question, open |-> bank.open,
                   problem |-> bank.problem, changes |-> bank.changes]
        /\ bank.question = [q \in BankQuestion |-> bank.question[q]]
        /\ bank.problem = [p \in BankProblem |-> bank.problem[p]]
    BY DEF PublishingInit
  <2>3. 0 \in 0..MaxBankChanges /\ 1 \in 1..(0 + 1) /\ 1 \in Nat
    OBVIOUS
  <2>4. /\ \A q \in BankQuestion :
             /\ bank.question[q] \in [section : BankSection, difficulty : Difficulty,
                                      version : Nat, live : BOOLEAN]
             /\ bank.question[q].version = 1
        /\ \A p \in BankProblem : /\ bank.problem[p] \in [version : Nat, usable : BOOLEAN]
                                  /\ bank.problem[p].version = 1
    BY <2>1, <2>3
  <2>5. QED BY <2>1, <2>2, <2>3, <2>4 DEF BankTypeOK
<1>3. PublishingTypes
  <2>1. /\ quiz \in [Quizzes -> QuizRow]
        /\ \A t \in Teacher : view[t] \in [DOMAIN view[t] -> QuizRow]
    BY <1>1 DEF PublishingInit
  <2>2. build \in [Teacher -> Builds]
    BY BuildFacts DEF PublishingInit, Builds
  <2>3. QED BY <1>1, <1>2, <2>1, <2>2 DEF PublishingTypes, PublishingInit
<1>4. QED BY <1>1, <1>3
          DEF PublishingIInv, BuildsApart, BuildHolds, ViewsPast, NotBuilding

LEMMA NextPublishing ==
  ASSUME PublishingIInv, [PublishingNext]_quizVars
  PROVE  PublishingIInv' /\ (SeenBefore \/ UNCHANGED quizVars)
<1>1. CASE UNCHANGED quizVars
  <2>1. Quizzes' = Quizzes
    BY <1>1 DEF quizVars, Quizzes
  <2>2. PublishingIInv'
    BY <1>1, <2>1 DEF quizVars, PublishingIInv, PublishingTypes, BankTypeOK, BuildsApart,
                      ViewsPast, BuildHolds
  <2>3. QED BY <1>1, <2>2
<1>2. ASSUME NEW t \in Teacher, GetQuiz(t) \/ CreateQuiz(t) \/ FinishBuild(t)
      PROVE  PublishingIInv' /\ SeenBefore
  BY <1>2, GetQuizInductive, CreateQuizInductive, FinishBuildInductive
<1>3. ASSUME NEW t \in Teacher, AbortBuild(t)
      PROVE  PublishingIInv' /\ SeenBefore
  BY <1>3, EndedInductive DEF AbortBuild
<1>4. ASSUME NEW t \in Teacher,
             PatchQuiz(t) \/ PostQuizCopy(t) \/ RemoveQuiz(t) \/ PatchQuizAudience(t)
                \/ ArchiveSomeQuiz(t)
      PROVE  PublishingIInv' /\ SeenBefore
  BY <1>4, UpdateQuizInductive, CopyQuizInductive, DeleteQuizInductive,
     UpdateQuizAudienceInductive, ArchiveQuizInductive
     DEF PatchQuiz, PostQuizCopy, RemoveQuiz, PatchQuizAudience, ArchiveSomeQuiz
<1>5. ASSUME NEW t \in Teacher, PostQuizValidate(t) \/ PostQuizPublish(t)
      PROVE  PublishingIInv' /\ SeenBefore
  BY <1>5, StartBuildInductive DEF PostQuizValidate, PostQuizPublish
<1>6. ASSUME NEW t \in Teacher, PostQuizClose(t) PROVE PublishingIInv' /\ SeenBefore
  BY <1>6, StatusInductive DEF PostQuizClose, CloseQuiz, ActiveSession, LockedSession
<1>7. ASSUME NEW t \in Teacher, PostQuizReopen(t) PROVE PublishingIInv' /\ SeenBefore
  BY <1>7, StatusInductive DEF PostQuizReopen, ReopenQuiz, ActiveSession, LockedSession
<1>8. ASSUME NEW student \in Student, StartAttempt(student) PROVE PublishingIInv' /\ SeenBefore
  BY <1>8, StartAttemptInductive
<1>9. ASSUME \/ \E q \in BankQuestion : ChangeBankQuestion(q)
             \/ \E s \in BankSection : TurnBankSection(s)
             \/ \E p \in BankProblem : ChangeBankProblem(p)
      PROVE  PublishingIInv' /\ SeenBefore
  BY <1>9, ChangeBankQuestionInductive, TurnBankSectionInductive, ChangeBankProblemInductive
<1>10. QED
  BY <1>1, <1>2, <1>3, <1>4, <1>5, <1>6, <1>7, <1>8, <1>9 DEF PublishingNext

\* The invariant all theorems about publishing rest on.
LEMMA PublishingIInvHolds == PublishingSpec => []PublishingIInv
<1>1. PublishingInit => PublishingIInv
  BY InitPublishing
<1>2. PublishingIInv /\ [PublishingNext]_quizVars => PublishingIInv'
  BY NextPublishing
<1>3. QED BY <1>1, <1>2, PTL DEF PublishingSpec

\* The rows of quizzes keep their form, a version tells what a page shows, and who
\* configured a rule may choose it (services.py, for whatever teachers do at once).
THEOREM QuizzesHoldTogether == PublishingSpec => []PublishingInv
<1>1. PublishingIInv => PublishingInv
  <2> SUFFICES ASSUME PublishingIInv PROVE QuizTypeOK /\ VersionTellsQuiz /\ RulesByManagers
    BY DEF PublishingInv
  <2>1. ASSUME NEW s \in Quizzes
        PROVE  /\ quiz[s] \in QuizRow /\ InOrder(quiz[s], written)
               /\ quiz[s].version \in 1..(MaxWrites + 1)
    <3>1. quiz[s] \in QuizRow /\ InOrder(quiz[s], written) /\ written \in 0..MaxWrites
      BY DEF PublishingIInv, PublishingTypes
    <3>2. 1..(written + 1) \subseteq 1..(MaxWrites + 1)
      BY <3>1
    <3>3. QED BY <3>1, <3>2 DEF InOrder
  <2>2. QuizTypeOK
    <3>1. Quizzes \subseteq everIssued /\ everIssued \subseteq Quiz
      BY DEF PublishingIInv, PublishingTypes
    <3>2. \A t \in Teacher : build[t].at \in Quiz \union {None}
      BY BuildFacts DEF PublishingIInv, PublishingTypes
    <3>3. QED BY <2>1, <3>1, <3>2, QuizFields DEF QuizTypeOK, InOrder
  <2>3. VersionTellsQuiz
    <3> SUFFICES ASSUME NEW t \in Teacher, NEW s \in DOMAIN view[t] \cap Quizzes,
                        view[t][s].version = quiz[s].version
                 PROVE  view[t][s] = quiz[s]
      BY DEF VersionTellsQuiz
    <3>1. view[t][s] = quiz[s] \/ view[t][s].version < quiz[s].version
      BY DEF PublishingIInv, ViewsPast
    <3>2. quiz[s].version \in Nat
      BY <2>1, QuizFields
    <3>3. QED BY <3>1, <3>2
  <2>4. RulesByManagers
    BY <2>1 DEF RulesByManagers, InOrder
  <2>5. QED BY <2>2, <2>3, <2>4
<1>2. QED BY <1>1, PublishingIInvHolds, PTL

\* A paper can be drawn from every published quiz: the locks of publishing keep the
\* questions that were counted (snapshot.py's build_blueprint, for any bank).
THEOREM PapersCanBeDrawn == PublishingSpec => []PaperDrawable
<1>1. PublishingIInv => PaperDrawable
  BY DEF PublishingIInv, InOrder, Complete, PaperDrawable
<1>2. QED BY <1>1, PublishingIInvHolds, PTL

\* The papers of a quiz agree with its blueprint, and the blueprint with the
\* configuration, as long as the quiz has its row.
THEOREM PapersAlwaysAgree == PublishingSpec => []PapersAgree
<1>1. PublishingIInv => PapersAgree
  BY DEF PublishingIInv, InOrder, Fit, PapersAgree
<1>2. QED BY <1>1, PublishingIInvHolds, PTL

\* Nobody changes or deletes a quiz over another teacher's change.
THEOREM QuizzesAreSeen == PublishingSpec => OnlyViewedIsChanged
<1> DEFINE Seen == \A s \in Quizzes :
                     s \notin Quizzes' \/ quiz'[s] # quiz[s] =>
                       \E t \in Teacher : s \in DOMAIN view[t] /\ view[t][s] = quiz[s]
<1>1. PublishingIInv /\ [PublishingNext]_quizVars => [Seen]_quizVars
  BY NextPublishing DEF SeenBefore
<1>2. QED BY <1>1, PublishingIInvHolds, PTL DEF PublishingSpec, OnlyViewedIsChanged

=============================================================================
