--------------------------- MODULE QuizPublishing ---------------------------
(***************************************************************************)
(* The AI quizzes as teachers manage them: drafts, their publication,      *)
(* their audience, and the papers drawn from a published quiz              *)
(* (ai_courses/quizzes: services.py, views.py, snapshot.py).               *)
(*                                                                         *)
(* A service locks the quiz's row and is one step.  To publish or to check *)
(* a draft takes two, since the blueprint is built from rows of the        *)
(* question bank: the sections are locked and their questions counted;     *)
(* later the problems are locked and the questions read.  Meanwhile the    *)
(* question bank changes, as far as the locks let it.                      *)
(***************************************************************************)
EXTENDS Staff, Naturals, FiniteSets, Functions

CONSTANTS
  Quiz,            \* the ids that can be issued
  Difficulty,      \* the difficulties of questions
  BankSection, BankQuestion, BankProblem,   \* what quizzes of one grade are made of
  Contents,        \* what teachers configure, valid or not
  QuizClass, Student, Place,  \* classes, students and their [grade, class]
  Scopes,          \* what requests choose as audience
  MaxRules,        \* bound on the rules of one quiz
  MaxWrites,       \* bound on the writes to quizzes
  MaxBankChanges   \* bound on the changes of the bank

\* Points are counted in parts of the hundred, of which there are two.
Content == [grade : Grade, units : SUBSET BankSection, ratio : [Difficulty -> Nat],
            choicePoints : 0..2, items : SUBSET BankProblem, itemPoints : 0..2]

Scope == [scope : {"all_school"}, grade : {None}, class : {None}, active : BOOLEAN]
  \union [scope : {"grade_all"}, grade : Grade, class : {None}, active : BOOLEAN]
  \union [scope : {"class"}, grade : Grade, class : QuizClass, active : BOOLEAN]

ASSUME PublishingAssumption ==
  /\ Contents \subseteq Content
  /\ None \notin Contents \union Quiz
  /\ IsFiniteSet(BankQuestion)
  /\ \A s \in Student : Place[s].grade \in Grade /\ Place[s].class \in QuizClass
  /\ Scopes \subseteq Scope
  /\ {MaxRules, MaxWrites, MaxBankChanges} \subseteq Nat

VARIABLES
  quiz,        \* the rows of AIQuizSession with their items and rules, by id
  everIssued,  \* the ids issued so far
  papers,      \* by quiz: the papers of its attempts
  view,        \* by teacher: the quiz her page shows, as it loaded it
  build,       \* by teacher: the transaction that builds a blueprint
  bank,        \* the questions, sections and problems quizzes refer to
  written      \* the number of writes to quizzes so far

quizVars == <<quiz, everIssued, papers, view, build, bank, written>>

NotBuilding == [at |-> None, publish |-> FALSE, locked |-> {}]
NoBlueprint == [content |-> None, pool |-> {}, items |-> {}]

\* The row of a rule: what it says and who configured it.
QuizRule == [says : Scopes, by : Teacher]

Quizzes == DOMAIN quiz

-----------------------------------------------------------------------------
(* The question bank, as far as quizzes read it. *)

LockedSections == UNION {build[t].locked : t \in Teacher}

\* The active questions of some sections, as the blueprint keeps them.
Pool(units) ==
  {[question |-> q, version |-> bank.question[q].version, difficulty |-> bank.question[q].difficulty]
     : q \in {q \in BankQuestion : /\ bank.question[q].live
                                   /\ bank.question[q].section \in units
                                   /\ bank.question[q].section \in bank.open}}

OfDifficulty(pool, d) == {i \in pool : i.difficulty = d}

WriteBank(b) ==
  /\ bank.changes < MaxBankChanges
  /\ bank' = [b EXCEPT !.changes = @ + 1]
  /\ UNCHANGED <<quiz, everIssued, papers, view, build, written>>

\* A question is edited, moved, archived or restored (filing one is restoring it).  The
\* services lock its section, and it gets to another only while nobody has that locked.
ChangeBankQuestion(q) ==
  /\ bank.question[q].section \notin LockedSections
  /\ \E s \in bank.open \ LockedSections, d \in Difficulty, live \in BOOLEAN :
       WriteBank([bank EXCEPT !.question[q] =
                    [section |-> s, difficulty |-> d, live |-> live, version |-> @.version + 1]])

TurnBankSection(s) ==
  /\ s \notin LockedSections
  /\ WriteBank([bank EXCEPT !.open = IF s \in @ THEN @ \ {s} ELSE @ \union {s}])

\* A problem is edited, archived, or loses its test cases on the disk.
ChangeBankProblem(p) ==
  \E usable \in BOOLEAN :
    WriteBank([bank EXCEPT !.problem[p] = [version |-> @.version + 1, usable |-> usable]])

-----------------------------------------------------------------------------
(* Rows, versions and rules. *)

QuizFree(s) == \A t \in Teacher : build[t].at # s
LockedSession(t, s) == s \in Quizzes /\ QuizFree(s) /\ Manages(t, quiz[s].content.grade)
ActiveSession(t, s) == LockedSession(t, s) /\ ~quiz[s].archived

CountWrite == written < MaxWrites /\ written' = written + 1

\* Faulty: the version is not compared.
CheckViewed(t, s) == s \in DOMAIN view[t]

CheckQuizVersion(t, s) == s \in DOMAIN view[t] /\ view[t][s].version = quiz[s].version

SaveSession(s, row) ==
  /\ CountWrite
  /\ quiz' = [quiz EXCEPT ![s] = [row EXCEPT !.version = @ + 1]]
  /\ UNCHANGED <<everIssued, papers, view, build, bank>>

InsertQuiz(row) ==
  /\ CountWrite
  /\ \E s \in Quiz \ everIssued :
       /\ quiz' = [r \in Quizzes \union {s} |-> IF r = s THEN row ELSE quiz[r]]
       /\ everIssued' = everIssued \union {s}
  /\ UNCHANGED <<papers, view, build, bank>>

KnownClasses(g) == {Place[s].class : s \in {s \in Student : Place[s].grade = g}}

\* What a teacher may choose: her grade and its known classes; administrators also the school.
MayPublishTo(t, scope) ==
  IF scope.scope = "all_school" THEN t \in Admin
  ELSE /\ Manages(t, scope.grade)
       /\ scope.scope = "class" => scope.class \in KnownClasses(scope.grade)

RuleKey(r) == <<r.says.scope, r.says.grade, r.says.class>>

\* The rules a request of teacher t may replace those of a quiz by.
NormalizedRules ==
  [t \in Teacher |->
     {R \in SUBSET {[says |-> scope, by |-> t] : scope \in {c \in Scopes : MayPublishTo(t, c)}} :
        /\ Cardinality(R) <= MaxRules
        /\ \A r1, r2 \in R : RuleKey(r1) = RuleKey(r2) => r1 = r2}]

ActiveRules(row) == {r \in row.rules : r.says.active}

ResolveUnits(units) == units \subseteq bank.open
ResolveProgrammingItems(items) == \A p \in items : bank.problem[p].usable

DraftApplies(t, c) ==
  /\ Manages(t, c.grade)
  /\ ResolveUnits(c.units)
  /\ ResolveProgrammingItems(c.items)

-----------------------------------------------------------------------------
(* Drafts. *)

Draft(c, R) == [content |-> c, rules |-> R, status |-> "draft", version |-> 1,
                blueprint |-> NoBlueprint, archived |-> FALSE]

CreateQuiz(t) ==
  \E c \in Contents, R \in NormalizedRules[t] :
    DraftApplies(t, c) /\ InsertQuiz(Draft(c, R))

\* Fields left out keep their values, and are checked again.
UpdateQuiz(t, s) ==
  /\ ActiveSession(t, s)
  /\ CheckQuizVersion(t, s)
  /\ quiz[s].blueprint = NoBlueprint
  /\ \E c \in Contents \union {quiz[s].content}, R \in NormalizedRules[t] \union {quiz[s].rules} :
       /\ DraftApplies(t, c)
       /\ SaveSession(s, [quiz[s] EXCEPT !.content = c, !.rules = R])

\* Faulty: the rules are copied without a look at who copies them.
CopyUnchecked(t, s) ==
  /\ LockedSession(t, s)
  /\ InsertQuiz(Draft(quiz[s].content, {[r EXCEPT !.by = t] : r \in quiz[s].rules}))

\* The rules become those of the teacher who copies, and must be hers to choose.
CopyQuiz(t, s) ==
  LET mine == {[r EXCEPT !.by = t] : r \in quiz[s].rules}
  IN  /\ LockedSession(t, s)
      /\ \A r \in mine : MayPublishTo(t, r.says)
      /\ InsertQuiz(Draft(quiz[s].content, mine))

-----------------------------------------------------------------------------
(* Publishing. *)

\* The number of choice questions is the sum of the ratio; all that matters is
\* whether it is 0.
HasChoices(c) == \E d \in Difficulty : c.ratio[d] > 0

ConfigurationValid(c) ==
  /\ IF HasChoices(c) THEN c.units # {} /\ c.choicePoints > 0
                      ELSE c.units = {} /\ c.choicePoints = 0
  /\ HasChoices(c) \/ c.items # {}
  /\ c.choicePoints + Cardinality(c.items) * c.itemPoints = 2

EnoughQuestions(c) ==
  \A d \in Difficulty : Cardinality(OfDifficulty(Pool(c.units), d)) >= c.ratio[d]

\* Faulty: the sections are read without a lock.
SectionsRead(c) == {}

\* SELECT ... FOR UPDATE of the sections (with the big units, which archiving locks).
SectionsLocked(c) == c.units

\* The session and the sections are locked, the questions counted.
StartBuild(t, s, publish) ==
  LET c == quiz[s].content
  IN  /\ build[t] = NotBuilding
      /\ ActiveSession(t, s)
      /\ CheckQuizVersion(t, s)
      /\ quiz[s].blueprint = NoBlueprint
      /\ c.units \cap LockedSections = {}
      /\ ResolveUnits(c.units)
      /\ EnoughQuestions(c)
      /\ build' = [build EXCEPT ![t] =
                     [at |-> s, publish |-> publish, locked |-> SectionsLocked(c)]]
      /\ UNCHANGED <<quiz, everIssued, papers, view, bank, written>>

BuildBlueprint(c) ==
  [content |-> c, pool |-> Pool(c.units),
   items |-> {[problem |-> p, version |-> bank.problem[p].version] : p \in c.items}]

BuildSucceeds(s) ==
  /\ ConfigurationValid(quiz[s].content)
  /\ ResolveProgrammingItems(quiz[s].content.items)
  /\ ActiveRules(quiz[s]) # {}

\* The problems are locked, the questions read; publishing saves.  A check that fails
\* rolls everything back.
FinishBuild(t) ==
  LET s == build[t].at
  IN  /\ s # None
      /\ IF build[t].publish /\ BuildSucceeds(s)
           THEN /\ CountWrite
                /\ quiz' = [quiz EXCEPT ![s].blueprint = BuildBlueprint(quiz[s].content),
                                        ![s].status = "open",
                                        ![s].version = @ + 1]
           ELSE UNCHANGED <<quiz, written>>
      /\ build' = [build EXCEPT ![t] = NotBuilding]
      /\ UNCHANGED <<everIssued, papers, view, bank>>

\* A lock wait that times out, a deadlock the database breaks, a lost process.
AbortBuild(t) ==
  /\ build[t] # NotBuilding
  /\ build' = [build EXCEPT ![t] = NotBuilding]
  /\ UNCHANGED <<quiz, everIssued, papers, view, bank, written>>

-----------------------------------------------------------------------------
(* The life of a published quiz. *)

UpdateQuizAudience(t, s) ==
  /\ ActiveSession(t, s)
  /\ CheckQuizVersion(t, s)
  /\ \E R \in NormalizedRules[t] : SaveSession(s, [quiz[s] EXCEPT !.rules = R])

CloseQuiz(t, s) ==
  /\ ActiveSession(t, s)
  /\ CheckQuizVersion(t, s)
  /\ quiz[s].status = "open"
  /\ SaveSession(s, [quiz[s] EXCEPT !.status = "closed"])

\* Faulty: the blueprint is built again.
ReopenRebuilt(t, s) ==
  /\ ActiveSession(t, s)
  /\ CheckQuizVersion(t, s)
  /\ quiz[s].status = "closed"
  /\ ActiveRules(quiz[s]) # {}
  /\ EnoughQuestions(quiz[s].content)
  /\ SaveSession(s, [quiz[s] EXCEPT !.status = "open",
                                    !.blueprint = BuildBlueprint(quiz[s].content)])

ReopenQuiz(t, s) ==
  /\ ActiveSession(t, s)
  /\ CheckQuizVersion(t, s)
  /\ quiz[s].status = "closed"
  /\ ActiveRules(quiz[s]) # {}
  /\ SaveSession(s, [quiz[s] EXCEPT !.status = "open"])

ArchiveQuiz(t, s) ==
  /\ ActiveSession(t, s)
  /\ CheckQuizVersion(t, s)
  /\ SaveSession(s, [quiz[s] EXCEPT !.archived = TRUE])

\* With everything its students did, whatever its status.
DeleteQuiz(t, s) ==
  /\ LockedSession(t, s)
  /\ CheckQuizVersion(t, s)
  /\ CountWrite
  /\ quiz' = Restrict(quiz, Quizzes \ {s})
  /\ papers' = [papers EXCEPT ![s] = {}]
  /\ UNCHANGED <<everIssued, view, build, bank>>

-----------------------------------------------------------------------------
(* Papers. *)

InAudience(student, s) ==
  \E r \in ActiveRules(quiz[s]) :
    \/ r.says.scope = "all_school"
    \/ r.says.scope = "grade_all" /\ r.says.grade = Place[student].grade
    \/ r.says.scope = "class" /\ r.says.grade = Place[student].grade
                              /\ r.says.class = Place[student].class

\* The choice questions that can be drawn from a blueprint.
Draws(b) ==
  {drawn \in SUBSET b.pool :
     \A d \in Difficulty : Cardinality(OfDifficulty(drawn, d)) = b.content.ratio[d]}

\* A new attempt; which attempts are current and what becomes of them is QuizSettlement's.
StartAttempt(student) ==
  \E s \in Quizzes :
    /\ QuizFree(s)
    /\ quiz[s].status = "open" /\ ~quiz[s].archived
    /\ InAudience(student, s)
    /\ \E drawn \in Draws(quiz[s].blueprint) :
         papers' = [papers EXCEPT ![s] =
                      @ \union {[choice |-> drawn, items |-> quiz[s].blueprint.items]}]
    /\ UNCHANGED <<quiz, everIssued, view, build, bank, written>>

-----------------------------------------------------------------------------
(* The views.  A teacher sends the version her page shows. *)

ScopedQuizzes(t) == {s \in Quizzes : Manages(t, quiz[s].content.grade)}

\* The details of a quiz, or its line in the list, which may be empty.
GetQuiz(t) ==
  /\ build[t] = NotBuilding
  /\ \E s \in ScopedQuizzes(t) \union {None} :
       view' = [view EXCEPT ![t] = Restrict(quiz, {s} \ {None})]
  /\ UNCHANGED <<quiz, everIssued, papers, build, bank, written>>

PatchQuiz(t) == \E s \in Quizzes : UpdateQuiz(t, s)
RemoveQuiz(t) == \E s \in Quizzes : DeleteQuiz(t, s)
PostQuizValidate(t) == \E s \in Quizzes : StartBuild(t, s, FALSE)
PostQuizPublish(t) == \E s \in Quizzes : StartBuild(t, s, TRUE)
PostQuizClose(t) == \E s \in Quizzes : CloseQuiz(t, s)
PostQuizReopen(t) == \E s \in Quizzes : ReopenQuiz(t, s)
PostQuizCopy(t) == \E s \in Quizzes : CopyQuiz(t, s)
PatchQuizAudience(t) == \E s \in Quizzes : UpdateQuizAudience(t, s)

\* No view calls archive_quiz any more; there are quizzes it archived.
ArchiveSomeQuiz(t) == \E s \in Quizzes : ArchiveQuiz(t, s)

-----------------------------------------------------------------------------
PublishingInit ==
  /\ quiz = << >>
  /\ everIssued = {}
  /\ papers = [s \in Quiz |-> {}]
  /\ view = [t \in Teacher |-> << >>]
  /\ build = [t \in Teacher |-> NotBuilding]
  /\ written = 0
  /\ bank \in [question : [BankQuestion -> [section : BankSection, difficulty : Difficulty,
                                           version : {1}, live : {TRUE}]],
               open : {BankSection},
               problem : [BankProblem -> [version : {1}, usable : {TRUE}]],
               changes : {0}]

PublishingNext ==
  \/ \E t \in Teacher :
       \/ GetQuiz(t) \/ CreateQuiz(t) \/ PatchQuiz(t) \/ PostQuizCopy(t) \/ RemoveQuiz(t)
       \/ PostQuizValidate(t) \/ PostQuizPublish(t) \/ FinishBuild(t) \/ AbortBuild(t)
       \/ PatchQuizAudience(t) \/ PostQuizClose(t) \/ PostQuizReopen(t) \/ ArchiveSomeQuiz(t)
  \/ \E student \in Student : StartAttempt(student)
  \/ \E q \in BankQuestion : ChangeBankQuestion(q)
  \/ \E s \in BankSection : TurnBankSection(s)
  \/ \E p \in BankProblem : ChangeBankProblem(p)

PublishingSpec == PublishingInit /\ [][PublishingNext]_quizVars

-----------------------------------------------------------------------------
(* Properties. *)

Blueprint == [content : Contents \union {None},
              pool : SUBSET [question : BankQuestion, version : 1..(MaxBankChanges + 1),
                             difficulty : Difficulty],
              items : SUBSET [problem : BankProblem, version : 1..(MaxBankChanges + 1)]]

QuizTypeOK ==
  /\ Quizzes \subseteq everIssued /\ everIssued \subseteq Quiz
  /\ \A s \in Quizzes :
       /\ quiz[s].content \in Contents
       /\ quiz[s].rules \subseteq QuizRule
       /\ quiz[s].status \in {"draft", "open", "closed"}
       /\ quiz[s].version \in 1..(MaxWrites + 1)
       /\ quiz[s].blueprint \in Blueprint
       /\ quiz[s].status = "draft" <=> quiz[s].blueprint = NoBlueprint
       /\ quiz[s].archived \in BOOLEAN
  /\ \A t \in Teacher : build[t].at \in Quiz \union {None}

\* Who loaded a quiz and finds its version unchanged has seen its configuration, its
\* audience and its status as they are.
VersionTellsQuiz ==
  \A t \in Teacher : \A s \in DOMAIN view[t] \cap Quizzes :
    view[t][s].version = quiz[s].version => view[t][s] = quiz[s]

\* A quiz is changed, published, closed or deleted as a teacher saw it, never over
\* another teacher's change.
OnlyViewedIsChanged ==
  [][\A s \in Quizzes :
       s \notin Quizzes' \/ quiz'[s] # quiz[s] =>
         \E t \in Teacher : s \in DOMAIN view[t] /\ view[t][s] = quiz[s]]_quizVars

\* Any student an open quiz lets in gets a complete paper: the questions counted when
\* it was published are those its blueprint holds, whatever teachers did to them since.
PaperDrawable ==
  \A s \in Quizzes : quiz[s].status # "draft" =>
    /\ Draws(quiz[s].blueprint) # {}
    /\ Draws(quiz[s].blueprint) # {{}} \/ quiz[s].blueprint.items # {}

\* The papers of a quiz are drawn by one rule from one pool, which its row still has:
\* no two students meet different versions of a question or of a problem.
PapersAgree ==
  \A s \in Quizzes : \A paper \in papers[s] :
    /\ paper.choice \in Draws(quiz[s].blueprint)
    /\ paper.items = quiz[s].blueprint.items
    /\ quiz[s].blueprint.content = quiz[s].content

\* Each rule was configured by someone who may: a teacher who copies what an
\* administrator published to the school does not publish to the school.
RulesByManagers ==
  \A s \in Quizzes : \A r \in quiz[s].rules : MayPublishTo(r.by, r.says)

\* The rows of a quiz hold together, its versions and the rights behind its rules
\* included.
PublishingInv == QuizTypeOK /\ VersionTellsQuiz /\ RulesByManagers
=============================================================================
