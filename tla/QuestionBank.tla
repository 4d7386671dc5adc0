---------------------------- MODULE QuestionBank ----------------------------
(***************************************************************************)
(* The course catalogue of two levels (big units and their sections) and   *)
(* the choice questions filed in its sections: the services of             *)
(* ai_courses/question_bank/services.py behind their views, called by      *)
(* teachers at the same time.                                              *)
(*                                                                         *)
(* A service is one transaction under READ COMMITTED.  Those that only     *)
(* read rows they lock are one step.  Those that rely on a row they read   *)
(* without a lock (the parent of a unit, the section of a question) are    *)
(* two: the checks, which lock rows and prepare the rows to write, and     *)
(* Save, which waits for the shared lock of the foreign key.               *)
(***************************************************************************)
EXTENDS Staff, Naturals, FiniteSets, Functions

CONSTANTS
  Unit, Question,   \* the ids that can be issued
  Name, Content,    \* names of units; texts of questions
  MaxVersion,       \* bound on management_version
  MaxRows           \* bound on the rows ever inserted

ASSUME BankAssumption ==
  /\ None \notin Unit \union Question
  /\ Unit \cap Question = {}
  /\ MaxVersion \in Nat \ {0}
  /\ MaxRows \in Nat

VARIABLES
  unit,       \* the rows of AIUnit, by id
  question,   \* the rows of AIChoiceQuestion, by id
  issued,     \* the ids issued so far: a deleted row's id is not used again
  page,       \* by teacher: the questions her page shows, as it loaded them
  pending     \* by teacher: the transaction between its checks and its save

bankVars == <<unit, question, issued, page, pending>>

UnitRow == [grade : Grade, parent : Unit \union {None}, name : Name, archived : BOOLEAN]

QuestionRow == [unit : Unit, content : Content, owner : Teacher,
                version : 1..MaxVersion, archived : BOOLEAN]

\* A transaction writes the row `id`, or new rows when it has no id yet.
Idle == [table |-> "none", id |-> None, rows |-> {}, locks |-> {}]
Units == DOMAIN unit
Questions == DOMAIN question

-----------------------------------------------------------------------------
(* Scopes and locks. *)

EffectivelyArchived(u) ==
  \/ unit[u].archived
  \/ unit[u].parent # None /\ unit[unit[u].parent].archived

\* The units a lookup without archived ones finds.
ActiveUnit(t, u) == u \in Units /\ Manages(t, unit[u].grade) /\ ~EffectivelyArchived(u)

\* Faulty: the lookup forgets select_for_update.
NoLocks(u) == {}

\* SELECT ... FOR UPDATE with the joins of select_related locks the joined rows too.
UnitLocks(u) == {u} \union ({unit[u].parent} \ {None})
QuestionLocks(q) == {q} \union UnitLocks(question[q].unit)

Free(t, rows) == \A o \in Teacher \ {t} : pending[o].locks \cap rows = {}

GetUnit(t, u) == u \in Units /\ Manages(t, unit[u].grade) /\ Free(t, UnitLocks(u))

GetQuestion(t, q) ==
  /\ q \in Questions
  /\ Manages(t, unit[question[q].unit].grade)
  /\ Free(t, QuestionLocks(q))

Prepare(t, table, id, rows, locks) ==
  /\ pending[t] = Idle
  /\ pending' = [pending EXCEPT ![t] = [table |-> table, id |-> id, rows |-> rows, locks |-> locks]]
  /\ UNCHANGED <<unit, question, issued, page>>

\* The ids a save may write: the row it locked, or new ones.
Target(t, ids) ==
  IF pending[t].id # None THEN {pending[t].id}
  ELSE IF Cardinality(issued) + Cardinality(pending[t].rows) > MaxRows THEN {}
  ELSE ids \ issued

-----------------------------------------------------------------------------
(* Units. *)

UnitValues == [grade : Grade, parent : Unit \union {None}, name : Name]

\* The new parent is read without a lock.
ParentForWrite(t, p, g) ==
  p # None => /\ ActiveUnit(t, p)
              /\ unit[p].parent = None
              /\ unit[p].grade = g

Sibling(u, g, p, n) ==
  \E v \in Units \ {u} : unit[v].grade = g /\ unit[v].parent = p /\ unit[v].name = n

HasSections(u) == \E v \in Units : unit[v].parent = u
HasQuestions(u) == \E q \in Questions : question[q].unit = u

CreateUnit(t, v) ==
  /\ Manages(t, v.grade)
  /\ ParentForWrite(t, v.parent, v.grade)
  /\ ~Sibling(None, v.grade, v.parent, v.name)
  /\ Prepare(t, "unit", None,
             {[grade |-> v.grade, parent |-> v.parent, name |-> v.name, archived |-> FALSE]}, {})

UpdateUnit(t, u, v) ==
  /\ GetUnit(t, u)
  /\ ~unit[u].archived
  /\ v.grade = unit[u].grade
  /\ v.parent # u
  /\ ParentForWrite(t, v.parent, v.grade)
  /\ v.parent # None => ~HasSections(u)
  /\ v.parent = None /\ unit[u].parent # None => ~HasQuestions(u)
  /\ ~Sibling(u, v.grade, v.parent, v.name)
  /\ Prepare(t, "unit", u,
             {[unit[u] EXCEPT !.parent = v.parent, !.name = v.name]}, UnitLocks(u))

\* The unique constraint of (grade, parent, name) does not bind when parent is NULL.
UniqueSibling(u, row) ==
  row.parent # None => ~Sibling(u, row.grade, row.parent, row.name)

\* A parent deleted in the meantime or a name taken are an IntegrityError.
SaveUnit(t) ==
  /\ pending[t].table = "unit"
  /\ \E row \in pending[t].rows :
     \E u \in Target(t, Unit) :
       /\ Free(t, {row.parent} \ {None})
       /\ IF row.parent \in Units \union {None} /\ UniqueSibling(u, row)
            THEN /\ unit' = [v \in Units \union {u} |-> IF v = u THEN row ELSE unit[v]]
                 /\ issued' = issued \union {u}
            ELSE UNCHANGED <<unit, issued>>
  /\ pending' = [pending EXCEPT ![t] = Idle]
  /\ UNCHANGED <<question, page>>

WriteUnit(u, row) ==
  /\ unit' = [unit EXCEPT ![u] = row]
  /\ UNCHANGED <<question, issued, page, pending>>

ArchiveUnit(t, u) ==
  /\ GetUnit(t, u)
  /\ WriteUnit(u, [unit[u] EXCEPT !.archived = TRUE])

RestoreUnit(t, u) ==
  /\ GetUnit(t, u)
  /\ unit[u].parent # None => ~unit[unit[u].parent].archived
  /\ WriteUnit(u, [unit[u] EXCEPT !.archived = FALSE])

\* can_delete of the serializer, and the blockers of delete_empty_unit.  Problems and
\* quizzes, of other modules, keep a unit too: here more units are deleted than there.
EmptyUnit(u) == ~HasSections(u) /\ ~HasQuestions(u)

DeleteEmptyUnit(t, u) ==
  /\ GetUnit(t, u)
  /\ EmptyUnit(u)
  /\ unit' = Restrict(unit, Units \ {u})
  /\ UNCHANGED <<question, issued, page, pending>>

PostUnit(t) == \E v \in UnitValues : CreateUnit(t, v)
PatchUnit(t) == \E u \in Units : \E v \in UnitValues : UpdateUnit(t, u, v)
DeleteUnit(t) == pending[t] = Idle /\ \E u \in Units : ArchiveUnit(t, u)
PostUnitRestore(t) == pending[t] = Idle /\ \E u \in Units : RestoreUnit(t, u)
DeleteUnitForGood(t) == pending[t] = Idle /\ \E u \in Units : DeleteEmptyUnit(t, u)

-----------------------------------------------------------------------------
(* Choice questions. *)

\* The section is read without a lock, also when the question is locked.
ChoiceUnit(t, u) == ActiveUnit(t, u) /\ unit[u].parent # None

NewQuestions(t, u, contents) ==
  {[unit |-> u, content |-> c, owner |-> t, version |-> 1, archived |-> FALSE] : c \in contents}

CreateChoiceQuestion(t, u, c) ==
  /\ ChoiceUnit(t, u)
  /\ Prepare(t, "question", None, NewQuestions(t, u, {c}), {})

CopyChoiceQuestion(t, q, u) ==
  /\ q \in Questions
  /\ ~question[q].archived
  /\ ActiveUnit(t, question[q].unit)
  /\ CreateChoiceQuestion(t, u, question[q].content)

\* The whole batch is validated, then saved in the one transaction.
ImportChoiceQuestions(t, u, contents) ==
  /\ ChoiceUnit(t, u)
  /\ contents # {}
  /\ Prepare(t, "question", None, NewQuestions(t, u, contents), {})

\* By id, or by a name that one section of the grade has.
ResolveImportUnit(t, g, n) ==
  LET named == {u \in Units : /\ unit[u].grade = g
                              /\ unit[u].name = n
                              /\ ChoiceUnit(t, u)}
  IN  {u \in named : Manages(t, g) /\ Cardinality(named) = 1}

\* Faulty: the version is not compared.
CheckLoaded(t, q) == q \in DOMAIN page[t]

\* The version of the page the teacher works on is the current one.
CheckVersion(t, q) == q \in DOMAIN page[t] /\ page[t][q].version = question[q].version
CheckOwner(t, q) == t \in Admin \/ question[q].owner = t

UpdateChoiceQuestion(t, q, u, c) ==
  /\ GetQuestion(t, q)
  /\ CheckOwner(t, q)
  /\ ~question[q].archived
  /\ CheckVersion(t, q)
  /\ question[q].version < MaxVersion
  /\ ChoiceUnit(t, u)
  /\ Prepare(t, "question", q,
             {[question[q] EXCEPT !.unit = u, !.content = c, !.version = @ + 1]},
             QuestionLocks(q))

\* A section deleted in the meantime fails the foreign key of all rows.
SaveQuestions(t) ==
  /\ pending[t].table = "question"
  /\ LET rows == pending[t].rows
         sections == {row.unit : row \in rows}
     IN  /\ Free(t, sections)
         /\ IF sections \subseteq Units
              THEN \E ids \in Injection(rows, Target(t, Question)) :
                     LET written == Range(ids)
                     IN  /\ question' = [q \in Questions \union written |->
                              IF q \in written THEN CHOOSE row \in rows : ids[row] = q
                                               ELSE question[q]]
                         /\ issued' = issued \union written
              ELSE UNCHANGED <<question, issued>>
  /\ pending' = [pending EXCEPT ![t] = Idle]
  /\ UNCHANGED <<unit, page>>

WriteQuestion(q, row) ==
  /\ question' = [question EXCEPT ![q] = row]
  /\ UNCHANGED <<unit, issued, page, pending>>

ArchiveChoiceQuestion(t, q) ==
  /\ GetQuestion(t, q)
  /\ CheckOwner(t, q)
  /\ CheckVersion(t, q)
  /\ ~question[q].archived
  /\ question[q].version < MaxVersion
  /\ WriteQuestion(q, [question[q] EXCEPT !.archived = TRUE, !.version = @ + 1])

RestoreChoiceQuestion(t, q) ==
  /\ GetQuestion(t, q)
  /\ CheckOwner(t, q)
  /\ CheckVersion(t, q)
  /\ ~EffectivelyArchived(question[q].unit)
  /\ question[q].archived
  /\ question[q].version < MaxVersion
  /\ WriteQuestion(q, [question[q] EXCEPT !.archived = FALSE, !.version = @ + 1])

\* Also the bulk deletion: every one of the questions passes, or none is deleted.
DeleteChoiceQuestions(t, qs) ==
  /\ \A q \in qs : GetQuestion(t, q) /\ CheckOwner(t, q) /\ CheckVersion(t, q)
  /\ question' = Restrict(question, Questions \ qs)
  /\ UNCHANGED <<unit, issued, page, pending>>

-----------------------------------------------------------------------------
(* The views of the questions.  The versions a teacher sends are those of  *)
(* the page she has open.                                                  *)

Show(t, qs) ==
  /\ pending[t] = Idle
  /\ page' = [page EXCEPT ![t] = Restrict(question, qs)]
  /\ UNCHANGED <<unit, question, issued, pending>>

ScopedQuestions(t) == {q \in Questions : Manages(t, unit[question[q].unit].grade)}

\* The list shows the active questions, or the archived ones too.
GetQuestionList(t) ==
  LET archived(q) == question[q].archived \/ EffectivelyArchived(question[q].unit)
  IN  \/ Show(t, ScopedQuestions(t))
      \/ Show(t, {q \in ScopedQuestions(t) : ~archived(q)})
      \/ Show(t, {q \in ScopedQuestions(t) : archived(q)})

GetQuestionDetail(t) == \E q \in ScopedQuestions(t) : Show(t, {q})

PostQuestion(t) == \E u \in Unit, c \in Content : CreateChoiceQuestion(t, u, c)

PostQuestionCopy(t) ==
  \E q \in Questions : \E u \in Unit : CopyChoiceQuestion(t, q, u)

PostQuestionImport(t) ==
  \E contents \in SUBSET Content :
    \/ \E u \in Unit : ImportChoiceQuestions(t, u, contents)
    \/ \E g \in Grade, n \in Name :
       \E u \in ResolveImportUnit(t, g, n) : ImportChoiceQuestions(t, u, contents)

PatchQuestion(t) ==
  \E q \in Questions : \E u \in Unit, c \in Content : UpdateChoiceQuestion(t, q, u, c)

DeleteQuestion(t) ==
  pending[t] = Idle /\ \E q \in Questions : DeleteChoiceQuestions(t, {q})

PostBulkDelete(t) ==
  pending[t] = Idle /\ \E qs \in SUBSET Questions \ {{}} : DeleteChoiceQuestions(t, qs)

PostQuestionRestore(t) == pending[t] = Idle /\ \E q \in Questions : RestoreChoiceQuestion(t, q)

\* No view calls this service any more; there are questions it archived.
ArchiveQuestion(t) == pending[t] = Idle /\ \E q \in Questions : ArchiveChoiceQuestion(t, q)

\* A lock wait that times out, a deadlock the database breaks, a lost process.
Abort(t) ==
  /\ pending[t] # Idle
  /\ pending' = [pending EXCEPT ![t] = Idle]
  /\ UNCHANGED <<unit, question, issued, page>>

-----------------------------------------------------------------------------
BankInit ==
  /\ unit = << >>
  /\ question = << >>
  /\ issued = {}
  /\ page = [t \in Teacher |-> << >>]
  /\ pending = [t \in Teacher |-> Idle]

BankNext ==
  \E t \in Teacher :
    \/ PostUnit(t) \/ PatchUnit(t) \/ DeleteUnit(t) \/ PostUnitRestore(t) \/ DeleteUnitForGood(t)
    \/ PostQuestion(t) \/ PostQuestionCopy(t) \/ PostQuestionImport(t) \/ PatchQuestion(t)
    \/ DeleteQuestion(t) \/ PostBulkDelete(t) \/ PostQuestionRestore(t) \/ ArchiveQuestion(t)
    \/ GetQuestionList(t) \/ GetQuestionDetail(t)
    \/ SaveUnit(t) \/ SaveQuestions(t) \/ Abort(t)

BankSpec == BankInit /\ [][BankNext]_bankVars

-----------------------------------------------------------------------------
(* Properties. *)

BankTypeOK ==
  /\ Units \subseteq Unit /\ Questions \subseteq Question
  /\ unit \in [Units -> UnitRow]
  /\ question \in [Questions -> QuestionRow]
  /\ Units \union Questions \subseteq issued
  /\ issued \subseteq Unit \union Question
  /\ \A t \in Teacher :
       /\ page[t] \in [DOMAIN page[t] -> QuestionRow]
       /\ pending[t].table \in {"none", "unit", "question"}
       /\ pending[t].rows \subseteq CASE pending[t].table = "none" -> {}
                                     [] pending[t].table = "unit" -> UnitRow
                                     [] OTHER -> QuestionRow

\* Units form a forest in which a section has the grade of its unit, although two
\* teachers who move units under each other each check against a unit they do not lock.
UnitsFormForest ==
  /\ \A u \in Units : unit[u].parent # None =>
       unit[u].parent \in Units /\ unit[unit[u].parent].grade = unit[u].grade
  /\ \A S \in SUBSET Units : S # {} => \E u \in S : unit[u].parent \notin S

\* A unit deleted for good was empty for everyone: no question, being filed while
\* the unit was checked, is left without it.
QuestionsHaveUnits == \A q \in Questions : question[q].unit \in Units

\* A page and a row that agree on the version of a question agree on the question.
VersionTells ==
  \A t \in Teacher : \A q \in DOMAIN page[t] \cap Questions :
    page[t][q].version = question[q].version => page[t][q] = question[q]

\* What a teacher overwrites or deletes is exactly what her page showed her.
NothingUnseenIsReplaced ==
  [][\A q \in Questions :
       q \notin Questions' \/ question'[q] # question[q] =>
         \E t \in Teacher : /\ q \in DOMAIN page[t] /\ page[t][q] = question[q]
                            /\ CheckOwner(t, q)]_bankVars

\* A unit has at most two levels, as its model says.  No run lists this
\* property: the README describes the counterexample TLC finds.
TwoLevels ==
  \A u \in Units : unit[u].parent # None => unit[unit[u].parent].parent = None

\* The rows of the bank hold together: the forest of units, questions in their
\* sections, and versions that tell what a question says.
BankInv == BankTypeOK /\ UnitsFormForest /\ QuestionsHaveUnits /\ VersionTells
=============================================================================
