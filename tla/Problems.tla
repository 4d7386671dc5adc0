------------------------------ MODULE Problems ------------------------------
(***************************************************************************)
(* The programming problems: their content, edited by teachers and synced  *)
(* from the disk, and the rules that publish them to grades and classes    *)
(* (ai_courses/problems/management.py, scopes.py, models.py and views.py). *)
(*                                                                         *)
(* The services lock the problem's row and are one step.  The sync reads a *)
(* row, compares it and saves it in a transaction that locks nothing:      *)
(* under READ COMMITTED (database.py:106) anything happens between the     *)
(* read and the save.  An edit's look at its section without a lock is the *)
(* race that QuestionBank models.                                          *)
(***************************************************************************)
EXTENDS Staff, Naturals, FiniteSets, Functions

CONSTANTS
  Problem,        \* problem ids
  Section,        \* the sections of the catalogue
  SectionGrade,   \* the grade a section is of
  Class,          \* the classes every grade has
  Text,           \* contents of a problem
  Disk,           \* the directories a sync may find for a problem
  Chosen,         \* the sets of classes a manager may choose
  MaxProblemWrites, \* bound on the writes to a problem
  MaxSyncs        \* bound on the syncs between read and save

ASSUME ProblemsAssumption ==
  /\ SectionGrade \in [Section -> Grade]
  /\ Disk \subseteq [text : Text, grade : Grade \union {None}]
  /\ Chosen \subseteq (SUBSET Class) \ {{}}
  /\ MaxProblemWrites \in Nat /\ MaxSyncs \in Nat
  /\ None \notin Section \union Grade \union Class

VARIABLES
  problem,        \* the rows of Problem, by id
  rules,          \* by problem: its rows of ProblemAudience
  openSections,   \* the sections that are not archived, nor is their unit
  shown,          \* by teacher: the problems her page shows, with version and writes then
  sync,           \* by teacher: the problem her sync of the disk is about to save
  writes,         \* history: by problem, how often its row and its rules were written
  overtaken       \* history: the problems a sync saved over a change it had not read

problemVars == <<problem, rules, openSections, shown, sync, writes, overtaken>>

\* A tag or a section may be missing.
ProblemRow == [owner : Teacher, section : Section \union {None}, tag : Grade \union {None},
               text : Text, suspended : BOOLEAN, archived : BOOLEAN,
               version : 1..(MaxProblemWrites + 1)]

Rule == [scope : {"all_school"}, grade : {None}, class : {None}, active : BOOLEAN]
  \union [scope : {"grade_all"}, grade : Grade, class : {None}, active : BOOLEAN]
  \union [scope : {"class"}, grade : Grade, class : Class, active : BOOLEAN]

NoSync == [at |-> None, row |-> None, entry |-> None]

-----------------------------------------------------------------------------
(* What the rules say. *)

Active(rs) == {r \in rs : r.active}
OfGrade(rs, g) == {r \in rs : r.grade = g}
OfScope(rs, s) == {r \in rs : r.scope = s}

AllSchool(p) == Active(OfScope(rules[p], "all_school")) # {}

\* The students of class c of grade g find p in their lists.
Sees(p, g, c) ==
  /\ p \in DOMAIN problem
  /\ ~problem[p].archived /\ ~problem[p].suspended
  /\ \E r \in Active(rules[p]) : \/ r.scope = "all_school"
                                 \/ r.scope = "grade_all" /\ r.grade = g
                                 \/ r.scope = "class" /\ r.grade = g /\ r.class = c

\* What managers are shown of the publication in a grade.
PublicationData(p, g) ==
  LET rs == OfGrade(rules[p], g)
      all == OfScope(rs, "grade_all")
      visible == Active(rs) # {}
      allClasses == all # {} /\ (Active(all) # {} \/ ~visible)
  IN  [visible |-> visible, allClasses |-> allClasses,
       classes |-> IF allClasses THEN {} ELSE {r.class : r \in OfScope(rs, "class")}]

-----------------------------------------------------------------------------
(* Changes of the rules. *)

UpsertRules(rs, new) ==
  {r \in rs : \A n \in new : <<r.scope, r.grade, r.class>> # <<n.scope, n.grade, n.class>>} \union new

\* A choice for a grade: all classes, some of them, or none.
Hidden == [visible |-> FALSE, all |-> FALSE, classes |-> {}]
AllClasses == [visible |-> TRUE, all |-> TRUE, classes |-> {}]
SomeClasses == [visible : {TRUE}, all : {FALSE}, classes : Chosen]
GradeScope == {Hidden, AllClasses} \union SomeClasses

\* Faulty: only active rules of classes left out are deleted.
ApplyOverInactive(rs, g, v) ==
  IF ~v.visible THEN {IF r.grade = g THEN [r EXCEPT !.active = FALSE] ELSE r : r \in rs}
  ELSE IF v.all
    THEN UpsertRules(rs \ OfScope(OfGrade(rs, g), "class"),
                     {[scope |-> "grade_all", grade |-> g, class |-> None, active |-> TRUE]})
  ELSE UpsertRules(rs \ (OfScope(OfGrade(rs, g), "grade_all") \union Active(OfGrade(rs, g))),
                   {[scope |-> "class", grade |-> g, class |-> c, active |-> TRUE] : c \in v.classes})

ApplyGradeScope(rs, g, v) ==
  IF ~v.visible THEN {IF r.grade = g THEN [r EXCEPT !.active = FALSE] ELSE r : r \in rs}
  ELSE IF v.all
    THEN UpsertRules(rs \ OfScope(OfGrade(rs, g), "class"),
                     {[scope |-> "grade_all", grade |-> g, class |-> None, active |-> TRUE]})
  ELSE UpsertRules(rs \ OfGrade(rs, g),
                   {[scope |-> "class", grade |-> g, class |-> c, active |-> TRUE] : c \in v.classes})

\* One grade after the other; a grade left out of the request is hidden.
ApplyGradeScopes(rs, scopes) ==
  LET applied(g) == OfGrade(ApplyGradeScope(rs, g, scopes[g]), g)
  IN  OfGrade(rs, None) \union UNION {applied(g) : g \in Grade}

-----------------------------------------------------------------------------
(* The services: a locked row, the version of the page, the next version.  *)

CheckProblemVersion(t, p) ==
  /\ p \in DOMAIN shown[t]
  /\ shown[t][p].version = problem[p].version

\* Faulty: a change of the rules alone is no new version.
SaveRowVersion(p, row, rs) ==
  /\ writes[p] < MaxProblemWrites
  /\ problem' = [problem EXCEPT ![p] = [row EXCEPT !.version = IF row = problem[p] THEN @ ELSE @ + 1]]
  /\ rules' = [rules EXCEPT ![p] = rs]
  /\ writes' = [writes EXCEPT ![p] = @ + 1]
  /\ UNCHANGED <<openSections, shown, sync, overtaken>>

SaveProblem(p, row, rs) ==
  /\ writes[p] < MaxProblemWrites
  /\ problem' = [problem EXCEPT ![p] = [row EXCEPT !.version = @ + 1]]
  /\ rules' = [rules EXCEPT ![p] = rs]
  /\ writes' = [writes EXCEPT ![p] = @ + 1]
  /\ UNCHANGED <<openSections, shown, sync, overtaken>>

Place(row) == [section |-> row.section, tag |-> row.tag]

\* Where an edit may put a problem: in a section, whose grade becomes its tag, in none,
\* or where it is.  The model's clean() refuses a section that is archived by now.
Places(t, p) ==
  LET mine == {s \in openSections : Manages(t, SectionGrade[s])}
      kept == IF problem[p].section \in Section \ openSections THEN {} ELSE {Place(problem[p])}
  IN  kept \union {[section |-> s, tag |-> SectionGrade[s]] : s \in mine}
           \union {[section |-> None, tag |-> g] : g \in Grade \union {None}}

EditProblemContent(t, p, x, place) ==
  LET row == [problem[p] EXCEPT !.text = x, !.section = place.section, !.tag = place.tag]
  IN  /\ ~problem[p].archived
      /\ t \in Admin \/ problem[p].owner = t
      /\ CheckProblemVersion(t, p)
      /\ place \in Places(t, p)
      /\ row # problem[p]
      /\ SaveProblem(p, row, rules[p])

\* An administrator decides on the school, all grades and the suspension.
AdminAudience(t, p, suspended, allSchool, scopes) ==
  LET school == [scope |-> "all_school", grade |-> None, class |-> None, active |-> allSchool]
      rs == UpsertRules(rules[p], {school})
  IN  /\ suspended \/ allSchool \/ \E g \in Grade : scopes[g].visible
      /\ SaveProblem(p, [problem[p] EXCEPT !.suspended = suspended],
                     IF allSchool THEN rs ELSE ApplyGradeScopes(rs, scopes))

\* A teacher decides on her grade, unless the whole school sees the problem.
TeacherAudience(t, p, v) ==
  /\ ~AllSchool(p)
  /\ SaveProblem(p, problem[p], ApplyGradeScope(rules[p], ManagedGrade[t], v))

UpdateProblemAudience(t, p) ==
  /\ ~problem[p].archived
  /\ CheckProblemVersion(t, p)
  /\ IF t \in Admin
       THEN \E suspended \in BOOLEAN :
              \/ AdminAudience(t, p, suspended, TRUE, [g \in Grade |-> Hidden])
              \/ \E scopes \in [Grade -> GradeScope] : AdminAudience(t, p, suspended, FALSE, scopes)
       ELSE \E v \in GradeScope : TeacherAudience(t, p, v)

ArchiveProblem(t, p) ==
  /\ t \in Admin
  /\ CheckProblemVersion(t, p)
  /\ ~problem[p].archived
  /\ SaveProblem(p, [problem[p] EXCEPT !.archived = TRUE], rules[p])

\* A restored problem is suspended until an administrator publishes it again.
RestoreProblem(t, p) ==
  /\ t \in Admin
  /\ CheckProblemVersion(t, p)
  /\ problem[p].archived
  /\ SaveProblem(p, [problem[p] EXCEPT !.archived = FALSE, !.suspended = TRUE], rules[p])

-----------------------------------------------------------------------------
(* sync_from_disk: the problems of the disk one after the other, each in a *)
(* transaction of its own.                                                 *)

\* The fields the disk decides: the text, and the grade of a graded directory.
Synced(row, entry) ==
  [row EXCEPT !.text = entry.text, !.tag = IF entry.grade = None THEN @ ELSE entry.grade]

\* Faulty: the grade of the section is not compared.
MaySyncAnyGrade(t, row, entry) == t \in Admin \/ row.owner = t

\* A teacher syncs her own problems, and no problem against the grade of its section.
MaySync(t, row, entry) ==
  /\ t \in Admin \/ row.owner = t
  /\ entry.grade # None /\ row.section # None => SectionGrade[row.section] = entry.grade

\* get_or_create, the comparison; what is to be saved is kept for the save.  The entry is
\* the problem's text and the grade of the directory it is in: directories are copied to
\* the server at any time, so a sync may find anything.
SyncRead(t, p, entry) ==
  LET fresh == [owner |-> t, section |-> None, tag |-> entry.grade, text |-> entry.text,
                suspended |-> FALSE, archived |-> FALSE, version |-> 1]
  IN  /\ sync[t].at = None
      /\ Cardinality({u \in Teacher : sync[u].at # None}) < MaxSyncs
      /\ IF p \notin DOMAIN problem
           THEN /\ problem' = [q \in DOMAIN problem \union {p} |-> IF q = p THEN fresh ELSE problem[q]]
                /\ UNCHANGED sync
         ELSE IF MaySync(t, problem[p], entry) /\ Synced(problem[p], entry) # problem[p]
           THEN /\ sync' = [sync EXCEPT ![t] = [at |-> p, row |-> problem[p], entry |-> entry]]
                /\ UNCHANGED problem
         ELSE UNCHANGED <<problem, sync>>
      /\ UNCHANGED <<rules, openSections, shown, writes, overtaken>>

\* Faulty: every field is written, those the disk says nothing of included.
SyncSaveRow(t) ==
  LET p == sync[t].at
  IN  /\ p # None
      /\ writes[p] < MaxProblemWrites
      /\ problem' = [problem EXCEPT ![p] = [Synced(sync[t].row, sync[t].entry) EXCEPT !.version = @ + 1]]
      /\ sync' = [sync EXCEPT ![t] = NoSync]
      /\ writes' = [writes EXCEPT ![p] = @ + 1]
      /\ overtaken' = IF problem[p] = sync[t].row THEN overtaken ELSE overtaken \union {p}
      /\ UNCHANGED <<rules, openSections, shown>>

\* Only the fields that differed are written, and one more than the version that was read.
SyncSave(t) ==
  LET p == sync[t].at
      read == sync[t].row
      new == Synced(read, sync[t].entry)
  IN  /\ p # None
      /\ writes[p] < MaxProblemWrites
      /\ problem' = [problem EXCEPT
                       ![p].text = IF new.text # read.text THEN new.text ELSE @,
                       ![p].tag = IF new.tag # read.tag THEN new.tag ELSE @,
                       ![p].version = read.version + 1]
      /\ sync' = [sync EXCEPT ![t] = NoSync]
      /\ writes' = [writes EXCEPT ![p] = @ + 1]
      /\ overtaken' = IF problem[p] = read THEN overtaken ELSE overtaken \union {p}
      /\ UNCHANGED <<rules, openSections, shown>>

-----------------------------------------------------------------------------
(* The views.  A teacher sends the version her page shows. *)

ShowProblems(t, ps) ==
  /\ shown' = [shown EXCEPT ![t] = [p \in ps |-> [version |-> problem[p].version, writes |-> writes[p]]]]
  /\ UNCHANGED <<problem, rules, openSections, sync, writes, overtaken>>

\* Archived problems are listed for administrators only.
Listed(t) == {p \in DOMAIN problem : problem[p].archived => t \in Admin}

GetProblemList(t) == ShowProblems(t, Listed(t))
GetProblemDetail(t) == \E p \in Listed(t) : ShowProblems(t, {p})

PatchProblem(t) ==
  \E p \in DOMAIN problem : \E x \in Text, place \in Places(t, p) : EditProblemContent(t, p, x, place)
PatchPublication(t) == \E p \in DOMAIN problem : UpdateProblemAudience(t, p)
DeleteProblem(t) == \E p \in DOMAIN problem : ArchiveProblem(t, p)
PostProblemRestore(t) == \E p \in DOMAIN problem : RestoreProblem(t, p)

\* A sync comes to one problem after the other, in the order of the file system.
PostProblemSync(t) == \E p \in Problem, entry \in Disk : SyncRead(t, p, entry)

\* Units are archived and restored.
TurnSection(s) ==
  /\ openSections' = IF s \in openSections THEN openSections \ {s} ELSE openSections \union {s}
  /\ UNCHANGED <<problem, rules, shown, sync, writes, overtaken>>

-----------------------------------------------------------------------------
ProblemsInit ==
  /\ problem = << >>
  /\ rules = [p \in Problem |-> {}]
  /\ openSections = Section
  /\ shown = [t \in Teacher |-> << >>]
  /\ sync = [t \in Teacher |-> NoSync]
  /\ writes = [p \in Problem |-> 0]
  /\ overtaken = {}

ProblemsNext ==
  \/ \E t \in Teacher :
       \/ GetProblemList(t) \/ GetProblemDetail(t)
       \/ PatchProblem(t) \/ PatchPublication(t) \/ DeleteProblem(t) \/ PostProblemRestore(t)
       \/ PostProblemSync(t) \/ SyncSave(t)
  \/ \E s \in Section : TurnSection(s)

ProblemsSpec == ProblemsInit /\ [][ProblemsNext]_problemVars

-----------------------------------------------------------------------------
(* Properties. *)

ProblemsTypeOK ==
  /\ DOMAIN problem \subseteq Problem
  /\ problem \in [DOMAIN problem -> ProblemRow]
  /\ rules \in [Problem -> SUBSET Rule]
  /\ openSections \subseteq Section
  /\ \A t \in Teacher : sync[t].at = None \/ sync[t].row \in ProblemRow
  /\ overtaken \subseteq DOMAIN problem

\* The page of t tells by the version of p whether p was written since.
ToldByVersion(t, p) == shown[t][p].version = problem[p].version => shown[t][p].writes = writes[p]

\* docs/dev/2026-09-04-ai-problem-publishing-dev.md:379: an old request replaces no new
\* configuration, since who finds the version unchanged has seen what was written last.
VersionTellsProblem == \A t \in Teacher : \A p \in DOMAIN shown[t] : ToldByVersion(t, p)

\* What remains true of it: through any edits, decisions, restorations and syncs a version
\* is given once, until a sync saves over a change that came after it had read the row.
VersionTellsUnlessOvertaken ==
  \A t \in Teacher : \A p \in DOMAIN shown[t] \ overtaken : ToldByVersion(t, p)

TagFollows(p) ==
  problem[p].section # None => problem[p].tag \in {None, SectionGrade[problem[p].section]}

\* The tag of a problem in a section is the grade of the section or missing.  No run lists
\* this property: the README describes the counterexample TLC finds.
TagFollowsSection == \A p \in DOMAIN problem : TagFollows(p)

\* Edits set section and tag, a sync sets the tag alone, by the section it read: the two
\* part only where it saves over a change it has not read.
TagFollowsUnlessOvertaken == \A p \in DOMAIN problem \ overtaken : TagFollows(p)

\* What a manager is shown of the publication in her grade is what its students see,
\* after any sequence of choices of her and of administrators.
PublicationShown ==
  \A p \in DOMAIN problem : \A g \in Grade :
    LET data == PublicationData(p, g)
    IN  ~problem[p].archived /\ ~problem[p].suspended /\ ~AllSchool(p) =>
          \A c \in Class : Sees(p, g, c) <=> data.visible /\ (data.allClasses \/ c \in data.classes)

\* A decision on the audience of p that an administrator or the teacher of grade g, for this
\* grade alone, took on the current version, and on what was written last unless a sync
\* saved over a change.
DecidedFor(p, g) ==
  /\ UNCHANGED sync /\ ~problem[p].archived
  /\ problem'[p] = [problem[p] EXCEPT !.suspended = problem'[p].suspended, !.version = @ + 1]
  /\ \E t \in Teacher :
       /\ p \in DOMAIN shown[t] /\ shown[t][p].version = problem[p].version
       /\ p \notin overtaken => shown[t][p].writes = writes[p]
       /\ t \notin Admin =>
            /\ ManagedGrade[t] = g /\ problem'[p].suspended = problem[p].suspended
            /\ rules[p] \ OfGrade(rules[p], g) = rules'[p] \ OfGrade(rules'[p], g)

\* A class begins to see a problem by a decision of the managers of its grade alone: no
\* restoring, edit or decision for another grade reveals anything, nor does a sync that
\* saves what it read before a suspension or an archiving.
RevealedByItsManagers ==
  [][\A p \in DOMAIN problem, g \in Grade, c \in Class :
       Sees(p, g, c)' /\ ~Sees(p, g, c) => DecidedFor(p, g)]_problemVars

\* The rows of problems and rules hold together, tags and sections included as far as no
\* sync was overtaken.
ProblemsInv == ProblemsTypeOK /\ TagFollowsUnlessOvertaken
=============================================================================
