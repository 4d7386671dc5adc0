-------------------------- MODULE CurriculumProofs --------------------------
(***************************************************************************)
(* Theorems about Problems and QuestionBank for any teachers, grades,      *)
(* classes, problems, units and questions.                                 *)
(*                                                                         *)
(* Problems: the rules of a grade are switched on and off together, which  *)
(* is why a manager's view of them is right; a version counts the writes   *)
(* of a problem until a sync saves over one it has not read.               *)
(*                                                                         *)
(* QuestionBank: what a transaction has locked stays as it read it, so the *)
(* rows it saves still fit the units that have changed around them.        *)
(***************************************************************************)
EXTENDS Problems, QuestionBank, FiniteSetTheorems, TLAPS

USE StaffAssumption, ProblemsAssumption

-----------------------------------------------------------------------------
(* Rules *)

LEMMA RuleFacts ==
  ASSUME NEW r \in Rule
  PROVE  /\ r.scope \in {"all_school", "grade_all", "class"} /\ r.active \in BOOLEAN
         /\ r.grade \in Grade \union {None} /\ r.class \in Class \union {None}
         /\ r = [scope |-> r.scope, grade |-> r.grade, class |-> r.class, active |-> r.active]
         /\ r.scope = "all_school" <=> r.grade = None
         /\ r.scope = "class" <=> r.class \in Class
         /\ [r EXCEPT !.active = FALSE] \in Rule
         /\ [r EXCEPT !.active = FALSE].grade = r.grade
         /\ [r EXCEPT !.active = FALSE].active = FALSE
  BY DEF Rule

LEMMA ScopeFacts ==
  ASSUME NEW v \in GradeScope
  PROVE  /\ v.visible \in BOOLEAN /\ v.all \in BOOLEAN
         /\ v.classes \in SUBSET Class
<1>1. CASE v = Hidden
  BY <1>1 DEF Hidden
<1>2. CASE v = AllClasses
  BY <1>2 DEF AllClasses
<1>3. CASE v \in SomeClasses
  BY <1>3 DEF SomeClasses
<1>4. QED BY <1>1, <1>2, <1>3 DEF GradeScope

\* The rules of a grade are active together.
Uniform(rs) ==
  \A r, s \in rs : r.grade \in Grade /\ s.grade = r.grade => r.active = s.active

\* A choice for a grade makes its rules uniform and leaves all others alone.
LEMMA ApplyFacts ==
  ASSUME NEW rs \in SUBSET Rule, NEW g \in Grade, NEW v \in GradeScope
  PROVE  /\ ApplyGradeScope(rs, g, v) \in SUBSET Rule
         /\ \A r \in Rule : r.grade # g => (r \in ApplyGradeScope(rs, g, v) <=> r \in rs)
         /\ \A r, s \in ApplyGradeScope(rs, g, v) :
              r.grade = g /\ s.grade = g => r.active = s.active
<1> DEFINE new == ApplyGradeScope(rs, g, v)
           grant == [scope |-> "grade_all", grade |-> g, class |-> None, active |-> TRUE]
           some == {[scope |-> "class", grade |-> g, class |-> c, active |-> TRUE] : c \in v.classes}
<1>1. CASE ~v.visible
  <2>1. new = {IF r.grade = g THEN [r EXCEPT !.active = FALSE] ELSE r : r \in rs}
    BY <1>1 DEF ApplyGradeScope
  <2>2. \A r \in rs : r \in Rule
    OBVIOUS
  <2>3. \A r \in new : \E q \in rs :
          IF q.grade = g THEN r = [q EXCEPT !.active = FALSE] ELSE r = q
    BY <2>1
  <2>4. new \in SUBSET Rule
    BY <2>2, <2>3, RuleFacts
  <2>5. \A r \in new : r.grade = g => r.active = FALSE
    BY <2>2, <2>3, RuleFacts
  <2>6. \A r \in Rule : r.grade # g => (r \in new <=> r \in rs)
    BY <2>1, <2>2, <2>3, RuleFacts
  <2>7. QED BY <2>4, <2>5, <2>6
<1>2. CASE v.visible /\ v.all
  <2>1. new = {r \in rs \ OfScope(OfGrade(rs, g), "class") :
                 <<r.scope, r.grade, r.class>> # <<"grade_all", g, None>>} \union {grant}
    BY <1>2 DEF ApplyGradeScope, UpsertRules
  <2>2. grant \in Rule /\ grant.grade = g
    BY DEF Rule
  <2>3. new \in SUBSET Rule
    BY <2>1, <2>2
  <2>4. \A r \in new : r.grade = g => r = grant
    <3>1. SUFFICES ASSUME NEW r \in rs, r.grade = g, r \notin OfScope(OfGrade(rs, g), "class"),
                          <<r.scope, r.grade, r.class>> # <<"grade_all", g, None>>
                   PROVE  FALSE
      BY <2>1
    <3>2. r.scope # "class"
      BY <3>1 DEF OfScope, OfGrade
    <3>3. r.scope = "grade_all" /\ r.class = None
      BY <3>1, <3>2, RuleFacts
    <3>4. QED BY <3>1, <3>3
  <2>5. \A r \in Rule : r.grade # g => (r \in new <=> r \in rs)
    BY <2>1, <2>2 DEF OfScope, OfGrade
  <2>6. QED BY <2>3, <2>4, <2>5
<1>3. CASE v.visible /\ ~v.all
  <2>1. new = UpsertRules(rs \ OfGrade(rs, g), some)
    BY <1>3 DEF ApplyGradeScope
  <2>2. \A r \in some : r \in Rule /\ r.grade = g /\ r.active = TRUE
    <3>1. \A c \in v.classes : c \in Class
      BY ScopeFacts
    <3>2. \A c \in Class :
            [scope |-> "class", grade |-> g, class |-> c, active |-> TRUE] \in Rule
      BY DEF Rule
    <3>3. QED BY <3>1, <3>2
  <2>3. \A r \in new : r \in some \/ (r \in rs /\ r.grade # g)
    BY <2>1 DEF UpsertRules, OfGrade
  <2>4. \A r \in rs : r.grade # g => r \in new
    <3>1. \A r \in rs : r.grade # g =>
            \A n \in some : <<r.scope, r.grade, r.class>> # <<n.scope, n.grade, n.class>>
      BY <2>2
    <3>2. QED BY <2>1, <3>1 DEF UpsertRules, OfGrade
  <2>5. QED BY <2>2, <2>3, <2>4
<1>4. QED BY <1>1, <1>2, <1>3, ScopeFacts

LEMMA ApplyUniform ==
  ASSUME NEW rs \in SUBSET Rule, Uniform(rs), NEW g \in Grade, NEW v \in GradeScope
  PROVE  Uniform(ApplyGradeScope(rs, g, v))
  BY ApplyFacts DEF Uniform

LEMMA ApplyAllFacts ==
  ASSUME NEW rs \in SUBSET Rule, NEW scopes \in [Grade -> GradeScope]
  PROVE  ApplyGradeScopes(rs, scopes) \in SUBSET Rule /\ Uniform(ApplyGradeScopes(rs, scopes))
<1> DEFINE applied(g) == OfGrade(ApplyGradeScope(rs, g, scopes[g]), g)
<1>1. \A r \in ApplyGradeScopes(rs, scopes) :
        \/ r \in rs /\ r.grade = None
        \/ \E g \in Grade : r \in ApplyGradeScope(rs, g, scopes[g]) /\ r.grade = g
  BY DEF ApplyGradeScopes, OfGrade
<1>2. \A g \in Grade : scopes[g] \in GradeScope
  OBVIOUS
<1>3. ApplyGradeScopes(rs, scopes) \in SUBSET Rule
  BY <1>1, <1>2, ApplyFacts
<1>4. ASSUME NEW r \in ApplyGradeScopes(rs, scopes), NEW s \in ApplyGradeScopes(rs, scopes),
             r.grade \in Grade, s.grade = r.grade
      PROVE  r.active = s.active
  <2>1. /\ r \in ApplyGradeScope(rs, r.grade, scopes[r.grade])
        /\ s \in ApplyGradeScope(rs, r.grade, scopes[r.grade])
    BY <1>1, <1>4
  <2>2. QED BY <1>2, <1>4, <2>1, ApplyFacts
<1>5. QED BY <1>3, <1>4 DEF Uniform

LEMMA SchoolFacts ==
  ASSUME NEW rs \in SUBSET Rule, Uniform(rs), NEW on \in BOOLEAN, NEW school,
         school = [scope |-> "all_school", grade |-> None, class |-> None, active |-> on]
  PROVE  UpsertRules(rs, {school}) \in SUBSET Rule /\ Uniform(UpsertRules(rs, {school}))
<1>1. school \in Rule /\ school.grade \notin Grade
  BY DEF Rule
<1>2. \A r \in UpsertRules(rs, {school}) : r \in rs \/ r = school
  BY DEF UpsertRules
<1>3. QED BY <1>1, <1>2 DEF Uniform

-----------------------------------------------------------------------------
(* Rows of problems *)

\* What a sync under way can be.
Syncs == {NoSync} \union [at : Problem, row : ProblemRow, entry : Disk]

\* The version of a problem counts its writes, unless a sync saved over a change: then it
\* may be behind.
Counted(p) ==
  /\ p \notin DOMAIN problem => writes[p] = 0
  /\ p \in DOMAIN problem => problem[p].version <= writes[p] + 1
  /\ p \in DOMAIN problem \ overtaken => problem[p].version = writes[p] + 1

\* Every variable has its type, the rules of every problem are uniform, and versions
\* count writes.
RowsInv ==
  /\ DOMAIN problem \subseteq Problem
  /\ problem \in [DOMAIN problem -> ProblemRow]
  /\ rules \in [Problem -> SUBSET Rule]
  /\ openSections \subseteq Section
  /\ shown = [t \in Teacher |-> shown[t]]
  /\ sync \in [Teacher -> Syncs]
  /\ \A t \in Teacher : sync[t].at # None =>
       sync[t].at \in DOMAIN problem /\ sync[t].row.version <= writes[sync[t].at] + 1
  /\ writes \in [Problem -> Nat]
  /\ \A p \in Problem : Uniform(rules[p])
  /\ overtaken \subseteq DOMAIN problem
  /\ \A p \in Problem : Counted(p)

LEMMA ProblemFields ==
  ASSUME NEW row \in ProblemRow
  PROVE  /\ row.owner \in Teacher /\ row.section \in Section \union {None}
         /\ row.tag \in Grade \union {None} /\ row.text \in Text
         /\ row.suspended \in BOOLEAN /\ row.archived \in BOOLEAN
         /\ row.version \in Nat /\ row.version \in 1..(MaxProblemWrites + 1)
         /\ row = [owner |-> row.owner, section |-> row.section, tag |-> row.tag,
                   text |-> row.text, suspended |-> row.suspended,
                   archived |-> row.archived, version |-> row.version]
  BY DEF ProblemRow

LEMMA SyncFacts ==
  ASSUME NEW s \in Syncs, s.at # None
  PROVE  s.at \in Problem /\ s.row \in ProblemRow /\ s.entry \in Disk
  BY DEF Syncs, NoSync

\* The tag agrees with the section.
Tagged(row) == row.section # None => row.tag \in {None, SectionGrade[row.section]}

\* A row with the next version.
LEMMA NextVersion ==
  ASSUME NEW row \in ProblemRow, row.version <= MaxProblemWrites
  PROVE  LET new == [row EXCEPT !.version = @ + 1] IN
         /\ new \in ProblemRow /\ new.version = row.version + 1
         /\ new.section = row.section /\ new.tag = row.tag /\ new.text = row.text
         /\ new.suspended = row.suspended /\ new.archived = row.archived
  BY DEF ProblemRow

\* What a service writes: a row and rules in place of those the page showed.
Writes(t, p, row, rs) ==
  /\ row \in ProblemRow /\ row.version = problem[p].version
  /\ rs \in SUBSET Rule /\ Uniform(rs)
  /\ Tagged(problem[p]) => Tagged(row)
  /\ CheckProblemVersion(t, p)
  /\ SaveProblem(p, row, rs)

\* The next version of a row that a service writes.
LEMMA SavedRow ==
  ASSUME RowsInv, NEW t \in Teacher, NEW p \in DOMAIN problem, NEW row, NEW rs,
         Writes(t, p, row, rs)
  PROVE  /\ DOMAIN problem' = DOMAIN problem
         /\ problem'[p] \in ProblemRow /\ problem'[p].version = problem[p].version + 1
         /\ problem'[p].section = row.section /\ problem'[p].tag = row.tag
         /\ problem'[p].suspended = row.suspended /\ problem'[p].archived = row.archived
         /\ \A q \in DOMAIN problem : q # p => problem'[q] = problem[q]
         /\ rules' = [rules EXCEPT ![p] = rs]
         /\ writes' = [writes EXCEPT ![p] = @ + 1]
         /\ UNCHANGED <<openSections, shown, sync, overtaken>>
<1> DEFINE new == [row EXCEPT !.version = @ + 1]
<1>1. row \in ProblemRow /\ row.version = problem[p].version /\ SaveProblem(p, row, rs)
      /\ row.version <= MaxProblemWrites
  <2>1. /\ row \in ProblemRow /\ row.version = problem[p].version /\ SaveProblem(p, row, rs)
        /\ writes[p] < MaxProblemWrites
    BY DEF Writes, SaveProblem
  <2>2. p \in Problem /\ writes[p] \in Nat /\ problem[p].version <= writes[p] + 1
    BY DEF RowsInv, Counted
  <2>3. row.version \in Nat
    BY <2>1, ProblemFields
  <2>4. QED BY <2>1, <2>2, <2>3
<1>2. /\ new \in ProblemRow /\ new.version = problem[p].version + 1
      /\ new.section = row.section /\ new.tag = row.tag
      /\ new.suspended = row.suspended /\ new.archived = row.archived
  BY <1>1, NextVersion
<1>3. /\ problem' = [problem EXCEPT ![p] = new]
      /\ rules' = [rules EXCEPT ![p] = rs]
      /\ writes' = [writes EXCEPT ![p] = @ + 1]
      /\ UNCHANGED <<openSections, shown, sync, overtaken>>
  BY <1>1 DEF SaveProblem
<1>4. problem \in [DOMAIN problem -> ProblemRow]
  BY DEF RowsInv
<1> HIDE DEF new
<1>5. /\ DOMAIN problem' = DOMAIN problem /\ problem'[p] = new
      /\ \A q \in DOMAIN problem : q # p => problem'[q] = problem[q]
  BY <1>3, <1>4
<1>6. QED BY <1>2, <1>3, <1>5

LEMMA EditWrites ==
  ASSUME RowsInv, NEW t \in Teacher, NEW p \in DOMAIN problem, NEW x \in Text,
         NEW place, EditProblemContent(t, p, x, place)
  PROVE  \E row : /\ Writes(t, p, row, rules[p])
                  /\ row.suspended = problem[p].suspended /\ row.archived = problem[p].archived
<1> DEFINE row == [problem[p] EXCEPT !.text = x, !.section = place.section, !.tag = place.tag]
<1>1. /\ CheckProblemVersion(t, p) /\ place \in Places(t, p)
      /\ SaveProblem(p, row, rules[p])
  BY DEF EditProblemContent
<1>2. /\ problem[p] \in ProblemRow /\ rules[p] \in SUBSET Rule /\ Uniform(rules[p])
      /\ openSections \subseteq Section
  BY DEF RowsInv
<1>3. /\ place.section \in Section \union {None} /\ place.tag \in Grade \union {None}
      /\ Tagged(problem[p]) /\ place.section # None => place.tag \in {None, SectionGrade[place.section]}
  <2>1. CASE place = Place(problem[p])
    BY <1>2, <2>1, ProblemFields DEF Place, Tagged
  <2>2. CASE \E s \in openSections : place = [section |-> s, tag |-> SectionGrade[s]]
    BY <1>2, <2>2
  <2>3. CASE \E g \in Grade \union {None} : place = [section |-> None, tag |-> g]
    BY <2>3
  <2>4. QED BY <1>1, <2>1, <2>2, <2>3 DEF Places
<1>4. /\ row \in ProblemRow /\ row.version = problem[p].version
      /\ row.suspended = problem[p].suspended /\ row.archived = problem[p].archived
      /\ row.section = place.section /\ row.tag = place.tag
  BY <1>2, <1>3 DEF ProblemRow
<1>5. Tagged(problem[p]) => Tagged(row)
  BY <1>3, <1>4 DEF Tagged
<1> HIDE DEF row
<1>6. Writes(t, p, row, rules[p])
  BY <1>1, <1>2, <1>4, <1>5 DEF Writes
<1>7. QED BY <1>4, <1>6

\* What is decided on the audience: by an administrator anything, by a teacher
\* the rules of her grade.
LEMMA AudienceWrites ==
  ASSUME RowsInv, NEW t \in Teacher, NEW p \in DOMAIN problem, UpdateProblemAudience(t, p)
  PROVE  \E row, rs :
           /\ Writes(t, p, row, rs) /\ row = [problem[p] EXCEPT !.suspended = row.suspended]
           /\ t \notin Admin =>
                /\ row.suspended = problem[p].suspended
                /\ \A r \in Rule : r.grade # ManagedGrade[t] => (r \in rs <=> r \in rules[p])
<1>1. /\ problem[p] \in ProblemRow /\ rules[p] \in SUBSET Rule /\ Uniform(rules[p])
      /\ CheckProblemVersion(t, p) /\ ManagedGrade[t] \in Grade
  BY DEF RowsInv, UpdateProblemAudience
<1>2. ASSUME NEW suspended \in BOOLEAN
      PROVE  LET row == [problem[p] EXCEPT !.suspended = suspended] IN
             /\ row \in ProblemRow /\ row.version = problem[p].version
             /\ row.suspended = suspended
             /\ Tagged(problem[p]) => Tagged(row)
             /\ row = [problem[p] EXCEPT !.suspended = row.suspended]
  BY <1>1 DEF ProblemRow, Tagged
<1>3. ASSUME NEW suspended \in BOOLEAN, NEW allSchool \in BOOLEAN, NEW scopes \in [Grade -> GradeScope],
             AdminAudience(t, p, suspended, allSchool, scopes)
      PROVE  \E row, rs : Writes(t, p, row, rs) /\ row = [problem[p] EXCEPT !.suspended = row.suspended]
  <2> DEFINE row == [problem[p] EXCEPT !.suspended = suspended]
             school == [scope |-> "all_school", grade |-> None, class |-> None, active |-> allSchool]
             up == UpsertRules(rules[p], {school})
             rs == IF allSchool THEN up ELSE ApplyGradeScopes(up, scopes)
  <2>1. SaveProblem(p, row, rs)
    BY <1>3 DEF AdminAudience
  <2>2. up \in SUBSET Rule /\ Uniform(up)
    BY <1>1, SchoolFacts
  <2> HIDE DEF up
  <2>3. rs \in SUBSET Rule /\ Uniform(rs)
    BY <2>2, ApplyAllFacts
  <2>4. /\ row \in ProblemRow /\ row.version = problem[p].version
        /\ Tagged(problem[p]) => Tagged(row)
        /\ row = [problem[p] EXCEPT !.suspended = row.suspended]
    BY <1>2
  <2> HIDE DEF rs, row
  <2>5. Writes(t, p, row, rs)
    BY <1>1, <2>1, <2>3, <2>4 DEF Writes
  <2>6. QED BY <2>4, <2>5
<1>4. CASE t \in Admin
  <2>1. Hidden \in GradeScope
    BY DEF GradeScope
  <2>2. [g \in Grade |-> Hidden] \in [Grade -> GradeScope]
    BY <2>1
  <2>3. \E suspended \in BOOLEAN, allSchool \in BOOLEAN, scopes \in [Grade -> GradeScope] :
          AdminAudience(t, p, suspended, allSchool, scopes)
    BY <1>4, <2>2 DEF UpdateProblemAudience
  <2>4. QED BY <1>3, <1>4, <2>3
<1>5. CASE t \notin Admin
  <2>1. PICK v \in GradeScope : TeacherAudience(t, p, v)
    BY <1>5 DEF UpdateProblemAudience
  <2> DEFINE rs == ApplyGradeScope(rules[p], ManagedGrade[t], v)
  <2>2. SaveProblem(p, problem[p], rs)
    BY <2>1 DEF TeacherAudience
  <2>3. rs \in SUBSET Rule /\ Uniform(rs)
    BY <1>1, ApplyFacts, ApplyUniform
  <2>4. \A r \in Rule : r.grade # ManagedGrade[t] => (r \in rs <=> r \in rules[p])
    BY <1>1, ApplyFacts
  <2>5. problem[p] = [problem[p] EXCEPT !.suspended = problem[p].suspended]
    BY <1>1, ProblemFields
  <2> HIDE DEF rs
  <2>6. Writes(t, p, problem[p], rs)
    BY <1>1, <2>2, <2>3 DEF Writes
  <2>7. QED BY <1>5, <2>4, <2>5, <2>6
<1>6. QED BY <1>4, <1>5

LEMMA ArchiveWrites ==
  ASSUME RowsInv, NEW t \in Teacher, NEW p \in DOMAIN problem,
         ArchiveProblem(t, p) \/ RestoreProblem(t, p)
  PROVE  \E row : Writes(t, p, row, rules[p]) /\ (row.archived \/ row.suspended)
<1>1. /\ problem[p] \in ProblemRow /\ rules[p] \in SUBSET Rule /\ Uniform(rules[p])
      /\ CheckProblemVersion(t, p)
  BY DEF RowsInv, ArchiveProblem, RestoreProblem
<1> DEFINE old == [problem[p] EXCEPT !.archived = TRUE]
           new == [problem[p] EXCEPT !.archived = FALSE, !.suspended = TRUE]
<1>2. /\ old \in ProblemRow /\ old.version = problem[p].version /\ old.archived
      /\ Tagged(problem[p]) => Tagged(old)
      /\ new \in ProblemRow /\ new.version = problem[p].version /\ new.suspended
      /\ Tagged(problem[p]) => Tagged(new)
  BY <1>1 DEF ProblemRow, Tagged
<1>3. SaveProblem(p, old, rules[p]) \/ SaveProblem(p, new, rules[p])
  BY DEF ArchiveProblem, RestoreProblem
<1> HIDE DEF old, new
<1>4. CASE SaveProblem(p, old, rules[p])
  <2>1. Writes(t, p, old, rules[p])
    BY <1>1, <1>2, <1>4 DEF Writes
  <2>2. QED BY <1>2, <2>1
<1>5. CASE SaveProblem(p, new, rules[p])
  <2>1. Writes(t, p, new, rules[p])
    BY <1>1, <1>2, <1>5 DEF Writes
  <2>2. QED BY <1>2, <2>1
<1>6. QED BY <1>3, <1>4, <1>5

-----------------------------------------------------------------------------
(* Steps of Problems *)

\* Every service is a write.
LEMMA ServiceWrites ==
  ASSUME RowsInv, NEW t \in Teacher,
         PatchProblem(t) \/ PatchPublication(t) \/ DeleteProblem(t) \/ PostProblemRestore(t)
  PROVE  \E p \in DOMAIN problem : \E row, rs : Writes(t, p, row, rs)
<1>1. CASE PatchProblem(t)
  BY <1>1, EditWrites DEF PatchProblem
<1>2. CASE PatchPublication(t)
  BY <1>2, AudienceWrites DEF PatchPublication
<1>3. CASE DeleteProblem(t) \/ PostProblemRestore(t)
  BY <1>3, ArchiveWrites DEF DeleteProblem, PostProblemRestore
<1>4. QED BY <1>1, <1>2, <1>3

LEMMA WritesRows ==
  ASSUME RowsInv, NEW t \in Teacher, NEW p \in DOMAIN problem, NEW row, NEW rs,
         Writes(t, p, row, rs)
  PROVE  RowsInv'
<1>1. /\ rs \in SUBSET Rule /\ Uniform(rs) /\ p \in Problem
      /\ rules \in [Problem -> SUBSET Rule] /\ writes \in [Problem -> Nat]
      /\ DOMAIN problem \subseteq Problem
      /\ problem \in [DOMAIN problem -> ProblemRow]
  BY DEF Writes, RowsInv
<1>2. /\ DOMAIN problem' = DOMAIN problem /\ problem'[p] \in ProblemRow
      /\ \A q \in DOMAIN problem : q # p => problem'[q] = problem[q]
      /\ rules' = [rules EXCEPT ![p] = rs]
      /\ writes' = [writes EXCEPT ![p] = @ + 1]
      /\ problem'[p].version = problem[p].version + 1
      /\ UNCHANGED <<openSections, shown, sync, overtaken>>
  BY SavedRow
<1>3. problem' = [q \in DOMAIN problem |-> problem'[q]]
  <2>1. \E old : problem' = [problem EXCEPT ![p] = old]
    BY DEF Writes, SaveProblem
  <2>2. QED BY <2>1
<1>4. problem' \in [DOMAIN problem' -> ProblemRow]
  BY <1>1, <1>2, <1>3
<1>5. writes' \in [Problem -> Nat]
  BY <1>1, <1>2
<1>6. rules' \in [Problem -> SUBSET Rule]
  BY <1>1, <1>2
<1>7. \A q \in Problem : Uniform(rules'[q])
  BY <1>1, <1>2 DEF RowsInv
<1>8. writes'[p] = writes[p] + 1 /\ \A q \in Problem : q # p => writes'[q] = writes[q]
  BY <1>1, <1>2
<1>9. \A q \in Problem : Counted(q)'
  <2> SUFFICES ASSUME NEW q \in Problem PROVE Counted(q)'
    OBVIOUS
  <2>1. Counted(q)
    BY DEF RowsInv
  <2>2. CASE q = p
    <3>1. problem[p].version \in Nat /\ writes[p] \in Nat
      BY <1>1, ProblemFields
    <3>2. QED BY <1>2, <1>8, <2>1, <2>2, <3>1 DEF Counted
  <2>3. CASE q # p
    BY <1>2, <1>8, <2>1, <2>3 DEF Counted
  <2>4. QED BY <2>2, <2>3
<1>10. ASSUME NEW u \in Teacher, sync[u].at # None
       PROVE  /\ sync[u].at \in DOMAIN problem'
              /\ sync[u].row.version <= writes'[sync[u].at] + 1
  <2>1. /\ sync[u] \in Syncs /\ sync[u].at \in DOMAIN problem
        /\ sync[u].row.version <= writes[sync[u].at] + 1
    BY <1>10 DEF RowsInv
  <2>2. sync[u].row.version \in Nat /\ sync[u].at \in Problem
    BY <1>10, <2>1, SyncFacts, ProblemFields
  <2>3. writes[sync[u].at] \in Nat /\ writes'[sync[u].at] \in {writes[sync[u].at], writes[sync[u].at] + 1}
    BY <1>1, <1>8, <2>2
  <2>4. QED BY <1>2, <2>1, <2>2, <2>3
<1>11. overtaken' \subseteq DOMAIN problem' /\ openSections' \subseteq Section
       /\ shown' = [u \in Teacher |-> shown'[u]] /\ sync' \in [Teacher -> Syncs]
  BY <1>2 DEF RowsInv
<1>12. QED BY <1>1, <1>2, <1>4, <1>5, <1>6, <1>7, <1>9, <1>10, <1>11 DEF RowsInv, Uniform

LEMMA DiskFacts ==
  ASSUME NEW entry \in Disk
  PROVE  entry.text \in Text /\ entry.grade \in Grade \union {None}
<1>1. entry \in [text : Text, grade : Grade \union {None}]
  OBVIOUS
<1>2. QED BY <1>1

\* A sync comes to a problem that is new, writes down what it will save, or has
\* nothing to do.
LEMMA SyncReadCases ==
  ASSUME RowsInv, NEW t \in Teacher, NEW p \in Problem, NEW entry \in Disk,
         SyncRead(t, p, entry)
  PROVE  /\ sync[t].at = None
         /\ UNCHANGED <<rules, openSections, shown, writes, overtaken>>
         /\ \/ UNCHANGED <<problem, sync>>
            \/ /\ p \notin DOMAIN problem /\ UNCHANGED sync
               /\ DOMAIN problem' = DOMAIN problem \union {p}
               /\ problem' \in [DOMAIN problem' -> ProblemRow]
               /\ Tagged(problem'[p]) /\ problem'[p].version = 1
               /\ \A q \in DOMAIN problem : problem'[q] = problem[q]
            \/ /\ p \in DOMAIN problem /\ UNCHANGED problem
               /\ MaySync(t, problem[p], entry)
               /\ sync' = [sync EXCEPT ![t] = [at |-> p, row |-> problem[p], entry |-> entry]]
<1> DEFINE fresh == [owner |-> t, section |-> None, tag |-> entry.grade, text |-> entry.text,
                     suspended |-> FALSE, archived |-> FALSE, version |-> 1]
<1>1. CASE p \notin DOMAIN problem
  <2>1. fresh \in ProblemRow /\ Tagged(fresh) /\ fresh.version = 1
    <3>1. 1 \in 1..(MaxProblemWrites + 1)
      OBVIOUS
    <3>2. entry.text \in Text /\ entry.grade \in Grade \union {None}
      BY DiskFacts
    <3>3. QED BY <3>1, <3>2 DEF ProblemRow, Tagged
  <2>2. problem' = [q \in DOMAIN problem \union {p} |-> IF q = p THEN fresh ELSE problem[q]]
        /\ UNCHANGED sync
    BY <1>1 DEF SyncRead
  <2> HIDE DEF fresh
  <2>3. problem \in [DOMAIN problem -> ProblemRow]
    BY DEF RowsInv
  <2>4. QED BY <1>1, <2>1, <2>2, <2>3 DEF SyncRead
<1>2. CASE p \in DOMAIN problem
  BY <1>2 DEF SyncRead
<1>3. QED BY <1>1, <1>2

LEMMA SyncReadRows ==
  ASSUME RowsInv, NEW t \in Teacher, NEW p \in Problem, NEW entry \in Disk,
         SyncRead(t, p, entry)
  PROVE  RowsInv'
<1>1. UNCHANGED <<rules, openSections, shown, writes, overtaken>>
  BY SyncReadCases
<1>2. CASE UNCHANGED <<problem, sync>>
  BY <1>1, <1>2 DEF RowsInv, Uniform, Counted
<1>3. CASE /\ p \notin DOMAIN problem /\ UNCHANGED sync
           /\ DOMAIN problem' = DOMAIN problem \union {p}
           /\ problem' \in [DOMAIN problem' -> ProblemRow]
           /\ problem'[p].version = 1
           /\ \A q \in DOMAIN problem : problem'[q] = problem[q]
  <2>1. DOMAIN problem' \subseteq Problem
    BY <1>3 DEF RowsInv
  <2>2. \A q \in Problem : Counted(q)'
    <3> SUFFICES ASSUME NEW q \in Problem PROVE Counted(q)'
      OBVIOUS
    <3>1. Counted(q)
      BY DEF RowsInv
    <3>2. QED BY <1>1, <1>3, <3>1 DEF Counted
  <2>3. QED BY <1>1, <1>3, <2>1, <2>2 DEF RowsInv, Uniform
<1>4. CASE /\ p \in DOMAIN problem /\ UNCHANGED problem
           /\ sync' = [sync EXCEPT ![t] = [at |-> p, row |-> problem[p], entry |-> entry]]
  <2> DEFINE new == [at |-> p, row |-> problem[p], entry |-> entry]
  <2>1. new \in Syncs /\ new.at = p /\ new.row = problem[p]
    BY <1>4 DEF Syncs, RowsInv
  <2>2. sync' = [sync EXCEPT ![t] = new] /\ sync \in [Teacher -> Syncs]
    BY <1>4 DEF RowsInv
  <2> HIDE DEF new
  <2>3. sync' \in [Teacher -> Syncs]
    BY <2>1, <2>2
  <2>4. ASSUME NEW u \in Teacher, sync'[u].at # None
        PROVE  sync'[u].at \in DOMAIN problem /\ sync'[u].row.version <= writes[sync'[u].at] + 1
    <3>1. CASE u = t
      <4>1. sync'[u] = new
        BY <2>2, <3>1
      <4>2. problem[p].version <= writes[p] + 1
        BY <1>4 DEF RowsInv, Counted
      <4>3. QED BY <1>4, <2>1, <4>1, <4>2
    <3>2. CASE u # t
      <4>1. sync'[u] = sync[u]
        BY <2>2, <3>2
      <4>2. QED BY <2>4, <4>1 DEF RowsInv
    <3>3. QED BY <3>1, <3>2
  <2>5. QED BY <1>1, <1>4, <2>3, <2>4 DEF RowsInv, Uniform, Counted
<1>5. QED BY <1>2, <1>3, <1>4, SyncReadCases

\* What a sync saves into the row as it is by then.
LEMMA SyncSaveFacts ==
  ASSUME RowsInv, NEW t \in Teacher, SyncSave(t)
  PROVE  LET p == sync[t].at
             now == problem[p]
             read == sync[t].row
             new == Synced(read, sync[t].entry)
         IN  /\ p \in DOMAIN problem /\ p \in Problem /\ p # None
             /\ read \in ProblemRow /\ now \in ProblemRow
             /\ DOMAIN problem' = DOMAIN problem
             /\ problem' \in [DOMAIN problem -> ProblemRow]
             /\ \A q \in DOMAIN problem : q # p => problem'[q] = problem[q]
             /\ problem'[p].version = read.version + 1
             /\ problem'[p].section = now.section
             /\ problem'[p].tag = IF new.tag # read.tag THEN new.tag ELSE now.tag
             /\ problem'[p].suspended = now.suspended /\ problem'[p].archived = now.archived
             /\ new.tag = IF sync[t].entry.grade = None THEN read.tag ELSE sync[t].entry.grade
             /\ sync' = [sync EXCEPT ![t] = NoSync]
             /\ writes' = [writes EXCEPT ![p] = @ + 1]
             /\ overtaken' = IF now = read THEN overtaken ELSE overtaken \union {p}
             /\ UNCHANGED <<rules, openSections, shown>>
<1> DEFINE p == sync[t].at
           now == problem[p]
           read == sync[t].row
           entry == sync[t].entry
           new == Synced(read, entry)
           text == IF new.text # read.text THEN new.text ELSE now.text
           tag == IF new.tag # read.tag THEN new.tag ELSE now.tag
           row == [now EXCEPT !.text = text, !.tag = tag, !.version = read.version + 1]
<1>1. p # None /\ sync[t] \in Syncs /\ problem \in [DOMAIN problem -> ProblemRow]
  BY DEF SyncSave, RowsInv
<1>2. /\ p \in DOMAIN problem /\ p \in Problem /\ read.version <= writes[p] + 1
      /\ read \in ProblemRow /\ entry \in Disk /\ now \in ProblemRow
      /\ writes[p] \in Nat /\ writes[p] < MaxProblemWrites
  BY <1>1, SyncFacts DEF RowsInv, SyncSave
<1>3. /\ new \in ProblemRow
      /\ new.tag = IF entry.grade = None THEN read.tag ELSE entry.grade
  BY <1>2, DiskFacts DEF Synced, ProblemRow
<1>4. /\ problem' = [problem EXCEPT ![p].text = text, ![p].tag = tag, ![p].version = read.version + 1]
      /\ sync' = [sync EXCEPT ![t] = NoSync] /\ writes' = [writes EXCEPT ![p] = @ + 1]
      /\ overtaken' = IF now = read THEN overtaken ELSE overtaken \union {p}
      /\ UNCHANGED <<rules, openSections, shown>>
  BY <1>1, <1>2 DEF SyncSave
<1>5. text \in Text /\ tag \in Grade \union {None} /\ read.version + 1 \in 1..(MaxProblemWrites + 1)
  BY <1>2, <1>3, ProblemFields
<1> HIDE DEF text, tag, read, entry, new
<1>6. problem' = [problem EXCEPT ![p] = row]
  BY <1>1, <1>2, <1>4
<1>7. /\ row \in ProblemRow /\ row.version = read.version + 1 /\ row.section = now.section
      /\ row.tag = tag /\ row.suspended = now.suspended /\ row.archived = now.archived
  BY <1>2, <1>5 DEF ProblemRow
<1> HIDE DEF row
<1>8. /\ DOMAIN problem' = DOMAIN problem /\ problem'[p] = row
      /\ problem' \in [DOMAIN problem -> ProblemRow]
      /\ \A q \in DOMAIN problem : q # p => problem'[q] = problem[q]
  BY <1>1, <1>2, <1>6, <1>7
<1>9. QED BY <1>1, <1>2, <1>3, <1>4, <1>7, <1>8 DEF tag, read, entry, new

LEMMA SyncSaveRows ==
  ASSUME RowsInv, NEW t \in Teacher, SyncSave(t)
  PROVE  RowsInv'
<1> DEFINE p == sync[t].at
           read == sync[t].row
<1>1. /\ p \in Problem /\ p \in DOMAIN problem /\ DOMAIN problem' = DOMAIN problem
      /\ problem' \in [DOMAIN problem -> ProblemRow]
      /\ \A q \in DOMAIN problem : q # p => problem'[q] = problem[q]
      /\ read \in ProblemRow /\ problem'[p].version = read.version + 1
      /\ overtaken' = IF problem[p] = read THEN overtaken ELSE overtaken \union {p}
      /\ sync' = [sync EXCEPT ![t] = NoSync]
      /\ writes' = [writes EXCEPT ![p] = @ + 1]
      /\ UNCHANGED <<rules, openSections, shown>>
  BY SyncSaveFacts
<1>6. read.version <= writes[p] + 1 /\ read.version \in Nat
  BY <1>1, ProblemFields DEF RowsInv, SyncSave
<1> HIDE DEF p, read
<1>2. sync \in [Teacher -> Syncs] /\ writes \in [Problem -> Nat] /\ NoSync \in Syncs
      /\ NoSync.at = None
  BY DEF RowsInv, Syncs, NoSync
<1>3. sync' \in [Teacher -> Syncs] /\ writes' \in [Problem -> Nat]
  BY <1>1, <1>2
<1>4. ASSUME NEW u \in Teacher, sync'[u].at # None
      PROVE  sync'[u] = sync[u]
  BY <1>1, <1>2, <1>4
<1>5. writes'[p] = writes[p] + 1 /\ \A q \in Problem : q # p => writes'[q] = writes[q]
  BY <1>1, <1>2
<1>7. \A q \in Problem : Counted(q)'
  <2> SUFFICES ASSUME NEW q \in Problem PROVE Counted(q)'
    OBVIOUS
  <2>1. Counted(q)
    BY DEF RowsInv
  <2>2. CASE q = p
    <3>1. writes[p] \in Nat
      BY <1>1, <1>2
    <3>2. problem'[p].version <= writes'[p] + 1
      BY <1>1, <1>5, <1>6, <3>1
    <3>3. ASSUME p \notin overtaken' PROVE problem'[p].version = writes'[p] + 1
      <4>1. problem[p] = read /\ p \notin overtaken
        BY <1>1, <3>3
      <4>2. read.version = writes[p] + 1
        BY <1>1, <2>1, <2>2, <4>1 DEF Counted
      <4>3. QED BY <1>1, <1>5, <4>2
    <3>4. QED BY <1>1, <2>2, <3>2, <3>3 DEF Counted
  <2>3. CASE q # p
    <3>1. q \in overtaken' <=> q \in overtaken
      BY <1>1, <2>3
    <3>2. QED BY <1>1, <1>5, <2>1, <2>3, <3>1 DEF Counted
  <2>4. QED BY <2>2, <2>3
<1>8. ASSUME NEW u \in Teacher, sync'[u].at # None
      PROVE  /\ sync'[u].at \in DOMAIN problem'
             /\ sync'[u].row.version <= writes'[sync'[u].at] + 1
  <2>1. /\ sync'[u] = sync[u] /\ sync[u] \in Syncs /\ sync[u].at \in DOMAIN problem
        /\ sync[u].row.version <= writes[sync[u].at] + 1
    BY <1>4, <1>8 DEF RowsInv
  <2>2. sync[u].row.version \in Nat /\ sync[u].at \in Problem
    BY <1>8, <2>1, SyncFacts, ProblemFields
  <2>3. writes[sync[u].at] \in Nat /\ writes'[sync[u].at] \in {writes[sync[u].at], writes[sync[u].at] + 1}
    BY <1>2, <1>5, <2>2
  <2>4. QED BY <1>1, <2>1, <2>2, <2>3
<1>9. overtaken' \subseteq DOMAIN problem' /\ DOMAIN problem' \subseteq Problem
  BY <1>1 DEF RowsInv
<1>10. QED BY <1>1, <1>3, <1>7, <1>8, <1>9 DEF RowsInv, Uniform

LEMMA OtherRows ==
  ASSUME RowsInv, UNCHANGED <<problem, rules, sync, writes, overtaken>>,
         openSections' \subseteq Section, shown' = [t \in Teacher |-> shown'[t]]
  PROVE  RowsInv'
  BY DEF RowsInv, Uniform, Counted

LEMMA ShowFacts ==
  ASSUME NEW t \in Teacher, GetProblemList(t) \/ GetProblemDetail(t)
  PROVE  \E ps \in SUBSET DOMAIN problem : ShowProblems(t, ps)
<1>1. Listed(t) \subseteq DOMAIN problem
  BY DEF Listed
<1>2. \A p \in Listed(t) : {p} \in SUBSET DOMAIN problem
  BY <1>1
<1>3. QED BY <1>1, <1>2 DEF GetProblemList, GetProblemDetail

LEMMA ShownFunction ==
  ASSUME RowsInv, NEW t \in Teacher, NEW ps, ShowProblems(t, ps)
  PROVE  /\ shown' = [u \in Teacher |-> shown'[u]]
         /\ shown'[t] = [p \in ps |-> [version |-> problem[p].version, writes |-> writes[p]]]
         /\ \A u \in Teacher : u # t => shown'[u] = shown[u]
         /\ UNCHANGED <<problem, rules, openSections, sync, writes, overtaken>>
<1> DEFINE loaded == [p \in ps |-> [version |-> problem[p].version, writes |-> writes[p]]]
<1>1. /\ shown' = [shown EXCEPT ![t] = loaded]
      /\ UNCHANGED <<problem, rules, openSections, sync, writes, overtaken>>
  BY DEF ShowProblems
<1> HIDE DEF loaded
<1>2. shown = [u \in Teacher |-> shown[u]]
  BY DEF RowsInv
<1>3. /\ shown' = [u \in Teacher |-> shown'[u]] /\ shown'[t] = loaded
      /\ \A u \in Teacher : u # t => shown'[u] = shown[u]
  BY <1>1, <1>2
<1>4. QED BY <1>1, <1>3 DEF loaded

LEMMA TurnFacts ==
  ASSUME RowsInv, NEW s \in Section, TurnSection(s)
  PROVE  openSections' \subseteq Section /\ UNCHANGED <<problem, rules, shown, sync, writes, overtaken>>
  BY DEF RowsInv, TurnSection

LEMMA ProblemsNextCases ==
  ASSUME ProblemsNext
  PROVE  \/ \E t \in Teacher :
              \/ GetProblemList(t) \/ GetProblemDetail(t)
              \/ PatchProblem(t) \/ PatchPublication(t) \/ DeleteProblem(t) \/ PostProblemRestore(t)
              \/ \E p \in Problem, entry \in Disk : SyncRead(t, p, entry)
              \/ SyncSave(t)
         \/ \E s \in Section : TurnSection(s)
  BY DEF ProblemsNext, PostProblemSync

LEMMA NextRows ==
  ASSUME RowsInv, [ProblemsNext]_problemVars
  PROVE  RowsInv'
<1>1. CASE UNCHANGED problemVars
  <2>1. shown' = [t \in Teacher |-> shown'[t]] /\ openSections' \subseteq Section
    BY <1>1 DEF problemVars, RowsInv
  <2>2. QED BY <1>1, <2>1, OtherRows DEF problemVars
<1>2. ASSUME NEW t \in Teacher, GetProblemList(t) \/ GetProblemDetail(t)
      PROVE  RowsInv'
  <2>1. PICK ps : ShowProblems(t, ps)
    BY <1>2, ShowFacts
  <2>2. openSections' \subseteq Section
    BY <2>1, ShownFunction DEF RowsInv
  <2>3. QED BY <2>1, <2>2, ShownFunction, OtherRows
<1>3. ASSUME NEW t \in Teacher,
             PatchProblem(t) \/ PatchPublication(t) \/ DeleteProblem(t) \/ PostProblemRestore(t)
      PROVE  RowsInv'
  BY <1>3, ServiceWrites, WritesRows
<1>4. ASSUME NEW t \in Teacher, NEW p \in Problem, NEW entry \in Disk, SyncRead(t, p, entry)
      PROVE  RowsInv'
  BY <1>4, SyncReadRows
<1>5. ASSUME NEW t \in Teacher, SyncSave(t) PROVE RowsInv'
  BY <1>5, SyncSaveRows
<1>6. ASSUME NEW s \in Section, TurnSection(s) PROVE RowsInv'
  <2>1. shown' = [t \in Teacher |-> shown'[t]]
    BY <1>6, TurnFacts DEF RowsInv
  <2>2. QED BY <1>6, <2>1, TurnFacts, OtherRows
<1>7. CASE ProblemsNext
  BY <1>7, <1>2, <1>3, <1>4, <1>5, <1>6, ProblemsNextCases
<1>8. QED BY <1>1, <1>7

LEMMA InitRows == ProblemsInit => RowsInv
<1> SUFFICES ASSUME ProblemsInit PROVE RowsInv
  OBVIOUS
<1>1. /\ problem = << >> /\ rules = [p \in Problem |-> {}] /\ openSections = Section
      /\ shown = [t \in Teacher |-> << >>] /\ sync = [t \in Teacher |-> NoSync]
      /\ writes = [p \in Problem |-> 0] /\ overtaken = {}
  BY DEF ProblemsInit
<1>2. DOMAIN problem = {} /\ problem \in [{} -> ProblemRow]
  BY <1>1
<1>3. sync \in [Teacher -> Syncs] /\ \A t \in Teacher : sync[t].at = None
  BY <1>1 DEF Syncs, NoSync
<1>4. rules \in [Problem -> SUBSET Rule] /\ \A p \in Problem : Uniform(rules[p])
  BY <1>1 DEF Uniform
<1>5. writes \in [Problem -> Nat] /\ shown = [t \in Teacher |-> shown[t]]
  BY <1>1
<1>6. \A p \in Problem : Counted(p)
  BY <1>1, <1>2 DEF Counted
<1>7. QED BY <1>1, <1>2, <1>3, <1>4, <1>5, <1>6 DEF RowsInv

\* Uniform rules read the same from the managers' side and the students'.
LEMMA UniformShown == RowsInv => PublicationShown
<1> SUFFICES ASSUME RowsInv, NEW p \in DOMAIN problem, NEW g \in Grade,
                    ~problem[p].archived, ~problem[p].suspended, ~AllSchool(p),
                    NEW c \in Class
             PROVE  LET data == PublicationData(p, g)
                    IN  Sees(p, g, c) <=> data.visible /\ (data.allClasses \/ c \in data.classes)
  BY DEF PublicationShown
<1> DEFINE rs == OfGrade(rules[p], g)
           all == OfScope(rs, "grade_all")
           visible == Active(rs) # {}
           allClasses == all # {} /\ (Active(all) # {} \/ ~visible)
           classes == {r.class : r \in OfScope(rs, "class")}
<1>1. /\ PublicationData(p, g).visible = visible
      /\ PublicationData(p, g).allClasses = allClasses
      /\ PublicationData(p, g).classes = IF allClasses THEN {} ELSE classes
  BY DEF PublicationData
<1>2. /\ \A r \in rules[p] : r \in Rule
      /\ Uniform(rules[p])
  BY DEF RowsInv
<1>3. \A r \in rs : r \in rules[p] /\ r.grade = g /\ r \in Rule
  BY <1>2 DEF OfGrade
<1>4. \A r, s \in rs : r.active = s.active
  BY <1>2, <1>3 DEF Uniform
<1>5. \A r \in rs : r.scope = "grade_all" \/ (r.scope = "class" /\ r.class \in Class)
  <2> SUFFICES ASSUME NEW r \in rs
               PROVE  r.scope = "grade_all" \/ (r.scope = "class" /\ r.class \in Class)
    OBVIOUS
  <2>1. r \in Rule /\ r.grade = g /\ g # None
    BY <1>3
  <2>2. r.scope # "all_school"
    BY <2>1, RuleFacts
  <2>3. QED BY <2>1, <2>2, RuleFacts
<1>6. Sees(p, g, c) <=> \E r \in rs : /\ r.active
                                      /\ r.scope = "grade_all" \/ (r.scope = "class" /\ r.class = c)
  <2>1. \A r \in rules[p] : r.active => r.scope # "all_school"
    BY DEF AllSchool, Active, OfScope
  <2>2. QED BY <2>1 DEF Sees, Active, OfGrade
<1>7. /\ visible <=> \E r \in rs : r.active
      /\ all # {} <=> \E r \in rs : r.scope = "grade_all"
      /\ Active(all) # {} <=> \E r \in rs : r.scope = "grade_all" /\ r.active
      /\ c \in classes <=> \E r \in rs : r.scope = "class" /\ r.class = c
  BY DEF Active, OfScope
<1> HIDE DEF rs, all, visible, allClasses, classes
<1>8. CASE visible
  <2>1. \A r \in rs : r.active
    BY <1>4, <1>7, <1>8, <1>3, RuleFacts
  <2>2. allClasses <=> \E r \in rs : r.scope = "grade_all"
    BY <1>7, <1>8, <2>1 DEF allClasses
  <2>3. QED BY <1>1, <1>6, <1>7, <1>8, <2>1, <2>2
<1>9. CASE ~visible
  BY <1>1, <1>6, <1>7, <1>9
<1>10. QED BY <1>8, <1>9

\* What a manager is shown of a publication in her grade is what the students of
\* the grade see, after any decisions of teachers and administrators, syncs and
\* restorations, however transactions overlap: the rules of a grade are switched
\* on and off together.
THEOREM PublicationsAreShown == ProblemsSpec => []PublicationShown
<1>1. ProblemsInit => RowsInv
  BY InitRows
<1>2. RowsInv /\ [ProblemsNext]_problemVars => RowsInv'
  BY NextRows
<1>3. QED BY <1>1, <1>2, UniformShown, PTL DEF ProblemsSpec

-----------------------------------------------------------------------------
(* Versions, tags and pages *)

\* What a sync is about to save is of the grade of the section it read.
SyncsFit ==
  \A t \in Teacher : sync[t].at # None =>
    (sync[t].entry.grade # None /\ sync[t].row.section # None =>
       SectionGrade[sync[t].row.section] = sync[t].entry.grade)

\* The version on a page counts the writes its teacher has seen.
Seen(t, p) ==
  /\ p \in DOMAIN problem /\ shown[t][p].version \in Nat /\ shown[t][p].writes \in Nat
  /\ p \notin overtaken => shown[t][p].version = shown[t][p].writes + 1

PagesCount == \A t \in Teacher : \A p \in DOMAIN shown[t] : Seen(t, p)

\* What is shown to be inductive.
ProblemsIInv == RowsInv /\ TagFollowsUnlessOvertaken /\ SyncsFit /\ PagesCount

\* Problems are not deleted, and what was overtaken remains so.
LEMMA PagesStay ==
  ASSUME PagesCount, UNCHANGED shown,
         DOMAIN problem \subseteq DOMAIN problem', overtaken \subseteq overtaken'
  PROVE  PagesCount'
<1> SUFFICES ASSUME NEW t \in Teacher, NEW p \in DOMAIN shown'[t] PROVE Seen(t, p)'
  BY DEF PagesCount
<1>1. Seen(t, p)
  BY DEF PagesCount
<1>2. QED BY <1>1 DEF Seen

LEMMA WritesIInv ==
  ASSUME ProblemsIInv, NEW t \in Teacher, NEW p \in DOMAIN problem, NEW row, NEW rs,
         Writes(t, p, row, rs)
  PROVE  ProblemsIInv'
<1>1. RowsInv /\ RowsInv'
  BY WritesRows DEF ProblemsIInv
<1>2. /\ DOMAIN problem' = DOMAIN problem
      /\ problem'[p].section = row.section /\ problem'[p].tag = row.tag
      /\ \A q \in DOMAIN problem : q # p => problem'[q] = problem[q]
      /\ UNCHANGED <<shown, sync, overtaken>>
  BY <1>1, SavedRow
<1>3. TagFollowsUnlessOvertaken'
  <2> SUFFICES ASSUME NEW q \in DOMAIN problem \ overtaken PROVE Tagged(problem'[q])
    BY <1>2 DEF TagFollowsUnlessOvertaken, TagFollows, Tagged
  <2>1. Tagged(problem[p]) => Tagged(row)
    BY DEF Writes
  <2>2. Tagged(problem[q])
    BY DEF ProblemsIInv, TagFollowsUnlessOvertaken, TagFollows, Tagged
  <2>3. CASE q = p
    BY <1>2, <2>1, <2>2, <2>3 DEF Tagged
  <2>4. CASE q # p
    BY <1>2, <2>2, <2>4
  <2>5. QED BY <2>3, <2>4
<1>4. SyncsFit'
  BY <1>2 DEF ProblemsIInv, SyncsFit
<1>5. PagesCount'
  BY <1>2, PagesStay DEF ProblemsIInv
<1>6. QED BY <1>1, <1>3, <1>4, <1>5 DEF ProblemsIInv

LEMMA SyncReadIInv ==
  ASSUME ProblemsIInv, NEW t \in Teacher, NEW p \in Problem, NEW entry \in Disk,
         SyncRead(t, p, entry)
  PROVE  ProblemsIInv'
<1>1. RowsInv /\ RowsInv'
  BY SyncReadRows DEF ProblemsIInv
<1>2. UNCHANGED <<shown, overtaken>>
  BY <1>1, SyncReadCases
<1>3. /\ DOMAIN problem \subseteq DOMAIN problem'
      /\ \A q \in DOMAIN problem : problem'[q] = problem[q]
      /\ \A q \in DOMAIN problem' : q \notin DOMAIN problem => Tagged(problem'[q])
  <2>1. CASE UNCHANGED problem
    BY <2>1
  <2>2. CASE /\ DOMAIN problem' = DOMAIN problem \union {p} /\ Tagged(problem'[p])
             /\ \A q \in DOMAIN problem : problem'[q] = problem[q]
    BY <2>2
  <2>3. QED BY <1>1, <2>1, <2>2, SyncReadCases
<1>4. TagFollowsUnlessOvertaken'
  BY <1>2, <1>3 DEF ProblemsIInv, TagFollowsUnlessOvertaken, TagFollows, Tagged
<1>5. PagesCount'
  BY <1>2, <1>3, PagesStay DEF ProblemsIInv
<1>6. SyncsFit'
  <2>1. CASE UNCHANGED sync
    BY <2>1 DEF ProblemsIInv, SyncsFit
  <2>2. CASE /\ MaySync(t, problem[p], entry)
             /\ sync' = [sync EXCEPT ![t] = [at |-> p, row |-> problem[p], entry |-> entry]]
    <3>1. /\ sync'[t] = [at |-> p, row |-> problem[p], entry |-> entry]
          /\ \A u \in Teacher : u # t => sync'[u] = sync[u]
      BY <1>1, <2>2 DEF RowsInv
    <3>2. sync'[t].row = problem[p] /\ sync'[t].entry = entry
      BY <3>1
    <3>3. entry.grade # None /\ problem[p].section # None =>
            SectionGrade[problem[p].section] = entry.grade
      BY <2>2 DEF MaySync
    <3>4. QED BY <3>1, <3>2, <3>3 DEF ProblemsIInv, SyncsFit
  <2>3. QED BY <1>1, <2>1, <2>2, SyncReadCases
<1>7. QED BY <1>1, <1>4, <1>5, <1>6 DEF ProblemsIInv

LEMMA SyncSaveIInv ==
  ASSUME ProblemsIInv, NEW t \in Teacher, SyncSave(t)
  PROVE  ProblemsIInv'
<1> DEFINE p == sync[t].at
           entry == sync[t].entry
           read == sync[t].row
           now == problem[p]
           new == Synced(read, entry)
<1>1. RowsInv /\ RowsInv'
  BY SyncSaveRows DEF ProblemsIInv
<1>2. /\ p \in DOMAIN problem /\ p \in Problem /\ p # None
      /\ DOMAIN problem' = DOMAIN problem
      /\ \A q \in DOMAIN problem : q # p => problem'[q] = problem[q]
      /\ problem'[p].section = now.section
      /\ problem'[p].tag = IF new.tag # read.tag THEN new.tag ELSE now.tag
      /\ new.tag = IF entry.grade = None THEN read.tag ELSE entry.grade
      /\ sync' = [sync EXCEPT ![t] = NoSync]
      /\ overtaken' = IF now = read THEN overtaken ELSE overtaken \union {p}
      /\ UNCHANGED shown
  BY <1>1, SyncSaveFacts
<1>3. entry.grade # None /\ read.section # None => SectionGrade[read.section] = entry.grade
  BY <1>2 DEF ProblemsIInv, SyncsFit
<1> HIDE DEF p, entry, read, now, new
<1>4. TagFollowsUnlessOvertaken'
  <2> SUFFICES ASSUME NEW q \in DOMAIN problem, q \notin overtaken' PROVE Tagged(problem'[q])
    BY <1>2 DEF TagFollowsUnlessOvertaken, TagFollows, Tagged
  <2>1. q \notin overtaken
    BY <1>2
  <2>2. Tagged(problem[q])
    BY <2>1 DEF ProblemsIInv, TagFollowsUnlessOvertaken, TagFollows, Tagged
  <2>3. CASE q = p
    <3>1. now = read /\ Tagged(now)
      BY <1>2, <2>2, <2>3 DEF now
    <3>2. QED BY <1>2, <1>3, <2>3, <3>1 DEF Tagged
  <2>4. CASE q # p
    BY <1>2, <2>2, <2>4
  <2>5. QED BY <2>3, <2>4
<1>5. SyncsFit'
  <2>1. sync'[t].at = None /\ \A u \in Teacher : u # t => sync'[u] = sync[u]
    BY <1>1, <1>2 DEF RowsInv, NoSync
  <2>2. QED BY <2>1 DEF ProblemsIInv, SyncsFit
<1>6. PagesCount'
  <2>1. overtaken \subseteq overtaken'
    BY <1>2
  <2>2. QED BY <1>2, <2>1, PagesStay DEF ProblemsIInv
<1>7. QED BY <1>1, <1>4, <1>5, <1>6 DEF ProblemsIInv

LEMMA OtherIInv ==
  ASSUME ProblemsIInv, RowsInv', UNCHANGED <<problem, rules, sync, writes, overtaken>>, PagesCount'
  PROVE  ProblemsIInv'
  BY DEF ProblemsIInv, TagFollowsUnlessOvertaken, TagFollows, SyncsFit

\* A page that is loaded shows what has been written.
LEMMA ShowCounts ==
  ASSUME RowsInv, PagesCount, NEW t \in Teacher, NEW ps \in SUBSET DOMAIN problem,
         ShowProblems(t, ps)
  PROVE  PagesCount'
<1>1. /\ shown'[t] = [p \in ps |-> [version |-> problem[p].version, writes |-> writes[p]]]
      /\ \A u \in Teacher : u # t => shown'[u] = shown[u]
      /\ UNCHANGED <<problem, writes, overtaken>>
  BY ShownFunction
<1> SUFFICES ASSUME NEW u \in Teacher, NEW p \in DOMAIN shown'[u] PROVE Seen(u, p)'
  BY DEF PagesCount
<1>2. CASE u = t
  <2>1. /\ p \in ps /\ shown'[u][p].version = problem[p].version
        /\ shown'[u][p].writes = writes[p]
    BY <1>1, <1>2
  <2>2. p \in DOMAIN problem /\ p \in Problem
    BY <2>1 DEF RowsInv
  <2>3. problem[p].version \in Nat /\ writes[p] \in Nat /\ Counted(p)
    BY <2>2, ProblemFields DEF RowsInv
  <2>4. QED BY <1>1, <2>1, <2>2, <2>3 DEF Seen, Counted
<1>3. CASE u # t
  <2>1. Seen(u, p) /\ shown'[u] = shown[u]
    BY <1>1, <1>3 DEF PagesCount
  <2>2. QED BY <1>1, <2>1 DEF Seen
<1>4. QED BY <1>2, <1>3

LEMMA NextIInv ==
  ASSUME ProblemsIInv, [ProblemsNext]_problemVars
  PROVE  ProblemsIInv'
<1>1. RowsInv /\ RowsInv' /\ PagesCount
  BY NextRows DEF ProblemsIInv
<1>2. CASE UNCHANGED problemVars
  <2>1. PagesCount'
    BY <1>1, <1>2, PagesStay DEF problemVars
  <2>2. QED BY <1>1, <1>2, <2>1, OtherIInv DEF problemVars
<1>3. ASSUME NEW t \in Teacher, GetProblemList(t) \/ GetProblemDetail(t)
      PROVE  ProblemsIInv'
  <2>1. PICK ps \in SUBSET DOMAIN problem : ShowProblems(t, ps)
    BY <1>3, ShowFacts
  <2>2. PagesCount'
    BY <1>1, <2>1, ShowCounts
  <2>3. QED BY <1>1, <2>1, <2>2, ShownFunction, OtherIInv
<1>4. ASSUME NEW t \in Teacher,
             PatchProblem(t) \/ PatchPublication(t) \/ DeleteProblem(t) \/ PostProblemRestore(t)
      PROVE  ProblemsIInv'
  BY <1>1, <1>4, ServiceWrites, WritesIInv
<1>5. ASSUME NEW t \in Teacher, NEW p \in Problem, NEW entry \in Disk, SyncRead(t, p, entry)
      PROVE  ProblemsIInv'
  BY <1>5, SyncReadIInv
<1>6. ASSUME NEW t \in Teacher, SyncSave(t) PROVE ProblemsIInv'
  BY <1>6, SyncSaveIInv
<1>7. ASSUME NEW s \in Section, TurnSection(s) PROVE ProblemsIInv'
  <2>1. UNCHANGED <<problem, rules, shown, sync, writes, overtaken>>
    BY <1>1, <1>7, TurnFacts
  <2>2. PagesCount'
    BY <1>1, <2>1, PagesStay
  <2>3. QED BY <1>1, <2>1, <2>2, OtherIInv
<1>8. CASE ProblemsNext
  BY <1>8, <1>3, <1>4, <1>5, <1>6, <1>7, ProblemsNextCases
<1>9. QED BY <1>2, <1>8

LEMMA InitIInv == ProblemsInit => ProblemsIInv
<1> SUFFICES ASSUME ProblemsInit PROVE ProblemsIInv
  OBVIOUS
<1>1. /\ problem = << >> /\ shown = [t \in Teacher |-> << >>]
      /\ sync = [t \in Teacher |-> NoSync]
  BY DEF ProblemsInit
<1>2. DOMAIN problem = {} /\ \A t \in Teacher : sync[t].at = None /\ DOMAIN shown[t] = {}
  BY <1>1 DEF NoSync
<1>3. RowsInv
  BY InitRows
<1>4. QED BY <1>2, <1>3 DEF ProblemsIInv, TagFollowsUnlessOvertaken, SyncsFit, PagesCount

\* Rows keep their type and the tag of a problem follows its section, whatever edits and
\* syncs overlap, until a sync saves over a change it has not read: else it saves a grade
\* into the very row it compared.
THEOREM ProblemsHoldTogether == ProblemsSpec => []ProblemsInv
<1>1. ProblemsIInv => ProblemsInv
  <2>1. ASSUME RowsInv PROVE ProblemsTypeOK
    <3>1. \A t \in Teacher : sync[t].at = None \/ sync[t].row \in ProblemRow
      BY <2>1, SyncFacts DEF RowsInv
    <3>2. QED BY <2>1, <3>1 DEF RowsInv, ProblemsTypeOK
  <2>2. QED BY <2>1 DEF ProblemsIInv, ProblemsInv
<1>2. ProblemsIInv /\ [ProblemsNext]_problemVars => ProblemsIInv'
  BY NextIInv
<1>3. QED BY <1>1, <1>2, InitIInv, PTL DEF ProblemsSpec

\* A manager whose page shows the current version has seen all that was written, whatever
\* edits, decisions and syncs overlap, until a sync saves over a change it has not read:
\* the version of the row and the one on the page both count writes.
THEOREM VersionsTellProblems == ProblemsSpec => []VersionTellsUnlessOvertaken
<1>1. ASSUME ProblemsIInv, NEW t \in Teacher, NEW p \in DOMAIN shown[t] \ overtaken
      PROVE  ToldByVersion(t, p)
  <2>1. Seen(t, p)
    BY <1>1 DEF ProblemsIInv, PagesCount
  <2>2. p \in Problem /\ Counted(p) /\ writes[p] \in Nat
    BY <1>1, <2>1 DEF ProblemsIInv, RowsInv, Seen
  <2>3. QED BY <1>1, <2>1, <2>2 DEF Seen, Counted, ToldByVersion
<1>2. ProblemsIInv => VersionTellsUnlessOvertaken
  BY <1>1 DEF VersionTellsUnlessOvertaken
<1>3. ProblemsIInv /\ [ProblemsNext]_problemVars => ProblemsIInv'
  BY NextIInv
<1>4. QED BY <1>2, <1>3, InitIInv, PTL DEF ProblemsSpec

\* Who may see a problem depends on these.
LEMMA SeesSame ==
  ASSUME NEW p \in DOMAIN problem, NEW g, NEW c,
         problem'[p].archived = problem[p].archived,
         problem'[p].suspended = problem[p].suspended,
         rules'[p] = rules[p], Sees(p, g, c)'
  PROVE  Sees(p, g, c)
  BY DEF Sees, Active

\* A decision on the audience of p, and what it lets be seen.
LEMMA RevealedByAudience ==
  ASSUME ProblemsIInv, NEW t \in Teacher, NEW p \in DOMAIN problem, UpdateProblemAudience(t, p),
         NEW g \in Grade, NEW c \in Class, Sees(p, g, c)', ~Sees(p, g, c)
  PROVE  DecidedFor(p, g)
<1>1. RowsInv /\ problem[p] \in ProblemRow /\ p \in Problem /\ rules[p] \in SUBSET Rule
      /\ problem \in [DOMAIN problem -> ProblemRow] /\ rules \in [Problem -> SUBSET Rule]
      /\ ManagedGrade[t] \in Grade
  BY DEF ProblemsIInv, RowsInv
<1>2. PICK row, rs :
        /\ Writes(t, p, row, rs) /\ row = [problem[p] EXCEPT !.suspended = row.suspended]
        /\ t \notin Admin =>
             /\ row.suspended = problem[p].suspended
             /\ \A r \in Rule : r.grade # ManagedGrade[t] => (r \in rs <=> r \in rules[p])
  BY <1>1, AudienceWrites
<1>3. /\ problem'[p].suspended = row.suspended /\ rules' = [rules EXCEPT ![p] = rs]
      /\ UNCHANGED sync
  BY <1>1, <1>2, SavedRow
<1>4. rules'[p] = rs /\ rs \in SUBSET Rule
  BY <1>1, <1>2, <1>3 DEF Writes
<1>5. ~problem[p].archived
  BY DEF UpdateProblemAudience
<1>6. problem'[p] = [row EXCEPT !.version = @ + 1]
  <2>1. problem' = [problem EXCEPT ![p] = [row EXCEPT !.version = @ + 1]]
    BY <1>2 DEF Writes, SaveProblem
  <2>2. QED BY <1>1, <2>1
<1>7. row.version = problem[p].version
  BY <1>2 DEF Writes
<1>8. problem'[p] = [problem[p] EXCEPT !.suspended = problem'[p].suspended, !.version = @ + 1]
  <2>1. problem'[p] = [[problem[p] EXCEPT !.suspended = row.suspended]
                         EXCEPT !.version = problem[p].version + 1]
    BY <1>2, <1>6, <1>7
  <2>2. QED BY <1>3, <2>1
<1>9. /\ p \in DOMAIN shown[t] /\ shown[t][p].version = problem[p].version
      /\ p \notin overtaken => shown[t][p].writes = writes[p]
  <2>1. p \in DOMAIN shown[t] /\ shown[t][p].version = problem[p].version
    BY <1>2 DEF Writes, CheckProblemVersion
  <2>2. Seen(t, p) /\ Counted(p) /\ writes[p] \in Nat
    BY <1>1, <2>1 DEF ProblemsIInv, PagesCount, RowsInv
  <2>3. QED BY <2>1, <2>2 DEF Seen, Counted
<1>10. ASSUME t \notin Admin
       PROVE  /\ ManagedGrade[t] = g
              /\ rules[p] \ OfGrade(rules[p], g) = rules'[p] \ OfGrade(rules'[p], g)
  <2>1. \A r \in Rule : r.grade # ManagedGrade[t] => (r \in rules'[p] <=> r \in rules[p])
    BY <1>2, <1>4, <1>10
  <2>2. ManagedGrade[t] = g
    <3>1. SUFFICES ASSUME ManagedGrade[t] # g PROVE FALSE
      OBVIOUS
    <3>2. ~problem'[p].suspended
      BY DEF Sees
    <3>3. PICK r \in rules'[p] : /\ r.active
                                 /\ \/ r.scope = "all_school"
                                    \/ r.scope = "grade_all" /\ r.grade = g
                                    \/ r.scope = "class" /\ r.grade = g /\ r.class = c
      BY DEF Sees, Active
    <3>4. r \in Rule
      BY <1>4
    <3>5. r.grade # ManagedGrade[t]
      <4>1. r.grade = None \/ r.grade = g
        BY <3>3, <3>4, RuleFacts
      <4>2. QED BY <1>1, <3>1, <4>1
    <3>6. r \in rules[p]
      BY <2>1, <3>4, <3>5
    <3>7. ~problem[p].suspended
      BY <1>2, <1>3, <1>10, <3>2
    <3>8. QED BY <1>5, <3>3, <3>6, <3>7 DEF Sees, Active
  <2>3. QED BY <1>4, <1>1, <2>1, <2>2 DEF OfGrade
<1>11. t \notin Admin => problem'[p].suspended = problem[p].suspended
  BY <1>2, <1>3
<1>12. QED BY <1>3, <1>5, <1>8, <1>9, <1>10, <1>11 DEF DecidedFor

LEMMA RevealedByStep ==
  ASSUME ProblemsIInv, [ProblemsNext]_problemVars,
         NEW p \in DOMAIN problem, NEW g \in Grade, NEW c \in Class,
         Sees(p, g, c)', ~Sees(p, g, c)
  PROVE  \E t \in Teacher : UpdateProblemAudience(t, p)
<1>1. RowsInv
  BY DEF ProblemsIInv
<1>2. \/ problem'[p].archived # problem[p].archived
      \/ problem'[p].suspended # problem[p].suspended
      \/ rules'[p] # rules[p]
  BY SeesSame
<1>3. ~UNCHANGED <<problem, rules>>
  BY <1>2
<1>4. ASSUME NEW t \in Teacher, NEW q \in Problem, NEW entry \in Disk, SyncRead(t, q, entry)
      PROVE  FALSE
  BY <1>1, <1>2, <1>4, SyncReadCases
<1>5. ASSUME NEW t \in Teacher, SyncSave(t) PROVE FALSE
  <2>1. CASE p = sync[t].at
    BY <1>1, <1>2, <1>5, <2>1, SyncSaveFacts
  <2>2. CASE p # sync[t].at
    BY <1>1, <1>2, <1>5, <2>2, SyncSaveFacts
  <2>3. QED BY <2>1, <2>2
<1>6. ASSUME NEW t \in Teacher, NEW q \in DOMAIN problem, NEW row, NEW rs, Writes(t, q, row, rs)
      PROVE  q = p
  <2>1. SUFFICES ASSUME q # p PROVE FALSE
    OBVIOUS
  <2>2. problem'[p] = problem[p] /\ rules' = [rules EXCEPT ![q] = rs]
    BY <1>1, <1>6, <2>1, SavedRow
  <2>3. rules'[p] = rules[p]
    BY <1>1, <2>1, <2>2 DEF RowsInv
  <2>4. QED BY <1>2, <2>2, <2>3
<1>7. ASSUME NEW t \in Teacher, PatchProblem(t) PROVE FALSE
  <2>1. PICK q \in DOMAIN problem, x \in Text : \E place : EditProblemContent(t, q, x, place)
    BY <1>7 DEF PatchProblem
  <2>2. PICK row : /\ Writes(t, q, row, rules[q])
                   /\ row.suspended = problem[q].suspended /\ row.archived = problem[q].archived
    BY <1>1, <2>1, EditWrites
  <2>3. q = p
    BY <1>6, <2>2
  <2>4. /\ problem'[p].suspended = row.suspended /\ problem'[p].archived = row.archived
        /\ rules' = [rules EXCEPT ![p] = rules[p]]
    BY <1>1, <2>2, <2>3, SavedRow
  <2>5. rules'[p] = rules[p]
    BY <1>1, <2>4 DEF RowsInv
  <2>6. QED BY <1>2, <2>2, <2>3, <2>4, <2>5
<1>8. ASSUME NEW t \in Teacher, DeleteProblem(t) \/ PostProblemRestore(t) PROVE FALSE
  <2>1. PICK q \in DOMAIN problem : ArchiveProblem(t, q) \/ RestoreProblem(t, q)
    BY <1>8 DEF DeleteProblem, PostProblemRestore
  <2>2. PICK row : Writes(t, q, row, rules[q]) /\ (row.archived \/ row.suspended)
    BY <1>1, <2>1, ArchiveWrites
  <2>3. problem'[q].suspended = row.suspended /\ problem'[q].archived = row.archived
    BY <1>1, <2>2, SavedRow
  <2>4. q = p
    BY <1>6, <2>2
  <2>5. ~problem'[p].archived /\ ~problem'[p].suspended
    BY DEF Sees
  <2>6. QED BY <2>2, <2>3, <2>4, <2>5
<1>9. ASSUME NEW t \in Teacher, PatchPublication(t)
      PROVE  UpdateProblemAudience(t, p)
  <2>1. PICK q \in DOMAIN problem : UpdateProblemAudience(t, q)
    BY <1>9 DEF PatchPublication
  <2>2. \E row, rs : Writes(t, q, row, rs)
    BY <1>1, <2>1, AudienceWrites
  <2>3. QED BY <1>6, <2>1, <2>2
<1>10. ASSUME NEW t \in Teacher, GetProblemList(t) \/ GetProblemDetail(t) PROVE FALSE
  BY <1>1, <1>3, <1>10, ShowFacts, ShownFunction
<1>11. ASSUME NEW s \in Section, TurnSection(s) PROVE FALSE
  BY <1>1, <1>3, <1>11, TurnFacts
<1>12. ProblemsNext
  BY <1>3 DEF problemVars
<1>13. QED
  BY <1>12, <1>4, <1>5, <1>7, <1>8, <1>9, <1>10, <1>11, ProblemsNextCases

\* A class begins to see a problem only by a decision on its audience: an administrator's,
\* or for the teacher's own grade, of somebody who had the current version before her, and
\* what was written last unless a sync saved over a change.
THEOREM RevealedOnPurpose == ProblemsSpec => RevealedByItsManagers
<1>1. ProblemsIInv /\ [ProblemsNext]_problemVars =>
        [\A p \in DOMAIN problem, g \in Grade, c \in Class :
           Sees(p, g, c)' /\ ~Sees(p, g, c) => DecidedFor(p, g)]_problemVars
  <2> SUFFICES ASSUME ProblemsIInv, [ProblemsNext]_problemVars,
                      NEW p \in DOMAIN problem, NEW g \in Grade, NEW c \in Class,
                      Sees(p, g, c)', ~Sees(p, g, c)
               PROVE  DecidedFor(p, g)
    OBVIOUS
  <2>1. PICK t \in Teacher : UpdateProblemAudience(t, p)
    BY RevealedByStep
  <2>2. QED BY <2>1, RevealedByAudience
<1>2. ProblemsIInv /\ [ProblemsNext]_problemVars => ProblemsIInv'
  BY NextIInv
<1>3. QED BY <1>1, <1>2, InitIInv, PTL DEF ProblemsSpec, RevealedByItsManagers
-----------------------------------------------------------------------------
(* The question bank: what is shown to be inductive *)

USE BankAssumption

\* The transactions a teacher can have under way.
Transactions ==
  {Idle}
    \union [table : {"unit"}, id : Unit \union {None}, rows : SUBSET UnitRow,
            locks : SUBSET (Unit \union Question)]
    \union [table : {"question"}, id : Question \union {None}, rows : SUBSET QuestionRow,
            locks : SUBSET (Unit \union Question)]

\* Every variable has its type, and all ids in use were issued.
BankTypes ==
  /\ Units \subseteq Unit /\ unit \in [Units -> UnitRow]
  /\ Questions \subseteq Question /\ question \in [Questions -> QuestionRow]
  /\ issued \subseteq Unit \union Question /\ Units \union Questions \subseteq issued
  /\ page = [t \in Teacher |-> page[t]]
  /\ \A t \in Teacher : /\ page[t] \in [DOMAIN page[t] -> QuestionRow]
                        /\ DOMAIN page[t] \subseteq issued
  /\ pending \in [Teacher -> Transactions]

\* No row is locked by two transactions.
LocksApart ==
  \A t, o \in Teacher : t # o => pending[t].locks \cap pending[o].locks = {}

\* A unit that is about to be written fits the units there are: its parent, if
\* it is still there, is of its grade.  A unit that is written anew is still
\* there, locked, and gets no section while it becomes one.
UnitSaved(t) ==
  pending[t].table = "unit" =>
    \A row \in pending[t].rows :
      /\ row.parent # None =>
           /\ row.parent \in issued
           /\ row.parent \in Units => unit[row.parent].grade = row.grade
      /\ pending[t].id # None =>
           /\ pending[t].id \in Units \cap pending[t].locks
           /\ unit[pending[t].id].grade = row.grade
           /\ row.parent # pending[t].id
           /\ row.parent # None => ~HasSections(pending[t].id)

\* Its page showed t the question q as it is, and t may change it.
Shown(t, q) ==
  q \in DOMAIN page[t] /\ page[t][q] = question[q] /\ CheckOwner(t, q)

\* A question that is about to be written anew is still there, locked, and as
\* the teacher's page showed it.
QuestionSaved(t) ==
  pending[t].table = "question" /\ pending[t].id # None =>
    /\ pending[t].id \in Questions \cap pending[t].locks
    /\ Shown(t, pending[t].id)
    /\ \A row \in pending[t].rows : row.version = question[pending[t].id].version + 1

\* A page shows a version that is past, or the question as it is.
PagesPast ==
  \A t \in Teacher : \A q \in DOMAIN page[t] \cap Questions :
    \/ page[t][q] = question[q]
    \/ page[t][q].version < question[q].version

\* What is shown to be inductive.
BankIInv ==
  /\ BankTypes /\ LocksApart
  /\ \A t \in Teacher : UnitSaved(t) /\ QuestionSaved(t)
  /\ UnitsFormForest /\ QuestionsHaveUnits /\ PagesPast

LEMMA TransactionFacts ==
  ASSUME NEW x \in Transactions
  PROVE  /\ x.table \in {"none", "unit", "question"}
         /\ x.locks \in SUBSET (Unit \union Question)
         /\ x.table = "none" => x = Idle
         /\ x.table = "unit" => x.id \in Unit \union {None} /\ x.rows \in SUBSET UnitRow
         /\ x.table = "question" => x.id \in Question \union {None} /\ x.rows \in SUBSET QuestionRow
  BY DEF Transactions, Idle

LEMMA IdleFacts ==
  Idle \in Transactions /\ Idle.table = "none" /\ Idle.locks = {} /\ Idle.rows = {}
  BY DEF Transactions, Idle

LEMMA UnitFields ==
  ASSUME NEW row \in UnitRow
  PROVE  row.grade \in Grade /\ row.parent \in Unit \union {None} /\ row.archived \in BOOLEAN
  BY DEF UnitRow

LEMMA QuestionFields ==
  ASSUME NEW row \in QuestionRow
  PROVE  /\ row.unit \in Unit /\ row.content \in Content /\ row.owner \in Teacher
         /\ row.version \in 1..MaxVersion /\ row.version \in Nat /\ row.archived \in BOOLEAN
  BY DEF QuestionRow

-----------------------------------------------------------------------------
(* What a step may leave behind *)

\* Transactions end, and none begins.
NoneBegins == \A o \in Teacher : pending'[o] = pending[o] \/ pending'[o] = Idle

LEMMA LocksKept ==
  ASSUME LocksApart, NoneBegins
  PROVE  LocksApart'
  BY IdleFacts DEF LocksApart, NoneBegins

\* Units stay or are new, of their grade; those that are about to be written
\* stay and get no sections.
LEMMA UnitSavedKept ==
  ASSUME NEW o \in Teacher, UnitSaved(o), pending'[o] = pending[o] \/ pending'[o] = Idle,
         Units \subseteq issued, issued \subseteq issued',
         \A v \in Units' : \/ v \in Units /\ unit'[v].grade = unit[v].grade
                           \/ v \notin issued,
         pending'[o] = pending[o] /\ pending[o].id # None /\ pending[o].id \in Units \cap pending[o].locks =>
           /\ pending[o].id \in Units'
           /\ \A v \in Units' : unit'[v].parent = pending[o].id =>
                v \in Units /\ unit[v].parent = pending[o].id
  PROVE  UnitSaved(o)'
<1>1. CASE pending'[o] = Idle
  BY <1>1, IdleFacts DEF UnitSaved
<1>2. CASE pending'[o] = pending[o]
  <2> SUFFICES ASSUME pending[o].table = "unit", NEW row \in pending[o].rows
               PROVE  /\ row.parent # None =>
                           /\ row.parent \in issued'
                           /\ row.parent \in Units' => unit'[row.parent].grade = row.grade
                      /\ pending[o].id # None =>
                           /\ pending[o].id \in Units' \cap pending[o].locks
                           /\ unit'[pending[o].id].grade = row.grade
                           /\ row.parent # pending[o].id
                           /\ row.parent # None => ~HasSections(pending[o].id)'
    BY <1>2 DEF UnitSaved
  <2>1. row.parent # None =>
          /\ row.parent \in issued'
          /\ row.parent \in Units' => unit'[row.parent].grade = row.grade
    BY DEF UnitSaved
  <2>2. ASSUME pending[o].id # None
        PROVE  /\ pending[o].id \in Units' \cap pending[o].locks
               /\ unit'[pending[o].id].grade = row.grade
               /\ row.parent # pending[o].id
               /\ row.parent # None => ~HasSections(pending[o].id)'
    <3>1. /\ pending[o].id \in Units \cap pending[o].locks
          /\ unit[pending[o].id].grade = row.grade
          /\ row.parent # pending[o].id
          /\ row.parent # None => ~HasSections(pending[o].id)
      BY <2>2 DEF UnitSaved
    <3>2. /\ pending[o].id \in Units'
          /\ \A v \in Units' : unit'[v].parent = pending[o].id =>
               v \in Units /\ unit[v].parent = pending[o].id
      BY <1>2, <2>2, <3>1
    <3>3. unit'[pending[o].id].grade = unit[pending[o].id].grade
      BY <3>1, <3>2
    <3>4. row.parent # None => ~HasSections(pending[o].id)'
      BY <1>2, <3>1, <3>2 DEF HasSections
    <3>5. QED BY <3>1, <3>2, <3>3, <3>4
  <2>3. QED BY <2>1, <2>2
<1>3. QED BY <1>1, <1>2

LEMMA QuestionSavedKept ==
  ASSUME NEW o \in Teacher, QuestionSaved(o), pending'[o] = pending[o] \/ pending'[o] = Idle,
         pending'[o] = pending[o] /\ pending[o].table = "question" /\ pending[o].id # None
           /\ pending[o].id \in Questions \cap pending[o].locks =>
             /\ pending[o].id \in Questions' /\ question'[pending[o].id] = question[pending[o].id]
             /\ page'[o] = page[o]
  PROVE  QuestionSaved(o)'
<1>1. CASE pending'[o] = Idle
  BY <1>1, IdleFacts DEF QuestionSaved
<1>2. CASE pending'[o] = pending[o]
  BY <1>2 DEF QuestionSaved, Shown, CheckOwner
<1>3. QED BY <1>1, <1>2

\* Questions stay, are new, or have the next version.
QuestionsAdvance ==
  \A q \in Questions' :
    \/ q \notin issued
    \/ q \in Questions /\ (\/ question'[q] = question[q]
                           \/ question'[q].version = question[q].version + 1)

LEMMA PagesKept ==
  ASSUME BankTypes, PagesPast, QuestionsAdvance, UNCHANGED page
  PROVE  PagesPast'
<1> SUFFICES ASSUME NEW t \in Teacher, NEW q \in DOMAIN page[t] \cap Questions'
             PROVE  page[t][q] = question'[q] \/ page[t][q].version < question'[q].version
  BY DEF PagesPast
<1>1. q \in issued
  BY DEF BankTypes
<1>2. /\ q \in Questions
      /\ question'[q] = question[q] \/ question'[q].version = question[q].version + 1
  BY <1>1 DEF QuestionsAdvance
<1>3. page[t][q] = question[q] \/ page[t][q].version < question[q].version
  BY <1>2 DEF PagesPast
<1>4. page[t][q].version \in Nat /\ question[q].version \in Nat
  BY <1>2, QuestionFields DEF BankTypes
<1>5. QED BY <1>2, <1>3, <1>4

\* The forest does not see names and archived units.
LEMMA ForestSame ==
  ASSUME UnitsFormForest, Units' = Units,
         \A v \in Units : unit'[v].parent = unit[v].parent /\ unit'[v].grade = unit[v].grade
  PROVE  UnitsFormForest'
<1>1. \A u \in Units' : unit'[u].parent # None =>
        unit'[u].parent \in Units' /\ unit'[unit'[u].parent].grade = unit'[u].grade
  BY DEF UnitsFormForest
<1>2. \A S \in SUBSET Units' : S # {} => \E u \in S : unit'[u].parent \notin S
  BY DEF UnitsFormForest
<1>3. QED BY <1>1, <1>2 DEF UnitsFormForest, Units

\* A unit without sections may go.
LEMMA ForestLoses ==
  ASSUME UnitsFormForest, NEW u \in Units, ~HasSections(u),
         Units' = Units \ {u}, \A v \in Units' : unit'[v] = unit[v]
  PROVE  UnitsFormForest'
<1>1. \A v \in Units' : unit'[v].parent # None =>
        unit'[v].parent \in Units' /\ unit'[unit'[v].parent].grade = unit'[v].grade
  BY DEF UnitsFormForest, HasSections
<1>2. \A S \in SUBSET Units' : S # {} => \E v \in S : unit'[v].parent \notin S
  BY DEF UnitsFormForest
<1>3. QED BY <1>1, <1>2 DEF UnitsFormForest, Units

\* A unit is written that is new or has no sections, unless it has no parent.
LEMMA ForestGrows ==
  ASSUME BankTypes, UnitsFormForest, NEW u \in Unit, NEW row \in UnitRow,
         Units' = Units \union {u}, unit'[u] = row, \A v \in Units : v # u => unit'[v] = unit[v],
         u \in Units => row.grade = unit[u].grade,
         row.parent \in Units \union {None}, row.parent # u,
         row.parent # None => ~HasSections(u) /\ unit[row.parent].grade = row.grade
  PROVE  UnitsFormForest'
<1>1. ASSUME NEW v \in Units', unit'[v].parent # None
      PROVE  unit'[v].parent \in Units' /\ unit'[unit'[v].parent].grade = unit'[v].grade
  <2>1. CASE v = u
    BY <1>1, <2>1
  <2>2. CASE v # u
    <3>1. v \in Units /\ unit'[v] = unit[v]
      BY <2>2
    <3>2. unit[v].parent \in Units /\ unit[unit[v].parent].grade = unit[v].grade
      BY <1>1, <3>1 DEF UnitsFormForest
    <3>3. unit'[unit[v].parent].grade = unit[unit[v].parent].grade
      BY <3>2
    <3>4. QED BY <3>1, <3>2, <3>3
  <2>3. QED BY <2>1, <2>2
<1>2. ASSUME NEW S \in SUBSET Units', S # {}
      PROVE  \E v \in S : unit'[v].parent \notin S
  <2>1. CASE u \notin S
    <3>1. S \in SUBSET Units
      BY <2>1
    <3>2. QED BY <1>2, <2>1, <3>1 DEF UnitsFormForest
  <2>2. CASE u \in S /\ row.parent \notin S
    BY <2>2
  <2>3. CASE u \in S /\ row.parent \in S
    <3> DEFINE T == S \ {u}
    <3>1. row.parent # None
      BY <1>2, <2>3 DEF BankTypes
    <3>2. T \in SUBSET Units /\ row.parent \in T
      BY <2>3
    <3>3. PICK v \in T : unit[v].parent \notin T
      BY <3>2 DEF UnitsFormForest
    <3>4. unit[v].parent # u
      BY <3>1, <3>2 DEF HasSections
    <3>5. v \in S /\ unit'[v] = unit[v] /\ unit[v].parent \notin S
      BY <3>2, <3>3, <3>4
    <3>6. QED BY <3>5
  <2>4. QED BY <2>1, <2>2, <2>3
<1>3. QED BY <1>1, <1>2 DEF UnitsFormForest, Units

-----------------------------------------------------------------------------
(* The checks of a service: they read rows, lock some and write none *)

\* A transaction that has been checked.
Ready(t, x) ==
  /\ pending[t] = Idle /\ Free(t, x.locks) /\ x \in Transactions
  /\ x.table = "unit" =>
       \A row \in x.rows :
         /\ row.parent # None =>
              row.parent \in issued /\ unit[row.parent].grade = row.grade
         /\ x.id # None =>
              /\ x.id \in Units \cap x.locks
              /\ unit[x.id].grade = row.grade
              /\ row.parent # x.id
              /\ row.parent # None => ~HasSections(x.id)
  /\ x.table = "question" /\ x.id # None =>
       /\ x.id \in Questions \cap x.locks
       /\ Shown(t, x.id)
       /\ \A row \in x.rows : row.version = question[x.id].version + 1

LEMMA CheckedInductive ==
  ASSUME BankIInv, NEW t \in Teacher, NEW table, NEW id, NEW rows, NEW locks,
         Ready(t, [table |-> table, id |-> id, rows |-> rows, locks |-> locks]),
         Prepare(t, table, id, rows, locks)
  PROVE  BankIInv'
<1> DEFINE x == [table |-> table, id |-> id, rows |-> rows, locks |-> locks]
<1>1. x.table = table /\ x.id = id /\ x.rows = rows /\ x.locks = locks
  OBVIOUS
<1>2. Ready(t, x) /\ pending' = [pending EXCEPT ![t] = x]
  BY DEF Prepare
<1> HIDE DEF x
<1>3. UNCHANGED <<unit, question, issued, page>>
  BY DEF Prepare
<1>4. pending'[t] = x /\ \A o \in Teacher \ {t} : pending'[o] = pending[o]
  BY <1>2 DEF BankIInv, BankTypes
<1>5. BankTypes'
  BY <1>2, <1>3 DEF BankIInv, BankTypes, Units, Questions, Ready
<1>6. LocksApart'
  <2> SUFFICES ASSUME NEW a \in Teacher, NEW b \in Teacher, a # b
               PROVE  pending'[a].locks \cap pending'[b].locks = {}
    BY DEF LocksApart
  <2>1. \A o \in Teacher \ {t} : pending[o].locks \cap x.locks = {}
    BY <1>2 DEF Ready, Free
  <2>2. pending[a].locks \cap pending[b].locks = {}
    BY DEF BankIInv, LocksApart
  <2>3. QED BY <1>4, <2>1, <2>2
<1>7. ASSUME NEW o \in Teacher
      PROVE  UnitSaved(o)' /\ QuestionSaved(o)'
  <2>1. CASE o = t
    <3>1. UnitSaved(t)'
      BY <1>2, <1>3, <1>4 DEF UnitSaved, Ready, HasSections, Units
    <3>2. QuestionSaved(t)'
      BY <1>2, <1>3, <1>4 DEF QuestionSaved, Ready, Shown, CheckOwner, Questions
    <3>3. QED BY <2>1, <3>1, <3>2
  <2>2. CASE o # t
    <3>1. pending'[o] = pending[o] /\ UnitSaved(o) /\ QuestionSaved(o)
      BY <1>4, <2>2 DEF BankIInv
    <3>2. UnitSaved(o)'
      BY <1>3, <3>1 DEF UnitSaved, HasSections, Units
    <3>3. QuestionSaved(o)'
      BY <1>3, <3>1 DEF QuestionSaved, Shown, CheckOwner, Questions
    <3>4. QED BY <3>2, <3>3
  <2>3. QED BY <2>1, <2>2
<1>8. UnitsFormForest' /\ QuestionsHaveUnits' /\ PagesPast'
  BY <1>3 DEF BankIInv, UnitsFormForest, QuestionsHaveUnits, PagesPast, Units, Questions
<1>9. QED BY <1>5, <1>6, <1>7, <1>8 DEF BankIInv

LEMMA LockedRows ==
  ASSUME BankTypes
  PROVE  /\ \A u \in Units : UnitLocks(u) \in SUBSET (Unit \union Question) /\ u \in UnitLocks(u)
         /\ QuestionsHaveUnits => \A q \in Questions :
              QuestionLocks(q) \in SUBSET (Unit \union Question) /\ q \in QuestionLocks(q)
<1>1. ASSUME NEW u \in Units
      PROVE  UnitLocks(u) \in SUBSET (Unit \union Question) /\ u \in UnitLocks(u)
  <2>1. unit[u].parent \in Unit \union {None}
    BY UnitFields DEF BankTypes
  <2>2. QED BY <2>1 DEF UnitLocks, BankTypes
<1>2. ASSUME QuestionsHaveUnits, NEW q \in Questions
      PROVE  QuestionLocks(q) \in SUBSET (Unit \union Question) /\ q \in QuestionLocks(q)
  <2>1. question[q].unit \in Units
    BY <1>2 DEF QuestionsHaveUnits
  <2>2. QED BY <1>1, <2>1 DEF QuestionLocks, BankTypes
<1>3. QED BY <1>1, <1>2

LEMMA CreateUnitInductive ==
  ASSUME BankIInv, NEW t \in Teacher, NEW v \in UnitValues, CreateUnit(t, v)
  PROVE  BankIInv'
<1> DEFINE row == [grade |-> v.grade, parent |-> v.parent, name |-> v.name, archived |-> FALSE]
           x == [table |-> "unit", id |-> None, rows |-> {row}, locks |-> {}]
<1>1. row \in UnitRow /\ row.parent = v.parent /\ row.grade = v.grade
  BY DEF UnitValues, UnitRow
<1>2. x \in Transactions
  BY <1>1 DEF Transactions
<1>3. v.parent # None => v.parent \in issued /\ unit[v.parent].grade = v.grade
  BY DEF CreateUnit, ParentForWrite, ActiveUnit, BankIInv, BankTypes
<1>4. Prepare(t, "unit", None, {row}, {}) /\ pending[t] = Idle
  BY DEF CreateUnit, Prepare
<1> HIDE DEF row
<1>5. Ready(t, x)
  BY <1>1, <1>2, <1>3, <1>4 DEF Ready, Free
<1>6. QED BY <1>4, <1>5, CheckedInductive

LEMMA UpdateUnitInductive ==
  ASSUME BankIInv, NEW t \in Teacher, NEW u \in Units, NEW v \in UnitValues, UpdateUnit(t, u, v)
  PROVE  BankIInv'
<1> DEFINE row == [unit[u] EXCEPT !.parent = v.parent, !.name = v.name]
           x == [table |-> "unit", id |-> u, rows |-> {row}, locks |-> UnitLocks(u)]
<1>1. BankTypes /\ unit[u] \in UnitRow /\ u \in Unit
  BY DEF BankIInv, BankTypes
<1>2. row \in UnitRow /\ row.parent = v.parent /\ row.grade = unit[u].grade
  BY <1>1 DEF UnitValues, UnitRow
<1>3. UnitLocks(u) \in SUBSET (Unit \union Question) /\ u \in UnitLocks(u)
  BY <1>1, LockedRows
<1>4. x \in Transactions
  BY <1>1, <1>2, <1>3 DEF Transactions
<1>5. v.parent # None => v.parent \in issued /\ unit[v.parent].grade = v.grade
  BY DEF UpdateUnit, ParentForWrite, ActiveUnit, BankIInv, BankTypes
<1>6. v.grade = unit[u].grade /\ v.parent # u /\ (v.parent # None => ~HasSections(u))
      /\ Free(t, UnitLocks(u))
  BY DEF UpdateUnit, GetUnit
<1>7. Prepare(t, "unit", u, {row}, UnitLocks(u)) /\ pending[t] = Idle
  BY DEF UpdateUnit, Prepare
<1> HIDE DEF row
<1>8. Ready(t, x)
  BY <1>2, <1>3, <1>4, <1>5, <1>6, <1>7 DEF Ready
<1>9. QED BY <1>7, <1>8, CheckedInductive

\* Questions that have no row yet.
LEMMA NewQuestionsInductive ==
  ASSUME BankIInv, NEW t \in Teacher, NEW u \in Unit, NEW contents \in SUBSET Content,
         Prepare(t, "question", None, NewQuestions(t, u, contents), {})
  PROVE  BankIInv'
<1> DEFINE rows == NewQuestions(t, u, contents)
           x == [table |-> "question", id |-> None, rows |-> rows, locks |-> {}]
<1>1. rows \in SUBSET QuestionRow
  <2>1. 1 \in 1..MaxVersion
    OBVIOUS
  <2>2. \A c \in contents :
          [unit |-> u, content |-> c, owner |-> t, version |-> 1, archived |-> FALSE] \in QuestionRow
    BY <2>1 DEF QuestionRow
  <2>3. QED BY <2>2 DEF NewQuestions
<1> HIDE DEF rows
<1>2. x \in Transactions
  BY <1>1 DEF Transactions
<1>3. Prepare(t, "question", None, rows, {}) /\ pending[t] = Idle
  BY DEF Prepare, rows
<1>4. Ready(t, x)
  BY <1>2, <1>3 DEF Ready, Free
<1>5. QED BY <1>3, <1>4, CheckedInductive

LEMMA UpdateChoiceQuestionInductive ==
  ASSUME BankIInv, NEW t \in Teacher, NEW q \in Questions, NEW u \in Unit, NEW c \in Content,
         UpdateChoiceQuestion(t, q, u, c)
  PROVE  BankIInv'
<1> DEFINE row == [question[q] EXCEPT !.unit = u, !.content = c, !.version = @ + 1]
           x == [table |-> "question", id |-> q, rows |-> {row}, locks |-> QuestionLocks(q)]
<1>1. BankTypes /\ question[q] \in QuestionRow /\ q \in Question
  BY DEF BankIInv, BankTypes
<1>2. question[q].version \in Nat /\ question[q].version + 1 \in 1..MaxVersion
  BY <1>1, QuestionFields DEF UpdateChoiceQuestion
<1>3. row \in QuestionRow /\ row.version = question[q].version + 1
  BY <1>1, <1>2 DEF QuestionRow
<1>4. QuestionLocks(q) \in SUBSET (Unit \union Question) /\ q \in QuestionLocks(q)
  BY <1>1, LockedRows DEF BankIInv
<1>5. x \in Transactions
  BY <1>1, <1>3, <1>4 DEF Transactions
<1>6. Shown(t, q)
  <2>1. q \in DOMAIN page[t] /\ page[t][q].version = question[q].version /\ CheckOwner(t, q)
    BY DEF UpdateChoiceQuestion, CheckVersion
  <2>2. QED BY <1>2, <2>1 DEF Shown, BankIInv, PagesPast
<1>7. Prepare(t, "question", q, {row}, QuestionLocks(q)) /\ pending[t] = Idle
      /\ Free(t, QuestionLocks(q))
  BY DEF UpdateChoiceQuestion, Prepare, GetQuestion
<1> HIDE DEF row
<1>8. Ready(t, x)
  BY <1>3, <1>4, <1>5, <1>6, <1>7 DEF Ready
<1>9. QED BY <1>7, <1>8, CheckedInductive

-----------------------------------------------------------------------------
(* The writes of units *)

\* A transaction that ends, without a write or with one, leaves no lock.
LEMMA Ended ==
  ASSUME BankTypes, NEW t \in Teacher, pending' = [pending EXCEPT ![t] = Idle]
  PROVE  /\ pending' \in [Teacher -> Transactions] /\ pending'[t] = Idle
         /\ \A o \in Teacher \ {t} : pending'[o] = pending[o]
         /\ NoneBegins
<1>1. pending \in [Teacher -> Transactions]
  BY DEF BankTypes
<1>2. pending' \in [Teacher -> Transactions] /\ pending'[t] = Idle
      /\ \A o \in Teacher \ {t} : pending'[o] = pending[o]
  BY <1>1, IdleFacts
<1>3. QED BY <1>2 DEF NoneBegins

\* A write that some transactions survive.
LEMMA UnitsWritten ==
  ASSUME BankIInv, UNCHANGED <<question, page>>, NoneBegins,
         pending' \in [Teacher -> Transactions],
         Units \subseteq Units' \/ \A q \in Questions : question[q].unit \in Units',
         Units' \subseteq Unit, unit' \in [Units' -> UnitRow],
         issued \subseteq issued', Units' \subseteq issued', issued' \subseteq Unit \union Question,
         UnitsFormForest', \A o \in Teacher : UnitSaved(o)'
  PROVE  BankIInv'
<1>1. BankTypes'
  BY DEF BankIInv, BankTypes, Questions
<1>2. LocksApart'
  BY LocksKept DEF BankIInv
<1>3. \A o \in Teacher : QuestionSaved(o)'
  <2> SUFFICES ASSUME NEW o \in Teacher PROVE QuestionSaved(o)'
    OBVIOUS
  <2>1. QuestionSaved(o) /\ (pending'[o] = pending[o] \/ pending'[o] = Idle)
    BY DEF BankIInv, NoneBegins
  <2>2. Questions' = Questions
    BY DEF Questions
  <2>3. QED BY <2>1, <2>2, QuestionSavedKept
<1>4. QuestionsHaveUnits'
  BY DEF BankIInv, QuestionsHaveUnits, Questions
<1>5. PagesPast'
  BY DEF BankIInv, PagesPast, Questions
<1>6. QED BY <1>1, <1>2, <1>3, <1>4, <1>5 DEF BankIInv

\* What SaveUnit writes, when it does.
LEMMA SavedUnit ==
  ASSUME BankIInv, NEW t \in Teacher, SaveUnit(t)
  PROVE  \/ UNCHANGED <<unit, issued>>
         \/ \E u \in Unit, row \in UnitRow :
              /\ unit' = [v \in Units \union {u} |-> IF v = u THEN row ELSE unit[v]]
              /\ issued' = issued \union {u}
              /\ row.parent \in Units \union {None} /\ row.parent # u
              /\ row.parent # None =>
                   /\ Free(t, {row.parent}) /\ unit[row.parent].grade = row.grade
                   /\ ~HasSections(u)
              /\ u \in Units => unit[u].grade = row.grade
              /\ u \in Units \cap pending[t].locks \/ u \notin issued
<1>1. BankTypes /\ UnitSaved(t) /\ pending[t].table = "unit" /\ pending[t] \in Transactions
  BY DEF BankIInv, BankTypes, SaveUnit
<1>2. /\ pending[t].id \in Unit \union {None} /\ pending[t].rows \in SUBSET UnitRow
  BY <1>1, TransactionFacts
<1>3. PICK row \in pending[t].rows, u \in Target(t, Unit) :
        /\ Free(t, {row.parent} \ {None})
        /\ IF row.parent \in Units \union {None} /\ UniqueSibling(u, row)
             THEN /\ unit' = [v \in Units \union {u} |-> IF v = u THEN row ELSE unit[v]]
                  /\ issued' = issued \union {u}
             ELSE UNCHANGED <<unit, issued>>
  BY DEF SaveUnit
<1>4. CASE ~(row.parent \in Units \union {None} /\ UniqueSibling(u, row))
  BY <1>3, <1>4
<1>5. CASE row.parent \in Units \union {None} /\ UniqueSibling(u, row)
  <2>1. /\ unit' = [v \in Units \union {u} |-> IF v = u THEN row ELSE unit[v]]
        /\ issued' = issued \union {u}
    BY <1>3, <1>5
  <2>2. row \in UnitRow /\ row.parent \in Unit \union {None}
    BY <1>2, UnitFields
  <2>3. row.parent # None => /\ unit[row.parent].grade = row.grade
                             /\ Free(t, {row.parent}) /\ row.parent \in Units
    <3>1. ASSUME row.parent # None
          PROVE  unit[row.parent].grade = row.grade /\ row.parent \in Units
      BY <1>1, <1>5, <3>1 DEF UnitSaved
    <3>2. row.parent # None => Free(t, {row.parent})
      BY <1>3 DEF Free
    <3>3. QED BY <3>1, <3>2
  <2>4. CASE pending[t].id # None
    <3>1. u = pending[t].id
      BY <2>4 DEF Target
    <3>2. /\ u \in Units \cap pending[t].locks /\ unit[u].grade = row.grade /\ row.parent # u
          /\ row.parent # None => ~HasSections(u)
      BY <1>1, <2>4, <3>1 DEF UnitSaved
    <3>3. u \in Unit
      BY <3>2, <1>1 DEF BankTypes
    <3>4. QED BY <1>5, <2>1, <2>2, <2>3, <3>2, <3>3
  <2>5. CASE pending[t].id = None
    <3>1. u \in Unit /\ u \notin issued
      BY <2>5 DEF Target
    <3>2. u \notin Units
      BY <1>1, <3>1 DEF BankTypes
    <3>3. ~HasSections(u)
      BY <3>1, <3>2 DEF HasSections, BankIInv, UnitsFormForest
    <3>4. row.parent # u
      BY <1>5, <3>1, <3>2
    <3>5. QED BY <1>5, <2>1, <2>2, <2>3, <3>1, <3>2, <3>3, <3>4
  <2>6. QED BY <2>4, <2>5
<1>6. QED BY <1>4, <1>5

LEMMA SaveUnitInductive ==
  ASSUME BankIInv, NEW t \in Teacher, SaveUnit(t)
  PROVE  BankIInv'
<1>1. BankTypes /\ UnitsFormForest /\ UNCHANGED <<question, page>>
      /\ pending' = [pending EXCEPT ![t] = Idle]
  BY DEF BankIInv, SaveUnit
<1>2. /\ pending' \in [Teacher -> Transactions] /\ pending'[t] = Idle
      /\ \A o \in Teacher \ {t} : pending'[o] = pending[o]
      /\ NoneBegins
  BY <1>1, Ended
<1>3. CASE UNCHANGED <<unit, issued>>
  <2>1. UnitsFormForest' /\ Units' = Units
    BY <1>1, <1>3 DEF UnitsFormForest, Units
  <2>2. ASSUME NEW o \in Teacher PROVE UnitSaved(o)'
    <3>1. UnitSaved(o) /\ (pending'[o] = pending[o] \/ pending'[o] = Idle)
      BY <1>2 DEF BankIInv, NoneBegins
    <3>2. QED BY <1>1, <1>3, <2>1, <3>1, UnitSavedKept DEF BankTypes
  <2>3. QED BY <1>1, <1>2, <1>3, <2>1, <2>2, UnitsWritten DEF BankTypes
<1>4. ASSUME NEW u \in Unit, NEW row \in UnitRow,
             unit' = [v \in Units \union {u} |-> IF v = u THEN row ELSE unit[v]],
             issued' = issued \union {u},
             row.parent \in Units \union {None}, row.parent # u,
             row.parent # None =>
               /\ Free(t, {row.parent}) /\ unit[row.parent].grade = row.grade
               /\ ~HasSections(u),
             u \in Units => unit[u].grade = row.grade,
             u \in Units \cap pending[t].locks \/ u \notin issued
      PROVE  BankIInv'
  <2>1. /\ Units' = Units \union {u} /\ unit'[u] = row
        /\ \A v \in Units : v # u => unit'[v] = unit[v]
    BY <1>4 DEF Units
  <2>2. UnitsFormForest'
    BY <1>1, <1>4, <2>1, ForestGrows
  <2>3. unit' \in [Units' -> UnitRow] /\ Units' \subseteq Unit /\ Units' \subseteq issued'
        /\ issued' \subseteq Unit \union Question /\ issued \subseteq issued'
    <3>1. Units \subseteq Unit /\ unit \in [Units -> UnitRow] /\ Units \subseteq issued
          /\ issued \subseteq Unit \union Question
      BY <1>1 DEF BankTypes
    <3>2. unit' \in [Units \union {u} -> UnitRow]
      BY <1>4, <3>1
    <3>3. QED BY <1>4, <2>1, <3>1, <3>2
  <2>4. ASSUME NEW o \in Teacher PROVE UnitSaved(o)'
    <3>1. UnitSaved(o) /\ (pending'[o] = pending[o] \/ pending'[o] = Idle)
      BY <1>2 DEF BankIInv, NoneBegins
    <3>2. CASE o = t
      BY <1>2, <3>2, IdleFacts DEF UnitSaved
    <3>3. CASE o # t
      <4>1. pending'[o] = pending[o] /\ pending[t].locks \cap pending[o].locks = {}
        BY <1>2, <3>3 DEF BankIInv, LocksApart
      <4>2. \A v \in Units' : \/ v \in Units /\ unit'[v].grade = unit[v].grade
                              \/ v \notin issued
        BY <1>4, <2>1
      <4>3. ASSUME pending[o].id \in Units \cap pending[o].locks
            PROVE  /\ pending[o].id \in Units'
                   /\ \A v \in Units' : unit'[v].parent = pending[o].id =>
                        v \in Units /\ unit[v].parent = pending[o].id
        <5>1. pending[o].id # None
          BY <4>3, <1>1 DEF BankTypes
        <5>2. row.parent # pending[o].id
          BY <1>4, <3>3, <4>3, <5>1 DEF Free
        <5>3. QED BY <2>1, <4>3, <5>2
      <4>4. Units \subseteq issued /\ issued \subseteq issued'
        BY <1>1, <2>3 DEF BankTypes
      <4>5. QED BY <3>1, <4>2, <4>3, <4>4, UnitSavedKept
    <3>4. QED BY <3>2, <3>3
  <2>5. Units \subseteq Units'
    BY <2>1
  <2>6. QED BY <1>1, <1>2, <2>2, <2>3, <2>4, <2>5, UnitsWritten
<1>5. QED BY <1>3, <1>4, SavedUnit

\* Archive and restore: the grade and the parent of a unit stay.
LEMMA WriteUnitInductive ==
  ASSUME BankIInv, NEW u \in Units, NEW b \in BOOLEAN,
         WriteUnit(u, [unit[u] EXCEPT !.archived = b])
  PROVE  BankIInv'
<1> DEFINE row == [unit[u] EXCEPT !.archived = b]
<1>1. BankTypes /\ UnitsFormForest /\ unit[u] \in UnitRow /\ unit \in [Units -> UnitRow]
  BY DEF BankIInv, BankTypes
<1>2. row \in UnitRow /\ row.parent = unit[u].parent /\ row.grade = unit[u].grade
  BY <1>1 DEF UnitRow
<1>3. UNCHANGED <<question, issued, page, pending>> /\ unit' = [unit EXCEPT ![u] = row]
  BY DEF WriteUnit
<1> HIDE DEF row
<1>4. Units' = Units /\ unit' \in [Units -> UnitRow]
  BY <1>1, <1>2, <1>3 DEF Units
<1>5. \A v \in Units : unit'[v].parent = unit[v].parent /\ unit'[v].grade = unit[v].grade
  BY <1>1, <1>2, <1>3
<1>6. UnitsFormForest'
  BY <1>1, <1>4, <1>5, ForestSame
<1>7. ASSUME NEW o \in Teacher PROVE UnitSaved(o)'
  <2>1. UnitSaved(o) /\ pending'[o] = pending[o]
    BY <1>3 DEF BankIInv
  <2>2. Units \subseteq issued /\ issued \subseteq issued'
    BY <1>1, <1>3 DEF BankTypes
  <2>3. QED BY <1>4, <1>5, <2>1, <2>2, UnitSavedKept
<1>8. NoneBegins /\ pending' \in [Teacher -> Transactions] /\ issued \subseteq issued'
      /\ Units' \subseteq issued' /\ issued' \subseteq Unit \union Question /\ Units' \subseteq Unit
  BY <1>1, <1>3, <1>4 DEF BankTypes, NoneBegins
<1>9. Units \subseteq Units' /\ unit' \in [Units' -> UnitRow]
  BY <1>4
<1>10. QED BY <1>3, <1>6, <1>7, <1>8, <1>9, UnitsWritten

\* The unit is locked by no transaction: what is being filed in it will fail,
\* and what is filed keeps it.
LEMMA DeleteEmptyUnitInductive ==
  ASSUME BankIInv, NEW t \in Teacher, NEW u \in Units, pending[t] = Idle, DeleteEmptyUnit(t, u)
  PROVE  BankIInv'
<1>1. /\ BankTypes /\ UnitsFormForest /\ QuestionsHaveUnits
      /\ ~HasSections(u) /\ ~HasQuestions(u) /\ Free(t, UnitLocks(u)) /\ u \in UnitLocks(u)
      /\ UNCHANGED <<question, issued, page, pending>>
  BY LockedRows DEF BankIInv, DeleteEmptyUnit, EmptyUnit, GetUnit
<1>2. /\ Units' = Units \ {u} /\ unit' \in [Units' -> UnitRow]
      /\ \A v \in Units' : unit'[v] = unit[v]
  BY <1>1 DEF DeleteEmptyUnit, Restrict, Units, BankTypes
<1>3. UnitsFormForest'
  BY <1>1, <1>2, ForestLoses
<1>4. ASSUME NEW o \in Teacher PROVE UnitSaved(o)'
  <2>1. UnitSaved(o) /\ pending'[o] = pending[o]
    BY <1>1 DEF BankIInv
  <2>2. Units \subseteq issued /\ issued \subseteq issued'
    BY <1>1 DEF BankTypes
  <2>3. u \notin pending[o].locks
    BY <1>1, IdleFacts DEF Free
  <2>4. \A v \in Units' : v \in Units /\ unit'[v] = unit[v]
    BY <1>2
  <2>5. pending[o].id \in Units \cap pending[o].locks => pending[o].id \in Units'
    BY <1>2, <2>3
  <2>6. QED BY <2>1, <2>2, <2>4, <2>5, UnitSavedKept
<1>5. \A q \in Questions : question[q].unit \in Units'
  BY <1>1, <1>2 DEF QuestionsHaveUnits, HasQuestions
<1>6. NoneBegins /\ pending' \in [Teacher -> Transactions] /\ issued \subseteq issued'
      /\ Units' \subseteq issued' /\ issued' \subseteq Unit \union Question /\ Units' \subseteq Unit
  BY <1>1, <1>2 DEF BankTypes, NoneBegins
<1>7. QED BY <1>1, <1>2, <1>3, <1>4, <1>5, <1>6, UnitsWritten

-----------------------------------------------------------------------------
(* The writes of questions *)

\* What is replaced or deleted is what the page of a teacher shows her.
SeenBefore ==
  \A q \in Questions :
    q \notin Questions' \/ question'[q] # question[q] => \E t \in Teacher : Shown(t, q)

\* A write of questions that some transactions survive.
LEMMA QuestionsWritten ==
  ASSUME BankIInv, UNCHANGED <<unit, page>>, NoneBegins,
         pending' \in [Teacher -> Transactions],
         Questions' \subseteq Question, question' \in [Questions' -> QuestionRow],
         issued \subseteq issued', Questions' \subseteq issued',
         issued' \subseteq Unit \union Question,
         \A q \in Questions' : question'[q].unit \in Units,
         QuestionsAdvance, \A o \in Teacher : QuestionSaved(o)'
  PROVE  BankIInv'
<1>1. Units' = Units /\ UnitsFormForest'
  BY DEF BankIInv, UnitsFormForest, Units
<1>2. BankTypes'
  BY <1>1 DEF BankIInv, BankTypes
<1>3. LocksApart'
  BY LocksKept DEF BankIInv
<1>4. \A o \in Teacher : UnitSaved(o)'
  <2> SUFFICES ASSUME NEW o \in Teacher PROVE UnitSaved(o)'
    OBVIOUS
  <2>1. UnitSaved(o) /\ (pending'[o] = pending[o] \/ pending'[o] = Idle)
    BY DEF BankIInv, NoneBegins
  <2>2. Units \subseteq issued
    BY DEF BankIInv, BankTypes
  <2>3. QED BY <1>1, <2>1, <2>2, UnitSavedKept
<1>5. QuestionsHaveUnits'
  BY <1>1 DEF QuestionsHaveUnits
<1>6. PagesPast'
  BY PagesKept DEF BankIInv
<1>7. QED BY <1>1, <1>2, <1>3, <1>4, <1>5, <1>6 DEF BankIInv

\* What SaveQuestions writes, when it does.
LEMMA SavedQuestions ==
  ASSUME BankIInv, NEW t \in Teacher, SaveQuestions(t)
  PROVE  \/ UNCHANGED <<question, issued>>
         \/ \E written \in SUBSET Question :
              /\ Questions' = Questions \union written /\ issued' = issued \union written
              /\ question' \in [Questions' -> QuestionRow]
              /\ \A q \in Questions \ written : question'[q] = question[q]
              /\ \A q \in written : question'[q] \in pending[t].rows /\ question'[q].unit \in Units
              /\ \/ pending[t].id = None /\ written \cap issued = {}
                 \/ pending[t].id # None /\ written \subseteq {pending[t].id}
<1>1. BankTypes /\ QuestionSaved(t) /\ pending[t].table = "question" /\ pending[t] \in Transactions
  BY DEF BankIInv, BankTypes, SaveQuestions
<1>2. pending[t].id \in Question \union {None} /\ pending[t].rows \in SUBSET QuestionRow
  BY <1>1, TransactionFacts
<1> DEFINE rows == pending[t].rows
           sections == {row.unit : row \in rows}
<1>3. CASE ~(sections \subseteq Units)
  BY <1>3 DEF SaveQuestions
<1>4. CASE sections \subseteq Units
  <2>1. PICK ids \in Injection(rows, Target(t, Question)) :
          /\ question' = [q \in Questions \union Range(ids) |->
                            IF q \in Range(ids) THEN CHOOSE row \in rows : ids[row] = q
                                                ELSE question[q]]
          /\ issued' = issued \union Range(ids)
    BY <1>4 DEF SaveQuestions
  <2> DEFINE written == Range(ids)
  <2>2. ids \in [rows -> Target(t, Question)]
    BY DEF Injection
  <2>3. \A q \in written : \E row \in rows : ids[row] = q
    BY <2>2 DEF Range
  <2>4. written \subseteq Target(t, Question)
    BY <2>2 DEF Range
  <2>5. \/ pending[t].id = None /\ written \subseteq Question \ issued
        \/ pending[t].id # None /\ written \subseteq {pending[t].id}
    BY <2>4 DEF Target
  <2>6. written \in SUBSET Question
    BY <1>2, <2>5
  <2> HIDE DEF written
  <2>7. question' = [q \in Questions \union written |->
                       IF q \in written THEN CHOOSE row \in rows : ids[row] = q
                                        ELSE question[q]]
        /\ issued' = issued \union written
    BY <2>1 DEF written
  <2>8. \A q \in written : question'[q] \in rows
    BY <2>3, <2>7
  <2>9. \A q \in written : question'[q] \in QuestionRow /\ question'[q].unit \in Units
    BY <1>2, <1>4, <2>8
  <2>10. Questions' = Questions \union written
         /\ \A q \in Questions \ written : question'[q] = question[q]
    BY <2>7 DEF Questions
  <2>11. question' \in [Questions' -> QuestionRow]
    <3>1. \A q \in Questions \ written : question'[q] \in QuestionRow
      BY <1>1, <2>10 DEF BankTypes
    <3>2. question' = [q \in Questions' |-> question'[q]]
      BY <2>7, <2>10
    <3>3. QED BY <2>9, <2>10, <3>1, <3>2
  <2>12. \/ pending[t].id = None /\ written \cap issued = {}
         \/ pending[t].id # None /\ written \subseteq {pending[t].id}
    BY <2>5
  <2>13. \A q \in written : question'[q] \in rows /\ question'[q].unit \in Units
    BY <2>8, <2>9
  <2>14. \E new \in SUBSET Question :
           /\ Questions' = Questions \union new /\ issued' = issued \union new
           /\ question' \in [Questions' -> QuestionRow]
           /\ \A q \in Questions \ new : question'[q] = question[q]
           /\ \A q \in new : question'[q] \in rows /\ question'[q].unit \in Units
           /\ \/ pending[t].id = None /\ new \cap issued = {}
              \/ pending[t].id # None /\ new \subseteq {pending[t].id}
    <3> HIDE DEF rows
    <3>1. WITNESS written \in SUBSET Question
    <3>2. QED BY <2>7, <2>10, <2>11, <2>12, <2>13
  <2>15. QED BY <2>14
<1>5. QED BY <1>3, <1>4

LEMMA SaveQuestionsInductive ==
  ASSUME BankIInv, NEW t \in Teacher, SaveQuestions(t)
  PROVE  BankIInv' /\ SeenBefore
<1>1. /\ BankTypes /\ QuestionsHaveUnits /\ QuestionSaved(t) /\ pending[t].table = "question"
      /\ UNCHANGED <<unit, page>> /\ pending' = [pending EXCEPT ![t] = Idle]
  BY DEF BankIInv, SaveQuestions
<1>2. /\ pending' \in [Teacher -> Transactions] /\ pending'[t] = Idle
      /\ \A o \in Teacher \ {t} : pending'[o] = pending[o]
      /\ NoneBegins
  BY <1>1, Ended
<1>3. /\ Questions \subseteq Question /\ question \in [Questions -> QuestionRow]
      /\ Questions \subseteq issued /\ issued \subseteq Unit \union Question
  BY <1>1 DEF BankTypes
<1>4. CASE UNCHANGED <<question, issued>>
  <2>1. Questions' = Questions
    BY <1>4 DEF Questions
  <2>2. QuestionsAdvance /\ SeenBefore
    BY <1>4, <2>1 DEF QuestionsAdvance, SeenBefore
  <2>3. ASSUME NEW o \in Teacher PROVE QuestionSaved(o)'
    <3>1. QuestionSaved(o) /\ (pending'[o] = pending[o] \/ pending'[o] = Idle)
      BY <1>2 DEF BankIInv, NoneBegins
    <3>2. QED BY <1>1, <1>4, <2>1, <3>1, QuestionSavedKept
  <2>4. \A q \in Questions' : question'[q].unit \in Units
    BY <1>1, <1>4, <2>1 DEF QuestionsHaveUnits
  <2>5. QED BY <1>1, <1>2, <1>3, <1>4, <2>1, <2>2, <2>3, <2>4, QuestionsWritten
<1>5. ASSUME NEW written \in SUBSET Question,
             Questions' = Questions \union written, issued' = issued \union written,
             question' \in [Questions' -> QuestionRow],
             \A q \in Questions \ written : question'[q] = question[q],
             \A q \in written : question'[q] \in pending[t].rows /\ question'[q].unit \in Units,
             \/ pending[t].id = None /\ written \cap issued = {}
             \/ pending[t].id # None /\ written \subseteq {pending[t].id}
      PROVE  BankIInv' /\ SeenBefore
  <2>1. ASSUME NEW q \in written
        PROVE  \/ q \notin issued
               \/ /\ q \in Questions /\ q \in pending[t].locks /\ Shown(t, q)
                  /\ question'[q].version = question[q].version + 1
    <3>1. CASE pending[t].id = None
      BY <1>5, <3>1
    <3>2. CASE pending[t].id # None
      <4>1. q = pending[t].id
        BY <1>5, <3>2
      <4>2. QED BY <1>1, <1>5, <3>2, <4>1 DEF QuestionSaved
    <3>3. QED BY <3>1, <3>2
  <2>2. QuestionsAdvance
    <3> SUFFICES ASSUME NEW q \in Questions'
                 PROVE  \/ q \notin issued
                        \/ q \in Questions /\ (\/ question'[q] = question[q]
                                               \/ question'[q].version = question[q].version + 1)
      BY DEF QuestionsAdvance
    <3>1. CASE q \in written
      BY <2>1, <3>1
    <3>2. CASE q \notin written
      BY <1>5, <3>2
    <3>3. QED BY <3>1, <3>2
  <2>3. SeenBefore
    <3> SUFFICES ASSUME NEW q \in Questions, q \notin Questions' \/ question'[q] # question[q]
                 PROVE  \E s \in Teacher : Shown(s, q)
      BY DEF SeenBefore
    <3>1. q \in written /\ q \in issued
      BY <1>3, <1>5
    <3>2. QED BY <2>1, <3>1
  <2>4. ASSUME NEW o \in Teacher PROVE QuestionSaved(o)'
    <3>1. QuestionSaved(o) /\ (pending'[o] = pending[o] \/ pending'[o] = Idle)
      BY <1>2 DEF BankIInv, NoneBegins
    <3>2. CASE o = t
      BY <1>2, <3>2, IdleFacts DEF QuestionSaved
    <3>3. CASE o # t
      <4>1. pending[t].locks \cap pending[o].locks = {}
        BY <3>3 DEF BankIInv, LocksApart
      <4>2. ASSUME pending[o].id \in Questions \cap pending[o].locks
            PROVE  /\ pending[o].id \in Questions'
                   /\ question'[pending[o].id] = question[pending[o].id]
        <5>1. pending[o].id \notin written
          BY <1>3, <2>1, <4>1, <4>2
        <5>2. QED BY <1>5, <4>2, <5>1
      <4>3. QED BY <1>1, <3>1, <4>2, QuestionSavedKept
    <3>4. QED BY <3>2, <3>3
  <2>5. /\ Questions' \subseteq Question /\ issued \subseteq issued' /\ Questions' \subseteq issued'
        /\ issued' \subseteq Unit \union Question
    BY <1>3, <1>5
  <2>6. \A q \in Questions' : question'[q].unit \in Units
    BY <1>1, <1>5 DEF QuestionsHaveUnits
  <2>7. QED BY <1>1, <1>2, <1>5, <2>2, <2>3, <2>4, <2>5, <2>6, QuestionsWritten
<1>6. QED BY <1>4, <1>5, SavedQuestions

\* A question whose version the page has is as the page shows it.
LEMMA CheckedMeansShown ==
  ASSUME BankIInv, NEW t \in Teacher, NEW q \in Questions, CheckVersion(t, q), CheckOwner(t, q)
  PROVE  Shown(t, q)
<1>1. question[q].version \in Nat
  BY QuestionFields DEF BankIInv, BankTypes
<1>2. q \in DOMAIN page[t] /\ page[t][q].version = question[q].version
  BY DEF CheckVersion
<1>3. page[t][q] = question[q] \/ page[t][q].version < question[q].version
  BY <1>2 DEF BankIInv, PagesPast
<1>4. QED BY <1>1, <1>2, <1>3 DEF Shown

\* No other transaction depends on rows that t may lock.
LEMMA OthersSurvive ==
  ASSUME BankIInv, NEW t \in Teacher, pending[t] = Idle, UNCHANGED <<page, pending>>,
         NEW qs \in SUBSET Questions, \A q \in qs : Free(t, QuestionLocks(q)),
         \A q \in Questions \ qs : q \in Questions' /\ question'[q] = question[q]
  PROVE  \A o \in Teacher : QuestionSaved(o)'
<1> SUFFICES ASSUME NEW o \in Teacher PROVE QuestionSaved(o)'
  OBVIOUS
<1>1. BankTypes /\ QuestionsHaveUnits /\ QuestionSaved(o) /\ pending'[o] = pending[o]
  BY DEF BankIInv
<1>2. \A q \in qs : q \in QuestionLocks(q)
  BY <1>1, LockedRows
<1>3. \A q \in qs : q \notin pending[o].locks
  BY <1>2, IdleFacts DEF Free
<1>4. pending[o].id \in Questions \cap pending[o].locks =>
        pending[o].id \in Questions' /\ question'[pending[o].id] = question[pending[o].id]
  BY <1>3
<1>5. QED BY <1>1, <1>4, QuestionSavedKept

\* Archive and restore.
LEMMA WriteQuestionInductive ==
  ASSUME BankIInv, NEW t \in Teacher, pending[t] = Idle, NEW q \in Questions, NEW b \in BOOLEAN,
         GetQuestion(t, q), CheckOwner(t, q), CheckVersion(t, q),
         question[q].version < MaxVersion,
         WriteQuestion(q, [question[q] EXCEPT !.archived = b, !.version = @ + 1])
  PROVE  BankIInv' /\ SeenBefore
<1> DEFINE row == [question[q] EXCEPT !.archived = b, !.version = @ + 1]
<1>1. BankTypes /\ question[q] \in QuestionRow /\ question \in [Questions -> QuestionRow]
      /\ QuestionsHaveUnits
  BY DEF BankIInv, BankTypes
<1>2. question[q].version \in Nat /\ question[q].version + 1 \in 1..MaxVersion
  BY <1>1, QuestionFields
<1>3. row \in QuestionRow /\ row.unit = question[q].unit /\ row.version = question[q].version + 1
  BY <1>1, <1>2 DEF QuestionRow
<1>4. UNCHANGED <<unit, issued, page, pending>> /\ question' = [question EXCEPT ![q] = row]
  BY DEF WriteQuestion
<1> HIDE DEF row
<1>5. Questions' = Questions /\ question' \in [Questions -> QuestionRow] /\ question'[q] = row
      /\ \A p \in Questions \ {q} : question'[p] = question[p]
  BY <1>1, <1>3, <1>4 DEF Questions
<1>6. QuestionsAdvance
  BY <1>3, <1>5 DEF QuestionsAdvance
<1>7. SeenBefore
  BY <1>5, CheckedMeansShown DEF SeenBefore
<1>8. \A o \in Teacher : QuestionSaved(o)'
  <2>1. {q} \in SUBSET Questions /\ \A p \in {q} : Free(t, QuestionLocks(p))
    BY DEF GetQuestion
  <2>2. \A p \in Questions \ {q} : p \in Questions' /\ question'[p] = question[p]
    BY <1>5
  <2>3. pending[t] = Idle /\ UNCHANGED <<page, pending>>
    BY <1>4
  <2> DEFINE qs == {q}
  <2>4. /\ qs \in SUBSET Questions /\ \A p \in qs : Free(t, QuestionLocks(p))
        /\ \A p \in Questions \ qs : p \in Questions' /\ question'[p] = question[p]
    BY <2>1, <2>2
  <2> HIDE DEF qs
  <2>5. QED BY <2>3, <2>4, OthersSurvive
<1>9. \A p \in Questions' : question'[p].unit \in Units
  BY <1>1, <1>3, <1>5 DEF QuestionsHaveUnits
<1>10. /\ NoneBegins /\ pending' \in [Teacher -> Transactions] /\ issued \subseteq issued'
       /\ Questions' \subseteq issued' /\ issued' \subseteq Unit \union Question
       /\ Questions' \subseteq Question
  BY <1>1, <1>4, <1>5 DEF BankTypes, NoneBegins
<1>11. question' \in [Questions' -> QuestionRow]
  BY <1>5
<1>12. QED BY <1>4, <1>6, <1>7, <1>8, <1>9, <1>10, <1>11, QuestionsWritten

LEMMA DeleteChoiceQuestionsInductive ==
  ASSUME BankIInv, NEW t \in Teacher, pending[t] = Idle, NEW qs \in SUBSET Questions,
         DeleteChoiceQuestions(t, qs)
  PROVE  BankIInv' /\ SeenBefore
<1>1. BankTypes /\ question \in [Questions -> QuestionRow] /\ QuestionsHaveUnits
      /\ UNCHANGED <<unit, issued, page, pending>>
  BY DEF BankIInv, BankTypes, DeleteChoiceQuestions
<1>2. \A q \in qs : GetQuestion(t, q) /\ CheckOwner(t, q) /\ CheckVersion(t, q)
  BY DEF DeleteChoiceQuestions
<1>3. Questions' = Questions \ qs /\ question' \in [Questions' -> QuestionRow]
      /\ \A q \in Questions' : question'[q] = question[q]
  BY <1>1 DEF DeleteChoiceQuestions, Restrict, Questions
<1>4. QuestionsAdvance
  BY <1>3 DEF QuestionsAdvance
<1>5. SeenBefore
  <2> SUFFICES ASSUME NEW q \in Questions, q \notin Questions' \/ question'[q] # question[q]
               PROVE  \E s \in Teacher : Shown(s, q)
    BY DEF SeenBefore
  <2>1. q \in qs
    BY <1>3
  <2>2. QED BY <1>2, <2>1, CheckedMeansShown
<1>6. \A o \in Teacher : QuestionSaved(o)'
  <2>1. \A q \in qs : Free(t, QuestionLocks(q))
    BY <1>2 DEF GetQuestion
  <2>2. \A q \in Questions \ qs : q \in Questions' /\ question'[q] = question[q]
    BY <1>3
  <2>3. QED BY <1>1, <2>1, <2>2, OthersSurvive
<1>7. \A q \in Questions' : question'[q].unit \in Units
  BY <1>1, <1>3 DEF QuestionsHaveUnits
<1>8. /\ NoneBegins /\ pending' \in [Teacher -> Transactions] /\ issued \subseteq issued'
      /\ Questions' \subseteq issued' /\ issued' \subseteq Unit \union Question
      /\ Questions' \subseteq Question
  BY <1>1, <1>3 DEF BankTypes, NoneBegins
<1>9. QED BY <1>1, <1>3, <1>4, <1>5, <1>6, <1>7, <1>8, QuestionsWritten

\* A page shows the questions as they are.
LEMMA ShowInductive ==
  ASSUME BankIInv, NEW t \in Teacher, NEW qs \in SUBSET Questions, Show(t, qs)
  PROVE  BankIInv'
<1> DEFINE new == Restrict(question, qs)
<1>1. BankTypes /\ question \in [Questions -> QuestionRow] /\ pending[t] = Idle
      /\ UNCHANGED <<unit, question, issued, pending>> /\ page' = [page EXCEPT ![t] = new]
  BY DEF BankIInv, BankTypes, Show
<1>2. DOMAIN new = qs /\ new \in [qs -> QuestionRow] /\ \A q \in qs : new[q] = question[q]
  BY <1>1 DEF Restrict
<1> HIDE DEF new
<1>3. /\ page' = [o \in Teacher |-> page'[o]] /\ page'[t] = new
      /\ \A o \in Teacher \ {t} : page'[o] = page[o]
  BY <1>1 DEF BankTypes
<1>4. Units' = Units /\ Questions' = Questions
  BY <1>1 DEF Units, Questions
<1>5. BankTypes'
  <2>1. \A o \in Teacher : /\ page'[o] \in [DOMAIN page'[o] -> QuestionRow]
                           /\ DOMAIN page'[o] \subseteq issued
    BY <1>1, <1>2, <1>3 DEF BankTypes
  <2>2. QED BY <1>1, <1>3, <1>4, <2>1 DEF BankTypes
<1>6. \A o \in Teacher : UnitSaved(o)'
  BY <1>1, <1>4 DEF BankIInv, UnitSaved, HasSections
<1>7. ASSUME NEW o \in Teacher PROVE QuestionSaved(o)'
  <2>1. QuestionSaved(o) /\ pending'[o] = pending[o]
    BY <1>1 DEF BankIInv
  <2>2. CASE o = t
    BY <1>1, <2>2, IdleFacts DEF QuestionSaved
  <2>3. CASE o # t
    BY <1>1, <1>3, <1>4, <2>1, <2>3, QuestionSavedKept
  <2>4. QED BY <2>2, <2>3
<1>8. PagesPast'
  BY <1>1, <1>2, <1>3, <1>4 DEF BankIInv, PagesPast
<1>9. LocksApart' /\ UnitsFormForest' /\ QuestionsHaveUnits'
  BY <1>1, <1>4 DEF BankIInv, LocksApart, UnitsFormForest, QuestionsHaveUnits
<1>10. QED BY <1>5, <1>6, <1>7, <1>8, <1>9 DEF BankIInv

\* Every other action but these leaves the questions alone.
LEMMA QuestionsAlone ==
  ASSUME UNCHANGED question
  PROVE  SeenBefore
<1>1. Questions' = Questions
  BY DEF Questions
<1>2. QED BY <1>1 DEF SeenBefore

LEMMA AbortInductive ==
  ASSUME BankIInv, NEW t \in Teacher, Abort(t)
  PROVE  BankIInv'
<1>1. BankTypes /\ UNCHANGED <<unit, question, issued, page>>
      /\ pending' = [pending EXCEPT ![t] = Idle]
  BY DEF BankIInv, Abort
<1>2. NoneBegins /\ pending' \in [Teacher -> Transactions]
  BY <1>1, Ended
<1>3. Units' = Units /\ UnitsFormForest'
  BY <1>1 DEF BankIInv, UnitsFormForest, Units
<1>4. ASSUME NEW o \in Teacher PROVE UnitSaved(o)'
  <2>1. UnitSaved(o) /\ (pending'[o] = pending[o] \/ pending'[o] = Idle)
    BY <1>2 DEF BankIInv, NoneBegins
  <2>2. QED BY <1>1, <1>3, <2>1, UnitSavedKept DEF BankTypes
<1>5. QED BY <1>1, <1>2, <1>3, <1>4, UnitsWritten DEF BankTypes

LEMMA UnitStep ==
  ASSUME BankIInv, NEW t \in Teacher,
         \/ PostUnit(t) \/ PatchUnit(t) \/ DeleteUnit(t) \/ PostUnitRestore(t)
         \/ DeleteUnitForGood(t) \/ SaveUnit(t)
  PROVE  BankIInv' /\ SeenBefore
<1>1. CASE PostUnit(t)
  <2>1. PICK v \in UnitValues : CreateUnit(t, v)
    BY <1>1 DEF PostUnit
  <2>2. UNCHANGED question
    BY <2>1 DEF CreateUnit, Prepare
  <2>3. QED BY <2>1, <2>2, CreateUnitInductive, QuestionsAlone
<1>2. CASE PatchUnit(t)
  <2>1. PICK u \in Units, v \in UnitValues : UpdateUnit(t, u, v)
    BY <1>2 DEF PatchUnit
  <2>2. UNCHANGED question
    BY <2>1 DEF UpdateUnit, Prepare
  <2>3. QED BY <2>1, <2>2, UpdateUnitInductive, QuestionsAlone
<1>3. CASE DeleteUnit(t)
  <2>1. PICK u \in Units : ArchiveUnit(t, u)
    BY <1>3 DEF DeleteUnit
  <2>2. WriteUnit(u, [unit[u] EXCEPT !.archived = TRUE])
    BY <2>1 DEF ArchiveUnit
  <2>3. UNCHANGED question
    BY <2>2 DEF WriteUnit
  <2>4. QED BY <2>2, <2>3, WriteUnitInductive, QuestionsAlone
<1>4. CASE PostUnitRestore(t)
  <2>1. PICK u \in Units : RestoreUnit(t, u)
    BY <1>4 DEF PostUnitRestore
  <2>2. WriteUnit(u, [unit[u] EXCEPT !.archived = FALSE])
    BY <2>1 DEF RestoreUnit
  <2>3. UNCHANGED question
    BY <2>2 DEF WriteUnit
  <2>4. QED BY <2>2, <2>3, WriteUnitInductive, QuestionsAlone
<1>5. CASE DeleteUnitForGood(t)
  <2>1. PICK u \in Units : DeleteEmptyUnit(t, u)
    BY <1>5 DEF DeleteUnitForGood
  <2>2. pending[t] = Idle /\ UNCHANGED question
    BY <1>5, <2>1 DEF DeleteUnitForGood, DeleteEmptyUnit
  <2>3. QED BY <2>1, <2>2, DeleteEmptyUnitInductive, QuestionsAlone
<1>6. CASE SaveUnit(t)
  <2>1. UNCHANGED question
    BY <1>6 DEF SaveUnit
  <2>2. QED BY <1>6, <2>1, SaveUnitInductive, QuestionsAlone
<1>7. QED BY <1>1, <1>2, <1>3, <1>4, <1>5, <1>6

\* The services that prepare questions.
LEMMA PreparedStep ==
  ASSUME BankIInv, NEW t \in Teacher,
         PostQuestion(t) \/ PostQuestionCopy(t) \/ PostQuestionImport(t) \/ PatchQuestion(t)
  PROVE  BankIInv' /\ SeenBefore
<1>1. ASSUME NEW u \in Unit, NEW c \in Content, CreateChoiceQuestion(t, u, c)
      PROVE  BankIInv' /\ SeenBefore
  <2>1. {c} \in SUBSET Content /\ Prepare(t, "question", None, NewQuestions(t, u, {c}), {})
    BY <1>1 DEF CreateChoiceQuestion
  <2>2. UNCHANGED question
    BY <2>1 DEF Prepare
  <2>3. QED BY <2>1, <2>2, NewQuestionsInductive, QuestionsAlone
<1>2. ASSUME NEW u \in Unit, NEW contents \in SUBSET Content, ImportChoiceQuestions(t, u, contents)
      PROVE  BankIInv' /\ SeenBefore
  <2>1. Prepare(t, "question", None, NewQuestions(t, u, contents), {})
    BY <1>2 DEF ImportChoiceQuestions
  <2>2. UNCHANGED question
    BY <2>1 DEF Prepare
  <2>3. QED BY <2>1, <2>2, NewQuestionsInductive, QuestionsAlone
<1>3. CASE PostQuestion(t)
  BY <1>1, <1>3 DEF PostQuestion
<1>4. CASE PostQuestionCopy(t)
  <2>1. PICK q \in Questions, u \in Unit : CopyChoiceQuestion(t, q, u)
    BY <1>4 DEF PostQuestionCopy
  <2>2. question[q].content \in Content
    BY QuestionFields DEF BankIInv, BankTypes
  <2>3. QED BY <1>1, <2>1, <2>2 DEF CopyChoiceQuestion
<1>5. CASE PostQuestionImport(t)
  <2>1. PICK contents \in SUBSET Content :
          \/ \E u \in Unit : ImportChoiceQuestions(t, u, contents)
          \/ \E g \in Grade, n \in Name :
             \E u \in ResolveImportUnit(t, g, n) : ImportChoiceQuestions(t, u, contents)
    BY <1>5 DEF PostQuestionImport
  <2>2. \A g, n : ResolveImportUnit(t, g, n) \subseteq Unit
    BY DEF ResolveImportUnit, BankIInv, BankTypes
  <2>3. QED BY <1>2, <2>1, <2>2
<1>6. CASE PatchQuestion(t)
  <2>1. PICK q \in Questions, u \in Unit, c \in Content : UpdateChoiceQuestion(t, q, u, c)
    BY <1>6 DEF PatchQuestion
  <2>2. UNCHANGED question
    BY <2>1 DEF UpdateChoiceQuestion, Prepare
  <2>3. QED BY <2>1, <2>2, UpdateChoiceQuestionInductive, QuestionsAlone
<1>7. QED BY <1>3, <1>4, <1>5, <1>6

\* The services that write questions, and the pages.
LEMMA QuestionStep ==
  ASSUME BankIInv, NEW t \in Teacher,
         \/ DeleteQuestion(t) \/ PostBulkDelete(t) \/ PostQuestionRestore(t) \/ ArchiveQuestion(t)
         \/ GetQuestionList(t) \/ GetQuestionDetail(t) \/ SaveQuestions(t) \/ Abort(t)
  PROVE  BankIInv' /\ SeenBefore
<1>1. CASE DeleteQuestion(t)
  <2>1. PICK q \in Questions : DeleteChoiceQuestions(t, {q})
    BY <1>1 DEF DeleteQuestion
  <2>2. {q} \in SUBSET Questions /\ pending[t] = Idle
    BY <1>1 DEF DeleteQuestion
  <2>3. QED BY <2>1, <2>2, DeleteChoiceQuestionsInductive
<1>2. CASE PostBulkDelete(t)
  BY <1>2, DeleteChoiceQuestionsInductive DEF PostBulkDelete
<1>3. CASE PostQuestionRestore(t)
  <2>1. PICK q \in Questions : RestoreChoiceQuestion(t, q)
    BY <1>3 DEF PostQuestionRestore
  <2>2. pending[t] = Idle
    BY <1>3 DEF PostQuestionRestore
  <2>3. QED BY <2>1, <2>2, WriteQuestionInductive DEF RestoreChoiceQuestion
<1>4. CASE ArchiveQuestion(t)
  <2>1. PICK q \in Questions : ArchiveChoiceQuestion(t, q)
    BY <1>4 DEF ArchiveQuestion
  <2>2. pending[t] = Idle
    BY <1>4 DEF ArchiveQuestion
  <2>3. QED BY <2>1, <2>2, WriteQuestionInductive DEF ArchiveChoiceQuestion
<1>5. ASSUME NEW qs \in SUBSET Questions, Show(t, qs)
      PROVE  BankIInv' /\ SeenBefore
  <2>1. UNCHANGED question
    BY <1>5 DEF Show
  <2>2. QED BY <1>5, <2>1, ShowInductive, QuestionsAlone
<1>6. ScopedQuestions(t) \subseteq Questions
  BY DEF ScopedQuestions
<1>7. CASE GetQuestionList(t)
  <2>1. PICK qs : Show(t, qs) /\ qs \subseteq Questions
    BY <1>6, <1>7 DEF GetQuestionList
  <2>2. QED BY <1>5, <2>1
<1>8. CASE GetQuestionDetail(t)
  <2>1. PICK q \in ScopedQuestions(t) : Show(t, {q})
    BY <1>8 DEF GetQuestionDetail
  <2>2. {q} \in SUBSET Questions
    BY <1>6
  <2>3. QED BY <1>5, <2>1, <2>2
<1>9. CASE SaveQuestions(t)
  BY <1>9, SaveQuestionsInductive
<1>10. CASE Abort(t)
  <2>1. UNCHANGED question
    BY <1>10 DEF Abort
  <2>2. QED BY <1>10, <2>1, AbortInductive, QuestionsAlone
<1>11. QED BY <1>1, <1>2, <1>3, <1>4, <1>7, <1>8, <1>9, <1>10

LEMMA NextBank ==
  ASSUME BankIInv, [BankNext]_bankVars
  PROVE  BankIInv' /\ SeenBefore
<1>1. CASE BankNext
  BY <1>1, UnitStep, PreparedStep, QuestionStep DEF BankNext
<1>2. CASE UNCHANGED bankVars
  <2>1. UNCHANGED <<unit, question, issued, page, pending>>
    BY <1>2 DEF bankVars
  <2>2. Units' = Units /\ Questions' = Questions
    BY <2>1 DEF Units, Questions
  <2>3. BankTypes' /\ LocksApart' /\ UnitsFormForest' /\ QuestionsHaveUnits' /\ PagesPast'
    BY <2>1, <2>2 DEF BankIInv, BankTypes, LocksApart, UnitsFormForest, QuestionsHaveUnits,
                      PagesPast
  <2>4. \A o \in Teacher : UnitSaved(o)' /\ QuestionSaved(o)'
    BY <2>1, <2>2 DEF BankIInv, UnitSaved, HasSections, QuestionSaved, Shown, CheckOwner
  <2>5. QED BY <2>1, <2>3, <2>4, QuestionsAlone DEF BankIInv
<1>3. QED BY <1>1, <1>2

LEMMA InitBank ==
  ASSUME BankInit
  PROVE  BankIInv
<1>1. Units = {} /\ Questions = {} /\ issued = {}
  BY DEF BankInit, Units, Questions
<1>2. \A t \in Teacher : pending[t] = Idle /\ DOMAIN page[t] = {}
  <2>1. DOMAIN << >> = {}
    OBVIOUS
  <2>2. \A t \in Teacher : pending[t] = Idle /\ page[t] = << >>
    BY DEF BankInit
  <2>3. QED BY <2>1, <2>2
<1>3. BankTypes
  <2>1. unit \in [Units -> UnitRow] /\ question \in [Questions -> QuestionRow]
    BY <1>1 DEF BankInit
  <2>2. \A t \in Teacher : page[t] \in [DOMAIN page[t] -> QuestionRow]
    <3>1. << >> \in [DOMAIN << >> -> QuestionRow]
      OBVIOUS
    <3>2. \A t \in Teacher : page[t] = << >>
      BY DEF BankInit
    <3>3. QED BY <3>1, <3>2
  <2>3. pending \in [Teacher -> Transactions] /\ page = [t \in Teacher |-> page[t]]
    BY IdleFacts DEF BankInit
  <2>4. QED BY <1>1, <1>2, <2>1, <2>2, <2>3 DEF BankTypes
<1>4. LocksApart /\ \A t \in Teacher : UnitSaved(t) /\ QuestionSaved(t)
  BY <1>2, IdleFacts DEF LocksApart, UnitSaved, QuestionSaved
<1>5. UnitsFormForest /\ QuestionsHaveUnits /\ PagesPast
  BY <1>1, <1>2 DEF UnitsFormForest, QuestionsHaveUnits, PagesPast
<1>6. QED BY <1>3, <1>4, <1>5 DEF BankIInv

-----------------------------------------------------------------------------
(* The question bank: theorems *)

\* However the services of the bank interleave, units form a forest in which a
\* section has the grade of its unit, every question keeps its section, and a
\* page tells by the version whether a question is still as it shows it.
THEOREM BankHoldsTogether == BankSpec => []BankInv
<1>1. ASSUME BankIInv PROVE BankInv
  <2>1. BankTypes
    BY <1>1 DEF BankIInv
  <2>2. ASSUME NEW t \in Teacher
        PROVE  /\ page[t] \in [DOMAIN page[t] -> QuestionRow]
               /\ pending[t].table \in {"none", "unit", "question"}
               /\ pending[t].rows \subseteq CASE pending[t].table = "none" -> {}
                                              [] pending[t].table = "unit" -> UnitRow
                                              [] OTHER -> QuestionRow
    <3>1. pending[t] \in Transactions /\ page[t] \in [DOMAIN page[t] -> QuestionRow]
      BY <2>1 DEF BankTypes
    <3>2. /\ pending[t].table \in {"none", "unit", "question"}
          /\ pending[t].table = "none" => pending[t].rows = {}
          /\ pending[t].table = "unit" => pending[t].rows \subseteq UnitRow
          /\ pending[t].table = "question" => pending[t].rows \subseteq QuestionRow
      BY <3>1, TransactionFacts, IdleFacts
    <3>3. QED BY <3>1, <3>2
  <2>3. BankTypeOK
    BY <2>1, <2>2 DEF BankTypes, BankTypeOK
  <2>4. VersionTells
    <3> SUFFICES ASSUME NEW t \in Teacher, NEW q \in DOMAIN page[t] \cap Questions,
                        page[t][q].version = question[q].version
                 PROVE  page[t][q] = question[q]
      BY DEF VersionTells
    <3>1. question[q].version \in Nat
      BY <2>1, QuestionFields DEF BankTypes
    <3>2. page[t][q] = question[q] \/ page[t][q].version < question[q].version
      BY <1>1 DEF BankIInv, PagesPast
    <3>3. QED BY <3>1, <3>2
  <2>5. QED BY <1>1, <2>3, <2>4 DEF BankIInv, BankInv
<1>2. BankIInv /\ [BankNext]_bankVars => BankIInv'
  BY NextBank
<1>3. QED BY <1>1, <1>2, InitBank, PTL DEF BankSpec

\* What is overwritten or deleted is what the page of a teacher who may do so
\* showed her: between her checks and her save no other service changes it.
THEOREM NothingUnseenReplaced == BankSpec => NothingUnseenIsReplaced
<1>1. ASSUME BankIInv, [BankNext]_bankVars
      PROVE  [\A q \in Questions :
                q \notin Questions' \/ question'[q] # question[q] =>
                  \E t \in Teacher : /\ q \in DOMAIN page[t] /\ page[t][q] = question[q]
                                     /\ CheckOwner(t, q)]_bankVars
  <2>1. SeenBefore
    BY <1>1, NextBank
  <2>2. QED BY <2>1 DEF SeenBefore, Shown
<1>2. BankIInv /\ [BankNext]_bankVars => BankIInv'
  BY NextBank
<1>3. QED BY <1>1, <1>2, InitBank, PTL DEF BankSpec, NothingUnseenIsReplaced
=============================================================================
