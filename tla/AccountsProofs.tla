--------------------------- MODULE AccountsProofs ---------------------------
(***************************************************************************)
(* Theorems about Accounts for any students, teachers, keys and requests   *)
(* served at the same time: rows hold together, a password shown is the    *)
(* one that lets the student in, and no request ends a session that is     *)
(* not over but its logout.                                                *)
(*                                                                         *)
(* The inductive invariant is AccountsIInv.  Each of its parts is about    *)
(* one concern of the requests under way; a request disturbs few of them.  *)
(***************************************************************************)
EXTENDS Accounts, FiniteSetTheorems, TLAPS

USE StaffAssumption, AccountsAssumption, NoValueAssumption

-----------------------------------------------------------------------------
(* Types *)

\* The rows a rotation has locked.
Locked == UNION {[S -> Row] : S \in SUBSET Student}

\* The requests, by the statement they are before.
Requests ==
  {Idle}
    \union [op : {"login"}, id : Student, n : Nat]
    \union [op : {"issue"}, id : Student, n : Nat, old : Nat]
    \union [op : {"expire", "logout"}, id : Student, key : Nat]
    \union [op : {"register"}, seat : Seat, password : Password, n : Nat]
    \union [op : {"put"}, id : Student, row : Row, seat : Seat \union {None}]
    \union [op : {"rename", "start"}, id : Student, seat : Seat]
    \union [op : {"delete"}, id : Student]
    \union [op : {"ask", "reveal"}, by : Teacher, id : Student]
    \union [op : {"rotate"}, rows : Locked]

\* It has the fields of an audit record, which say which attempt it was.
AuditRecord(a) == a = [n |-> a.n, told |-> a.told, age |-> a.age]

\* Every variable has its type; more of the requests than AccountsTypeOK says.
TypeInv ==
  /\ account \in [Student -> Row \union {None}]
  /\ held \in [Student -> SUBSET Seat]
  /\ token \in [Student -> Session \union {None}]
  /\ snapshot \in [Student -> Seat \union {None}]
  /\ reveals = [t \in Teacher |-> reveals[t]]
  /\ \A t \in Teacher : IsFiniteSet(reveals[t]) /\ \A a \in reveals[t] : AuditRecord(a)
  /\ staff \subseteq Teacher
  /\ job \in [Worker -> Requests]
  /\ jobs \in Nat

\* What a request is by its op.
LEMMA RequestFacts ==
  ASSUME NEW r \in Requests
  PROVE  /\ r.op = "login" => r.id \in Student /\ r.n \in Nat
         /\ r.op = "issue" => r.id \in Student /\ r.n \in Nat /\ r.old \in Nat
         /\ r.op \in {"expire", "logout"} => r.id \in Student /\ r.key \in Nat
         /\ r.op = "register" => r.seat \in Seat /\ r.password \in Password /\ r.n \in Nat
         /\ r.op = "put" => /\ r.id \in Student /\ r.row \in Row
                            /\ r.seat \in Seat \union {None}
         /\ r.op \in {"rename", "start"} => r.id \in Student /\ r.seat \in Seat
         /\ r.op = "delete" => r.id \in Student
         /\ r.op \in {"ask", "reveal"} =>
              /\ r.by \in Teacher /\ r.id \in Student
              /\ r = [op |-> r.op, by |-> r.by, id |-> r.id]
         /\ r.op = "rotate" => r.rows \in Locked
  BY DEF Requests, Idle

LEMMA LockedFacts ==
  ASSUME NEW f \in Locked
  PROVE  /\ DOMAIN f \subseteq Student
         /\ \A id \in DOMAIN f : f[id] \in Row
  BY DEF Locked

LEMMA SecuredRow ==
  ASSUME NEW seat \in Seat, NEW p \in Password, NEW k \in Key
  PROVE  Secured(seat, p, k) \in Row
  BY DEF Secured, Row, Cipher

LEMMA LegacyRow ==
  ASSUME NEW seat \in Seat, NEW p \in Password
  PROVE  Legacy(seat, p) \in Row
  BY DEF Legacy, Row

LEMMA MovedRow ==
  ASSUME NEW r \in Row, NEW seat \in Seat
  PROVE  /\ [r EXCEPT !.seat = seat] \in Row
         /\ [r EXCEPT !.seat = seat].seat = seat
         /\ [r EXCEPT !.seat = seat].hash = r.hash
         /\ [r EXCEPT !.seat = seat].cipher = r.cipher
         /\ [r EXCEPT !.seat = seat].key = r.key
         /\ [r EXCEPT !.seat = seat].status = r.status
  BY DEF Row

\* A row whose password is encrypted again.
Rewrapped(r, p) == [r EXCEPT !.cipher = [text |-> p, under |-> NewKey], !.key = NewKey]

LEMMA RewrappedRow ==
  ASSUME NEW r \in Row, NEW p \in Password
  PROVE  /\ Rewrapped(r, p) \in Row
         /\ Rewrapped(r, p).seat = r.seat
         /\ Rewrapped(r, p).hash = r.hash
         /\ Rewrapped(r, p).cipher = [text |-> p, under |-> NewKey]
         /\ Rewrapped(r, p).key = NewKey
         /\ Rewrapped(r, p).status = r.status
<1>1. [text |-> p, under |-> NewKey] \in Cipher
  BY DEF Cipher
<1>2. QED
  BY <1>1 DEF Rewrapped, Row

\* A worker's request changes, the others' stay.
LEMMA OneRequest ==
  ASSUME job \in [Worker -> Requests], NEW w \in Worker, NEW r \in Requests,
         job' = [job EXCEPT ![w] = r]
  PROVE  /\ job' \in [Worker -> Requests]
         /\ job'[w] = r
         /\ \A v \in Worker : v # w => job'[v] = job[v]
  OBVIOUS

LEMMA BeginType ==
  ASSUME job \in [Worker -> Requests], jobs \in Nat,
         NEW w \in Worker, NEW r \in Requests, Begin(w, r)
  PROVE  job' \in [Worker -> Requests] /\ jobs' \in Nat
  BY OneRequest DEF Begin

LEMMA ContinueType ==
  ASSUME job \in [Worker -> Requests], jobs \in Nat,
         NEW w \in Worker, NEW r \in Requests, Continue(w, r)
  PROVE  job' \in [Worker -> Requests] /\ jobs' \in Nat
  BY OneRequest DEF Continue

LEMMA IdleRequest == Idle \in Requests
  BY DEF Requests

-----------------------------------------------------------------------------
(* The parts of the invariant *)

\* The ciphertext of an available password is that of the hash.
Sound(r) ==
  /\ (r.status = "available") = (r.cipher # None)
  /\ (r.cipher = None) = (r.key = None)
  /\ r.status = "available" => Decrypt(r.cipher, r.key) = r.hash

\* Every row is sound, also the one a profile edit is going to write back, and
\* its seat is one the student has had.
RowsInv ==
  /\ \A id \in Student : Known(id) => Sound(account[id]) /\ account[id].seat \in held[id]
  /\ \A w \in Worker : job[w].op = "put" => Sound(job[w].row)

\* What belongs to a student goes with the row, and the identity in his
\* submissions, or on its way there, is one he has had.
OwnedInv ==
  /\ \A id \in Student : token[id] # None => Known(id)
  /\ \A id \in Student : snapshot[id] # None => Known(id) /\ snapshot[id] \in held[id]
  /\ \A w \in Worker : job[w].op \in {"rename", "start"} => job[w].seat \in held[job[w].id]

\* A rotation locks its rows: they stay as it read them, and no other rotation
\* has them.
RotationsInv ==
  /\ \A w \in Worker : job[w].op = "rotate" =>
       \A id \in DOMAIN job[w].rows : Available(id) /\ job[w].rows[id] = account[id]
  /\ \A w, v \in Worker : w # v /\ job[w].op = "rotate" /\ job[v].op = "rotate" =>
       DOMAIN job[w].rows \cap DOMAIN job[v].rows = {}

\* Of a teacher's requests one at a time goes past the count, and then there is
\* room for one more attempt.
RevealsInv ==
  /\ RevealsBounded
  /\ \A w \in Worker : job[w].op = "reveal" => Recent(job[w].by) < RevealLimit
  /\ \A w, v \in Worker : w # v /\ job[w].op = "reveal" /\ job[v].op = "reveal" =>
       job[w].by # job[v].by

\* The request may still give its number to a token.
Issuing(r) == r.op \in {"login", "issue", "register"}

\* The request removes the token with that key.
Removing(r, k) ==
  \/ r.op = "issue" /\ r.old = k
  \/ r.op \in {"expire", "logout"} /\ r.key = k

\* No two tokens come from one request, and the token that is removed because
\* it is over is over whenever it is still there.
KeysInv ==
  /\ \A id \in Student : token[id] # None => token[id].key <= jobs
  /\ \A w \in Worker : Issuing(job[w]) => job[w].n <= jobs
  /\ \A w \in Worker, k \in Nat : Removing(job[w], k) => k <= jobs
  /\ \A w \in Worker, id \in Student :
       Issuing(job[w]) /\ token[id] # None => token[id].key # job[w].n
  /\ \A w, v \in Worker : w # v /\ Issuing(job[w]) =>
       /\ Issuing(job[v]) => job[v].n # job[w].n
       /\ ~Removing(job[v], job[w].n)
  /\ \A w \in Worker, id \in Student :
       /\ job[w].op \in {"expire", "issue"}
       /\ id = job[w].id /\ token[id] # None /\ Removing(job[w], token[id].key)
       => Expired(token[id])

\* What is shown to be inductive.
AccountsIInv ==
  /\ TypeInv /\ RowsInv /\ OwnedInv /\ OneSeatOneStudent
  /\ RotationsInv /\ RevealsInv /\ KeysInv

-----------------------------------------------------------------------------
(* Types are kept *)

\* One lemma per part of the state that a request rewrites.
LEMMA TypeKept ==
  ASSUME TypeInv, NEW w \in Worker, NEW r \in Requests,
         Begin(w, r) \/ Continue(w, r),
         UNCHANGED <<account, held, token, snapshot, reveals, staff>>
  PROVE  TypeInv'
<1>1. job' \in [Worker -> Requests] /\ jobs' \in Nat
  BY BeginType, ContinueType DEF TypeInv
<1>2. QED
  BY <1>1 DEF TypeInv

LEMMA TokenStepType ==
  ASSUME TypeInv, NEW w \in Worker, TokenStep(w)
  PROVE  TypeInv'
<1>1. \A id \in Student : token[id] # None => token[id] \in Session /\ token[id].key \in Nat
  BY DEF TypeInv, Session
<1>2. jobs \in Nat /\ job[w] \in Requests
  BY DEF TypeInv
<1>3. CASE ReadToken(w)
  <2>1. job[w].id \in Student /\ job[w].n \in Nat
    BY <1>2, <1>3, RequestFacts DEF ReadToken
  <2>2. PICK r \in Requests : Continue(w, r)
    <3> DEFINE old == IF token[job[w].id] = None THEN job[w].n ELSE token[job[w].id].key
               r == [op |-> "issue", id |-> job[w].id, n |-> job[w].n, old |-> old]
    <3>1. old \in Nat
      BY <1>1, <2>1
    <3> HIDE DEF old
    <3>2. r \in Requests
      BY <2>1, <3>1 DEF Requests
    <3>3. Continue(w, Idle) \/ Continue(w, r)
      BY <1>3 DEF ReadToken, old
    <3>4. QED
      BY <3>2, <3>3, IdleRequest
  <2>3. QED
    BY <1>3, <2>2, TypeKept DEF ReadToken
<1>4. CASE IssueToken(w)
  <2>1. job[w].id \in Student /\ job[w].n \in Nat /\ job[w].old \in Nat
    BY <1>2, <1>4, RequestFacts DEF IssueToken
  <2>2. Token(job[w].n) \in Session
    BY <2>1 DEF Token, Session
  <2>3. token' \in [Student -> Session \union {None}]
    BY <1>4, <2>1, <2>2 DEF IssueToken, TypeInv, Without
  <2>4. job' \in [Worker -> Requests] /\ jobs' \in Nat
    BY <1>4, IdleRequest, ContinueType DEF IssueToken, TypeInv
  <2>5. QED
    BY <1>4, <2>3, <2>4 DEF IssueToken, TypeInv
<1>5. CASE DropToken(w)
  <2>1. job[w].id \in Student /\ job[w].key \in Nat
    BY <1>2, <1>5, RequestFacts DEF DropToken
  <2>2. token' \in [Student -> Session \union {None}]
    BY <1>5, <2>1 DEF DropToken, TypeInv, Without
  <2>3. job' \in [Worker -> Requests] /\ jobs' \in Nat
    BY <1>5, IdleRequest, ContinueType DEF DropToken, TypeInv
  <2>4. QED
    BY <1>5, <2>2, <2>3 DEF DropToken, TypeInv
<1>6. ASSUME NEW id \in Student, Authenticate(w, id)
      PROVE  TypeInv'
  <2> DEFINE op == IF Expired(token[id]) THEN "expire" ELSE "logout"
             r == [op |-> op, id |-> id, key |-> token[id].key]
  <2>1. op \in {"expire", "logout"} /\ token[id].key \in Nat
    BY <1>1, <1>6 DEF Authenticate
  <2>2. Begin(w, r)
    BY <1>6 DEF Authenticate
  <2> HIDE DEF op
  <2>3. r \in Requests
    BY <2>1 DEF Requests
  <2>4. QED
    BY <1>6, <2>2, <2>3, TypeKept DEF Authenticate
<1>7. ASSUME NEW id \in Student, NEW p \in Password, Login(w, id, p)
      PROVE  TypeInv'
  <2> DEFINE r == [op |-> "login", id |-> id, n |-> jobs + 1]
  <2>1. r \in Requests
    BY <1>2 DEF Requests
  <2>2. Begin(w, r)
    BY <1>7 DEF Login
  <2> HIDE DEF r
  <2>3. QED
    BY <1>7, <2>1, <2>2, TypeKept DEF Login
<1>8. QED
  BY <1>3, <1>4, <1>5, <1>6, <1>7 DEF TokenStep

LEMMA RowTypes ==
  ASSUME TypeInv, NEW id \in Student, Known(id)
  PROVE  account[id] \in Row /\ account[id].seat \in Seat
  BY DEF TypeInv, Known, Row

LEMMA ProfileStepType ==
  ASSUME TypeInv, NEW w \in Worker, ProfileStep(w)
  PROVE  TypeInv'
<1>1. jobs \in Nat /\ job[w] \in Requests
  BY DEF TypeInv
<1>2. ASSUME NEW seat \in Seat, NEW p \in Password, Register(w, seat, p)
      PROVE  TypeInv'
  <2> DEFINE r == [op |-> "register", seat |-> seat, password |-> p, n |-> jobs + 1]
  <2>1. r \in Requests
    BY <1>1 DEF Requests
  <2>2. Begin(w, r)
    BY <1>2 DEF Register
  <2> HIDE DEF r
  <2>3. QED
    BY <1>2, <2>1, <2>2, TypeKept DEF Register
<1>3. ASSUME NEW id \in Student, NEW k \in Key, InsertStudent(w, id, k)
      PROVE  TypeInv'
  <2> DEFINE r == job[w]
  <2>1. r.seat \in Seat /\ r.password \in Password /\ r.n \in Nat
    BY <1>1, <1>3, RequestFacts DEF InsertStudent
  <2>2. Secured(r.seat, r.password, k) \in Row /\ Token(r.n) \in Session
    BY <2>1, SecuredRow DEF Token, Session
  <2>3. /\ account' \in [Student -> Row \union {None}]
        /\ held' \in [Student -> SUBSET Seat]
        /\ token' \in [Student -> Session \union {None}]
    BY <1>3, <2>1, <2>2 DEF InsertStudent, TypeInv
  <2>4. job' \in [Worker -> Requests] /\ jobs' \in Nat
    BY <1>3, IdleRequest, ContinueType DEF InsertStudent, TypeInv
  <2>5. QED
    BY <1>3, <2>3, <2>4 DEF InsertStudent, TypeInv
<1>4. ASSUME NEW t \in Teacher, NEW id \in Student, FindToDelete(w, t, id)
      PROVE  TypeInv'
  <2>1. [op |-> "delete", id |-> id] \in Requests
    BY DEF Requests
  <2>2. QED
    BY <1>4, <2>1, TypeKept DEF FindToDelete
<1>5. ASSUME NEW t \in Teacher, NEW id \in Student, NEW seat \in Seat \union {None},
             Put(w, t, id, seat)
      PROVE  TypeInv'
  <2> DEFINE r == [op |-> "put", id |-> id, row |-> account[id], seat |-> seat]
  <2>1. account[id] \in Row
    BY <1>5, RowTypes DEF Put
  <2>2. r \in Requests
    BY <2>1 DEF Requests
  <2>3. Begin(w, r)
    BY <1>5 DEF Put
  <2> HIDE DEF r
  <2>4. QED
    BY <1>5, <2>2, <2>3, TypeKept DEF Put
<1>6. CASE SaveStudent(w)
  <2> DEFINE r == job[w]
             seat == IF r.seat = None THEN r.row.seat ELSE r.seat
             rename == [op |-> "rename", id |-> r.id, seat |-> r.seat]
  <2>1. r.id \in Student /\ r.row \in Row /\ r.seat \in Seat \union {None}
    BY <1>1, <1>6, RequestFacts DEF SaveStudent
  <2>2. seat \in Seat
    BY <2>1 DEF Row
  <2>3. [r.row EXCEPT !.seat = seat] \in Row
    BY <2>1, <2>2, MovedRow
  <2>4. account' \in [Student -> Row \union {None}] /\ held' \in [Student -> SUBSET Seat]
    <3>1. CASE UniqueSeat(seat, r.id)
      <4>1. /\ account' = [account EXCEPT ![r.id] = [r.row EXCEPT !.seat = seat]]
            /\ held' = [held EXCEPT ![r.id] = @ \union {seat}]
        BY <1>6, <3>1 DEF SaveStudent
      <4> HIDE DEF seat
      <4>2. QED
        BY <2>1, <2>2, <2>3, <4>1 DEF TypeInv
    <3>2. CASE ~UniqueSeat(seat, r.id)
      BY <1>6, <3>2 DEF SaveStudent, TypeInv
    <3>3. QED
      BY <3>1, <3>2
  <2>5. r.seat # None => rename \in Requests
    BY <2>1 DEF Requests
  <2>6. Continue(w, Idle) \/ (r.seat # None /\ Continue(w, rename))
    BY <1>6 DEF SaveStudent
  <2> HIDE DEF rename
  <2>7. job' \in [Worker -> Requests] /\ jobs' \in Nat
    BY <2>5, <2>6, IdleRequest, ContinueType DEF TypeInv
  <2>8. QED
    BY <1>6, <2>4, <2>7 DEF SaveStudent, TypeInv
<1>7. CASE RenameSubmissions(w)
  <2>1. job[w].id \in Student /\ job[w].seat \in Seat
    BY <1>1, <1>7, RequestFacts DEF RenameSubmissions
  <2>2. snapshot' \in [Student -> Seat \union {None}]
    BY <1>7, <2>1 DEF RenameSubmissions, TypeInv
  <2>3. job' \in [Worker -> Requests] /\ jobs' \in Nat
    BY <1>7, IdleRequest, ContinueType DEF RenameSubmissions, TypeInv
  <2>4. QED
    BY <1>7, <2>2, <2>3 DEF RenameSubmissions, TypeInv
<1>8. CASE DeleteStudent(w)
  <2>1. job[w].id \in Student
    BY <1>1, <1>8, RequestFacts DEF DeleteStudent
  <2>2. /\ account' \in [Student -> Row \union {None}]
        /\ token' \in [Student -> Session \union {None}]
        /\ snapshot' \in [Student -> Seat \union {None}]
    BY <1>8, <2>1 DEF DeleteStudent, TypeInv
  <2>3. job' \in [Worker -> Requests] /\ jobs' \in Nat
    BY <1>8, IdleRequest, ContinueType DEF DeleteStudent, TypeInv
  <2>4. QED
    BY <1>8, <2>2, <2>3 DEF DeleteStudent, TypeInv
<1>9. ASSUME NEW id \in Student, StartQuiz(w, id)
      PROVE  TypeInv'
  <2> DEFINE r == [op |-> "start", id |-> id, seat |-> account[id].seat]
  <2>1. account[id].seat \in Seat
    BY <1>9, RowTypes DEF StartQuiz
  <2>2. r \in Requests
    BY <2>1 DEF Requests
  <2>3. Begin(w, r)
    BY <1>9 DEF StartQuiz
  <2> HIDE DEF r
  <2>4. QED
    BY <1>9, <2>2, <2>3, TypeKept DEF StartQuiz
<1>10. CASE CreateSubmission(w)
  <2>1. job[w].id \in Student /\ job[w].seat \in Seat
    BY <1>1, <1>10, RequestFacts DEF CreateSubmission
  <2>2. snapshot' \in [Student -> Seat \union {None}]
    BY <1>10, <2>1 DEF CreateSubmission, TypeInv
  <2>3. job' \in [Worker -> Requests] /\ jobs' \in Nat
    BY <1>10, IdleRequest, ContinueType DEF CreateSubmission, TypeInv
  <2>4. QED
    BY <1>10, <2>2, <2>3 DEF CreateSubmission, TypeInv
<1>11. QED
  BY <1>2, <1>3, <1>4, <1>5, <1>6, <1>7, <1>8, <1>9, <1>10 DEF ProfileStep

\* What audits do to the attempts of the teachers.
LEMMA AuditType ==
  ASSUME TypeInv, NEW t \in Teacher, NEW told, Audit(t, told)
  PROVE  /\ reveals' = [u \in Teacher |-> reveals'[u]]
         /\ \A u \in Teacher : IsFiniteSet(reveals'[u])
         /\ \A u \in Teacher : \A a \in reveals'[u] : AuditRecord(a)
<1> DEFINE new == [n |-> FreeKey(t), told |-> told, age |-> 0]
<1>1. AuditRecord(new)
  BY DEF AuditRecord
<1>2. reveals' = [reveals EXCEPT ![t] = @ \union {new}]
  BY DEF Audit
<1> HIDE DEF new
<1>3. /\ reveals' = [u \in Teacher |-> reveals'[u]]
      /\ reveals'[t] = reveals[t] \union {new}
      /\ \A u \in Teacher : u # t => reveals'[u] = reveals[u]
  BY <1>2 DEF TypeInv
<1>4. IsFiniteSet(reveals[t] \union {new})
  BY FS_AddElement DEF TypeInv
<1>5. ASSUME NEW u \in Teacher
      PROVE  IsFiniteSet(reveals'[u]) /\ \A a \in reveals'[u] : AuditRecord(a)
  <2>1. IsFiniteSet(reveals[u]) /\ \A a \in reveals[u] : AuditRecord(a)
    BY DEF TypeInv
  <2>2. CASE u = t
    BY <1>1, <1>3, <1>4, <2>1, <2>2
  <2>3. CASE u # t
    BY <1>3, <2>1, <2>3
  <2>4. QED
    BY <2>2, <2>3
<1>6. QED
  BY <1>3, <1>5

LEMMA PasswordStepType ==
  ASSUME TypeInv, NEW w \in Worker, PasswordStep(w)
  PROVE  TypeInv'
<1>1. jobs \in Nat /\ job[w] \in Requests /\ staff \subseteq Teacher
  BY DEF TypeInv
<1>2. ASSUME NEW t \in Teacher, Dismiss(w, t)
      PROVE  TypeInv'
  <2>1. job' \in [Worker -> Requests] /\ jobs' \in Nat
    BY <1>2, IdleRequest, BeginType DEF Dismiss, TypeInv
  <2>2. QED
    BY <1>2, <2>1 DEF Dismiss, TypeInv
<1>3. ASSUME NEW t \in Teacher, NEW id \in Student, AskPassword(w, t, id)
      PROVE  TypeInv'
  <2>1. [op |-> "ask", by |-> t, id |-> id] \in Requests
    BY DEF Requests
  <2>2. QED
    BY <1>3, <2>1, TypeKept DEF AskPassword
<1>4. ASSUME NEW t \in Teacher, NEW id \in Student, NEW p \in Password, NEW k \in Key,
             ResetPassword(w, t, id, p, k)
      PROVE  TypeInv'
  <2>1. Secured(account[id].seat, p, k) \in Row
    BY <1>4, RowTypes, SecuredRow DEF ResetPassword
  <2>2. /\ account' \in [Student -> Row \union {None}]
        /\ token' \in [Student -> Session \union {None}]
    BY <1>4, <2>1 DEF ResetPassword, TypeInv
  <2>3. job' \in [Worker -> Requests] /\ jobs' \in Nat
    BY <1>4, IdleRequest, BeginType DEF ResetPassword, TypeInv
  <2>4. QED
    BY <1>4, <2>2, <2>3 DEF ResetPassword, TypeInv
<1>5. CASE CountReveals(w)
  <2>1. /\ job[w].by \in Teacher /\ job[w].id \in Student
        /\ job[w] = [op |-> "ask", by |-> job[w].by, id |-> job[w].id]
    BY <1>1, <1>5, RequestFacts DEF CountReveals
  <2>2. [job[w] EXCEPT !.op = "reveal"] = [op |-> "reveal", by |-> job[w].by, id |-> job[w].id]
    BY <2>1
  <2>3. [job[w] EXCEPT !.op = "reveal"] \in Requests
    BY <2>1, <2>2 DEF Requests
  <2>4. CASE Continue(w, [job[w] EXCEPT !.op = "reveal"]) /\ UNCHANGED reveals
    BY <1>5, <2>3, <2>4, TypeKept DEF CountReveals
  <2>5. CASE Continue(w, Idle) /\ Audit(job[w].by, FALSE)
    <3>1. job' \in [Worker -> Requests] /\ jobs' \in Nat
      BY <2>5, IdleRequest, ContinueType DEF TypeInv
    <3>2. QED
      BY <1>5, <2>1, <2>5, <3>1, AuditType DEF CountReveals, TypeInv
  <2>6. QED
    BY <1>5, <2>4, <2>5 DEF CountReveals
<1>6. CASE Reveal(w)
  <2>1. job[w].by \in Teacher
    BY <1>1, <1>6, RequestFacts DEF Reveal
  <2>2. job' \in [Worker -> Requests] /\ jobs' \in Nat
    BY <1>6, IdleRequest, ContinueType DEF Reveal, TypeInv
  <2>3. PICK told : Audit(job[w].by, told)
    BY <1>6 DEF Reveal
  <2>4. QED
    BY <1>6, <2>1, <2>2, <2>3, AuditType DEF Reveal, TypeInv
<1>7. CASE LockRows(w)
  <2> DEFINE rows == [id \in {i \in Student : Available(i)} |-> account[id]]
             r == [op |-> "rotate", rows |-> rows]
  <2>1. \A id \in Student : Available(id) => account[id] \in Row
    BY RowTypes DEF Available
  <2>2. rows \in [{i \in Student : Available(i)} -> Row]
    BY <2>1
  <2>3. rows \in Locked
    BY <2>2 DEF Locked
  <2>4. Begin(w, r)
    BY <1>7 DEF LockRows
  <2> HIDE DEF rows
  <2>5. r \in Requests
    BY <2>3 DEF Requests
  <2> HIDE DEF r
  <2>6. QED
    BY <1>7, <2>4, <2>5, TypeKept DEF LockRows
<1>8. CASE RotateKeys(w)
  <2>1. job[w].rows \in Locked
    BY <1>1, <1>8, RequestFacts DEF RotateKeys
  <2>2. \A id \in DOMAIN job[w].rows : job[w].rows[id].hash \in Password
    BY <2>1, LockedFacts DEF Row
  <2>3. \A id \in Student : account'[id] = account[id]
          \/ /\ id \in DOMAIN job[w].rows /\ Known(id)
             /\ account'[id] = Rewrapped(account[id], job[w].rows[id].hash)
    BY <1>8 DEF RotateKeys, Rewrapped
  <2>4. ASSUME NEW id \in Student
        PROVE  account'[id] \in Row \union {None}
    <3>1. account[id] \in Row \union {None}
      BY DEF TypeInv
    <3>2. CASE account'[id] = account[id]
      BY <3>1, <3>2
    <3>3. CASE /\ id \in DOMAIN job[w].rows /\ Known(id)
               /\ account'[id] = Rewrapped(account[id], job[w].rows[id].hash)
      <4>1. account[id] \in Row /\ job[w].rows[id].hash \in Password
        BY <2>2, <3>3, RowTypes
      <4>2. Rewrapped(account[id], job[w].rows[id].hash) \in Row
        BY <4>1, RewrappedRow
      <4>3. QED
        BY <3>3, <4>2
    <3>4. QED
      BY <2>3, <3>2, <3>3
  <2>5. account' = [id \in Student |-> account'[id]]
    BY <1>8 DEF RotateKeys
  <2>6. job' \in [Worker -> Requests] /\ jobs' \in Nat
    BY <1>8, IdleRequest, ContinueType DEF RotateKeys, TypeInv
  <2>7. QED
    BY <1>8, <2>4, <2>5, <2>6 DEF RotateKeys, TypeInv
<1>9. QED
  BY <1>2, <1>3, <1>4, <1>5, <1>6, <1>7, <1>8 DEF PasswordStep

\* An attempt as time passes.
LEMMA OlderRecord ==
  ASSUME NEW b, AuditRecord(b)
  PROVE  AuditRecord(Older(b)) /\ Older(b).told = b.told
<1>1. Older(b) = [n |-> b.n, told |-> b.told, age |-> b.age + 1]
  BY DEF AuditRecord, Older
<1>2. QED
  BY <1>1 DEF AuditRecord

\* A token as time passes.
LEMMA OlderToken ==
  ASSUME TypeInv, TimePasses, NEW id \in Student
  PROVE  /\ token'[id] \in Session \union {None}
         /\ token'[id] = None <=> token[id] = None
         /\ token[id] # None => token'[id].key = token[id].key
         /\ token[id] # None /\ Expired(token[id]) => token'[id] = token[id]
<1>1. token[id] \in Session \union {None}
  BY DEF TypeInv
<1>2. CASE ValidToken(id)
  <2>1. token[id] \in Session /\ token[id].age + 1 \in 0..TokenLife
    BY <1>1, <1>2 DEF ValidToken, Expired, Session
  <2>2. [token[id] EXCEPT !.age = token[id].age + 1] \in Session
    BY <2>1 DEF Session
  <2>3. token'[id] = [token[id] EXCEPT !.age = token[id].age + 1]
    BY <1>2 DEF TimePasses
  <2>4. token'[id].key = token[id].key
    BY <2>1, <2>3 DEF Session
  <2>5. QED
    BY <1>2, <2>1, <2>2, <2>3, <2>4 DEF ValidToken
<1>3. CASE ~ValidToken(id)
  BY <1>1, <1>3 DEF TimePasses
<1>4. QED
  BY <1>2, <1>3

\* Time makes attempts older and lets some go.
LEMMA OlderSet ==
  ASSUME NEW S, IsFiniteSet(S), NEW T, \A a \in T : \E b \in S : a = Older(b)
  PROVE  IsFiniteSet(T) /\ Cardinality(T) <= Cardinality(S)
<1> DEFINE R == {b \in S : Older(b) \in T}
           f == [b \in R |-> Older(b)]
<1>1. IsFiniteSet(R) /\ Cardinality(R) <= Cardinality(S)
  BY FS_Subset
<1>2. f \in [R -> T] /\ \A a \in T : \E b \in R : f[b] = a
  OBVIOUS
<1>3. f \in Surjection(R, T)
  BY <1>2 DEF Surjection
<1> HIDE DEF R, f
<1>4. IsFiniteSet(T) /\ Cardinality(T) <= Cardinality(R)
  BY <1>1, <1>3, FS_Surjection
<1>5. Cardinality(T) \in Nat /\ Cardinality(R) \in Nat /\ Cardinality(S) \in Nat
  BY <1>1, <1>4, FS_CardinalityType
<1>6. QED
  BY <1>1, <1>4, <1>5

LEMMA TimeType ==
  ASSUME TypeInv, TimePasses
  PROVE  TypeInv'
<1>1. token' \in [Student -> Session \union {None}]
  <2>1. token' = [id \in Student |-> token'[id]]
    BY DEF TimePasses
  <2>2. QED
    BY <2>1, OlderToken
<1>2. ASSUME NEW t \in Teacher
      PROVE  IsFiniteSet(reveals'[t]) /\ \A a \in reveals'[t] : AuditRecord(a)
  <2>1. reveals'[t] \subseteq {Older(b) : b \in reveals[t]}
    BY DEF TimePasses
  <2>2. IsFiniteSet(reveals[t]) /\ \A b \in reveals[t] : AuditRecord(b)
    BY DEF TypeInv
  <2>3. IsFiniteSet(reveals'[t])
    BY <2>1, <2>2, OlderSet
  <2>4. QED
    BY <2>1, <2>2, <2>3, OlderRecord
<1>3. reveals' = [t \in Teacher |-> reveals'[t]]
  BY DEF TimePasses
<1>4. QED
  BY <1>1, <1>2, <1>3 DEF TimePasses, TypeInv

LEMMA StepType ==
  ASSUME TypeInv, [AccountsNext]_accountVars
  PROVE  TypeInv'
<1>1. CASE UNCHANGED accountVars
  BY <1>1 DEF accountVars, TypeInv
<1>2. QED
  BY <1>1, TokenStepType, ProfileStepType, PasswordStepType, TimeType DEF AccountsNext

-----------------------------------------------------------------------------
(* What a request does to the requests under way *)

LEMMA BeginJob ==
  ASSUME TypeInv, NEW w \in Worker, NEW r, Begin(w, r)
  PROVE  /\ job[w] = Idle /\ job'[w] = r /\ jobs' = jobs + 1
         /\ \A v \in Worker : v # w => job'[v] = job[v]
  BY DEF TypeInv, Begin

LEMMA ContinueJob ==
  ASSUME TypeInv, NEW w \in Worker, NEW r, Continue(w, r)
  PROVE  /\ job'[w] = r /\ jobs' = jobs
         /\ \A v \in Worker : v # w => job'[v] = job[v]
  BY DEF TypeInv, Continue

\* The request of worker w is r afterwards.
Becomes(w, r) ==
  /\ job'[w] = r
  /\ jobs' \in {jobs, jobs + 1}
  /\ \A v \in Worker : v # w => job'[v] = job[v]

LEMMA Becoming ==
  ASSUME TypeInv, NEW w \in Worker, NEW r, Begin(w, r) \/ Continue(w, r)
  PROVE  Becomes(w, r)
  BY BeginJob, ContinueJob DEF Becomes

\* One worker's request changes at a time.
LEMMA OneWorker ==
  ASSUME TypeInv, NEW w \in Worker, TokenStep(w) \/ ProfileStep(w) \/ PasswordStep(w)
  PROVE  Becomes(w, job'[w])
<1>1. \A r : Begin(w, r) \/ Continue(w, r) => Becomes(w, job'[w])
  BY Becoming DEF Becomes
<1> HIDE DEF Begin, Continue
<1>2. TokenStep(w) => Becomes(w, job'[w])
  BY <1>1 DEF TokenStep, ReadToken, IssueToken, DropToken, Authenticate, Login
<1>3. ProfileStep(w) => Becomes(w, job'[w])
  <2>1. ASSUME SaveStudent(w)
        PROVE  Becomes(w, job'[w])
    BY <1>1, <2>1 DEF SaveStudent
  <2>2. QED
    BY <1>1, <2>1 DEF ProfileStep, Register, InsertStudent, FindToDelete, Put,
         RenameSubmissions, DeleteStudent, StartQuiz, CreateSubmission
<1>4. PasswordStep(w) => Becomes(w, job'[w])
  BY <1>1 DEF PasswordStep, Dismiss, AskPassword, ResetPassword, CountReveals, Reveal,
       LockRows, RotateKeys
<1>5. QED
  BY <1>2, <1>3, <1>4

\* The requests about tokens, after their statements.
LEMMA TokenJobs ==
  ASSUME TypeInv, NEW w \in Worker, TokenStep(w)
  PROVE  /\ Becomes(w, job'[w])
         /\ job'[w].op \in {"idle", "login", "issue", "expire", "logout"}
         /\ UNCHANGED <<account, held, snapshot, reveals, staff>>
<1>1. Becomes(w, job'[w])
  BY OneWorker
<1>2. \A r : Begin(w, r) \/ Continue(w, r) => job'[w] = r
  BY Becoming DEF Becomes
<1> HIDE DEF Begin, Continue
<1>3. CASE ReadToken(w)
  BY <1>1, <1>2, <1>3 DEF ReadToken, Idle
<1>4. CASE IssueToken(w) \/ DropToken(w)
  BY <1>1, <1>2, <1>4 DEF IssueToken, DropToken, Idle
<1>5. ASSUME NEW id \in Student, Authenticate(w, id)
      PROVE  /\ job'[w].op \in {"expire", "logout"}
             /\ UNCHANGED <<account, held, snapshot, reveals, staff>>
  BY <1>2, <1>5 DEF Authenticate
<1>6. ASSUME NEW id \in Student, NEW p \in Password, Login(w, id, p)
      PROVE  /\ job'[w].op = "login"
             /\ UNCHANGED <<account, held, snapshot, reveals, staff>>
  BY <1>2, <1>6 DEF Login
<1>7. QED
  BY <1>1, <1>3, <1>4, <1>5, <1>6 DEF TokenStep

\* The requests about profiles, after their statements.
LEMMA ProfileJobs ==
  ASSUME TypeInv, NEW w \in Worker
  PROVE  /\ \A seat \in Seat, p \in Password : Register(w, seat, p) =>
              /\ job'[w] = [op |-> "register", seat |-> seat, password |-> p, n |-> jobs + 1]
              /\ jobs' = jobs + 1
         /\ \A id \in Student, k \in Key : InsertStudent(w, id, k) =>
              job'[w] = Idle /\ jobs' = jobs
         /\ \A t \in Teacher, id \in Student : FindToDelete(w, t, id) =>
              job'[w] = [op |-> "delete", id |-> id]
         /\ \A t \in Teacher, id \in Student, seat \in Seat \union {None} :
              Put(w, t, id, seat) =>
                job'[w] = [op |-> "put", id |-> id, row |-> account[id], seat |-> seat]
         /\ SaveStudent(w) =>
              \/ job'[w] = Idle
              \/ /\ job[w].seat # None /\ UniqueSeat(job[w].seat, job[w].id)
                 /\ job'[w] = [op |-> "rename", id |-> job[w].id, seat |-> job[w].seat]
         /\ RenameSubmissions(w) \/ DeleteStudent(w) \/ CreateSubmission(w) => job'[w] = Idle
         /\ \A id \in Student : StartQuiz(w, id) =>
              job'[w] = [op |-> "start", id |-> id, seat |-> account[id].seat]
<1>1. \A r : Begin(w, r) => job'[w] = r /\ jobs' = jobs + 1
  BY BeginJob
<1>2. \A r : Continue(w, r) => job'[w] = r /\ jobs' = jobs
  BY ContinueJob
<1> HIDE DEF Begin, Continue
<1>3. SaveStudent(w) =>
        \/ job'[w] = Idle
        \/ /\ job[w].seat # None /\ UniqueSeat(job[w].seat, job[w].id)
           /\ job'[w] = [op |-> "rename", id |-> job[w].id, seat |-> job[w].seat]
  BY <1>2 DEF SaveStudent
<1>4. RenameSubmissions(w) \/ DeleteStudent(w) \/ CreateSubmission(w) => job'[w] = Idle
  BY <1>2 DEF RenameSubmissions, DeleteStudent, CreateSubmission
<1>5. \A id \in Student, k \in Key : InsertStudent(w, id, k) => job'[w] = Idle /\ jobs' = jobs
  BY <1>2 DEF InsertStudent
<1>6. QED
  BY <1>1, <1>3, <1>4, <1>5 DEF Register, FindToDelete, Put, StartQuiz

\* The requests about passwords, after their statements.
LEMMA PasswordJobs ==
  ASSUME TypeInv, NEW w \in Worker
  PROVE  /\ \A t \in Teacher : Dismiss(w, t) => job'[w] = Idle
         /\ \A t \in Teacher, id \in Student : AskPassword(w, t, id) =>
              job'[w] = [op |-> "ask", by |-> t, id |-> id]
         /\ \A t \in Teacher, id \in Student, p \in Password, k \in Key :
              ResetPassword(w, t, id, p, k) => job'[w] = Idle
         /\ CountReveals(w) =>
              \/ job'[w] = Idle
              \/ /\ Recent(job[w].by) < RevealLimit /\ UNCHANGED reveals
                 /\ job'[w] = [op |-> "reveal", by |-> job[w].by, id |-> job[w].id]
         /\ Reveal(w) \/ RotateKeys(w) => job'[w] = Idle
         /\ LockRows(w) =>
              job'[w] = [op |-> "rotate",
                         rows |-> [id \in {i \in Student : Available(i)} |-> account[id]]]
<1>1. \A r : Begin(w, r) \/ Continue(w, r) => job'[w] = r
  BY Becoming DEF Becomes
<1> HIDE DEF Begin, Continue
<1>2. ASSUME CountReveals(w)
      PROVE  \/ job'[w] = Idle
             \/ /\ Recent(job[w].by) < RevealLimit /\ UNCHANGED reveals
                /\ job'[w] = [op |-> "reveal", by |-> job[w].by, id |-> job[w].id]
  <2>1. job[w] \in Requests
    BY DEF TypeInv
  <2>2. job[w] = [op |-> "ask", by |-> job[w].by, id |-> job[w].id]
    BY <1>2, <2>1, RequestFacts DEF CountReveals
  <2>3. [job[w] EXCEPT !.op = "reveal"] = [op |-> "reveal", by |-> job[w].by, id |-> job[w].id]
    BY <2>2
  <2>4. QED
    BY <1>1, <1>2, <2>3 DEF CountReveals
<1>3. Reveal(w) \/ RotateKeys(w) => job'[w] = Idle
  BY <1>1 DEF Reveal, RotateKeys
<1>4. LockRows(w) =>
        job'[w] = [op |-> "rotate",
                   rows |-> [id \in {i \in Student : Available(i)} |-> account[id]]]
  BY <1>1 DEF LockRows
<1>5. QED
  BY <1>1, <1>2, <1>3, <1>4 DEF Dismiss, AskPassword, ResetPassword

-----------------------------------------------------------------------------
(* Rows stay sound *)

LEMMA SecuredSound ==
  ASSUME NEW seat \in Seat, NEW p \in Password, NEW k \in Key
  PROVE  Sound(Secured(seat, p, k)) /\ Secured(seat, p, k).seat = seat
<1>1. [text |-> p, under |-> k] \in Cipher
  BY DEF Cipher
<1>2. QED
  BY <1>1 DEF Sound, Secured, Decrypt

LEMMA LegacySound ==
  ASSUME NEW seat \in Seat, NEW p \in Password
  PROVE  Sound(Legacy(seat, p)) /\ Legacy(seat, p).seat = seat
  BY DEF Sound, Legacy, Decrypt

LEMMA MovedSound ==
  ASSUME NEW r \in Row, NEW seat \in Seat, Sound(r)
  PROVE  Sound([r EXCEPT !.seat = seat])
  BY MovedRow DEF Sound

\* Only an available row is rewrapped, and from its own hash.
LEMMA RewrappedSound ==
  ASSUME NEW r \in Row, r.status = "available"
  PROVE  Sound(Rewrapped(r, r.hash))
<1>1. r.hash \in Password /\ [text |-> r.hash, under |-> NewKey] \in Cipher
  BY DEF Row, Cipher
<1>2. QED
  BY <1>1, RewrappedRow DEF Sound, Decrypt

\* Requests that do not write rows.
LEMMA RowsQuiet ==
  ASSUME TypeInv, RowsInv, NEW w \in Worker, Becomes(w, job'[w]),
         job'[w].op = "put" => Sound(job'[w].row), UNCHANGED <<account, held>>
  PROVE  RowsInv'
  BY DEF RowsInv, Becomes, Known

\* A row that becomes sound, or none, with a seat its student has had.
LEMMA RowsWritten ==
  ASSUME TypeInv, RowsInv, NEW w \in Worker, Becomes(w, job'[w]), job'[w].op # "put",
         \A id \in Student :
           \/ account'[id] = None
           \/ account'[id] = account[id] /\ held[id] \subseteq held'[id]
           \/ Sound(account'[id]) /\ account'[id].seat \in held'[id]
  PROVE  RowsInv'
  BY DEF RowsInv, Becomes, Known

LEMMA TokenStepRows ==
  ASSUME TypeInv, RowsInv, NEW w \in Worker, TokenStep(w)
  PROVE  RowsInv'
<1>1. /\ Becomes(w, job'[w]) /\ UNCHANGED <<account, held>>
      /\ job'[w].op \in {"idle", "login", "issue", "expire", "logout"}
  BY TokenJobs
<1>2. QED
  BY <1>1, RowsQuiet

LEMMA ProfileStepRows ==
  ASSUME TypeInv, RowsInv, NEW w \in Worker, ProfileStep(w)
  PROVE  RowsInv'
<1>1. Becomes(w, job'[w]) /\ job[w] \in Requests
  BY OneWorker DEF TypeInv
<1>2. ASSUME NEW seat \in Seat, NEW p \in Password, Register(w, seat, p)
      PROVE  RowsInv'
  <2>1. job'[w].op = "register" /\ UNCHANGED <<account, held>>
    BY <1>2, BeginJob DEF Register
  <2>2. QED
    BY <1>1, <2>1, RowsQuiet
<1>3. ASSUME NEW id \in Student, NEW k \in Key, InsertStudent(w, id, k)
      PROVE  RowsInv'
  <2> DEFINE r == job[w]
  <2>1. r.seat \in Seat /\ r.password \in Password
    BY <1>1, <1>3, RequestFacts DEF InsertStudent
  <2>2. Sound(Secured(r.seat, r.password, k)) /\ Secured(r.seat, r.password, k).seat = r.seat
    BY <2>1, SecuredSound
  <2>3. job'[w].op # "put"
    BY <1>3, ContinueJob DEF InsertStudent, Idle
  <2>4. CASE UniqueSeat(r.seat, id)
    <3>1. /\ account' = [account EXCEPT ![id] = Secured(r.seat, r.password, k)]
          /\ held' = [held EXCEPT ![id] = {r.seat}]
      BY <1>3, <2>4 DEF InsertStudent
    <3>2. \A i \in Student : /\ i # id => account'[i] = account[i] /\ held'[i] = held[i]
                             /\ account'[id] = Secured(r.seat, r.password, k)
                             /\ held'[id] = {r.seat}
      BY <3>1 DEF TypeInv
    <3>3. QED
      BY <1>1, <2>2, <2>3, <3>2, RowsWritten
  <2>5. CASE ~UniqueSeat(r.seat, id)
    BY <1>1, <1>3, <2>3, <2>5, RowsQuiet DEF InsertStudent
  <2>6. QED
    BY <2>4, <2>5
<1>4. ASSUME NEW t \in Teacher, NEW id \in Student, FindToDelete(w, t, id)
      PROVE  RowsInv'
  <2>1. job'[w].op = "delete" /\ UNCHANGED <<account, held>>
    BY <1>4, BeginJob DEF FindToDelete
  <2>2. QED
    BY <1>1, <2>1, RowsQuiet
<1>5. ASSUME NEW t \in Teacher, NEW id \in Student, NEW seat \in Seat \union {None},
             Put(w, t, id, seat)
      PROVE  RowsInv'
  <2>1. job'[w].row = account[id]
    BY <1>5, BeginJob DEF Put
  <2>2. Sound(account[id]) /\ UNCHANGED <<account, held>>
    BY <1>5 DEF Put, RowsInv
  <2>3. QED
    BY <1>1, <2>1, <2>2, RowsQuiet
<1>6. CASE SaveStudent(w)
  <2> DEFINE r == job[w]
             seat == IF r.seat = None THEN r.row.seat ELSE r.seat
  <2>1. r.id \in Student /\ r.row \in Row /\ r.seat \in Seat \union {None} /\ r.op = "put"
    BY <1>1, <1>6, RequestFacts DEF SaveStudent
  <2>2. seat \in Seat
    BY <2>1 DEF Row
  <2> DEFINE rename == [op |-> "rename", id |-> r.id, seat |-> r.seat]
  <2>0. job'[w] = Idle \/ job'[w] = rename
    BY <1>6, ProfileJobs
  <2>3. job'[w].op # "put"
    BY <2>0 DEF Idle
  <2>4. CASE UniqueSeat(seat, r.id)
    <3>1. /\ account' = [account EXCEPT ![r.id] = [r.row EXCEPT !.seat = seat]]
          /\ held' = [held EXCEPT ![r.id] = @ \union {seat}]
      BY <1>6, <2>4 DEF SaveStudent
    <3> HIDE DEF seat
    <3>2. Sound([r.row EXCEPT !.seat = seat]) /\ [r.row EXCEPT !.seat = seat].seat = seat
      BY <2>1, <2>2, MovedSound, MovedRow DEF RowsInv
    <3> DEFINE moved == [r.row EXCEPT !.seat = seat]
    <3> HIDE DEF moved
    <3>3. /\ account' = [account EXCEPT ![r.id] = moved]
          /\ Sound(moved) /\ moved.seat = seat
      BY <3>1, <3>2 DEF moved
    <3>4. \A i \in Student : /\ i # r.id => account'[i] = account[i] /\ held'[i] = held[i]
                             /\ account'[r.id] = moved
                             /\ held'[r.id] = held[r.id] \union {seat}
      BY <2>1, <3>1, <3>3 DEF TypeInv
    <3>5. QED
      BY <1>1, <2>3, <3>3, <3>4, RowsWritten
  <2>5. CASE ~UniqueSeat(seat, r.id)
    BY <1>1, <1>6, <2>3, <2>5, RowsQuiet DEF SaveStudent
  <2>6. QED
    BY <2>4, <2>5
<1>7. CASE RenameSubmissions(w) \/ CreateSubmission(w)
  <2>1. job'[w].op # "put" /\ UNCHANGED <<account, held>>
    BY <1>7, ContinueJob DEF Idle, RenameSubmissions, CreateSubmission
  <2>2. QED
    BY <1>1, <2>1, RowsQuiet
<1>8. CASE DeleteStudent(w)
  <2>1. job'[w].op # "put" /\ UNCHANGED held
    BY <1>8, ContinueJob DEF Idle, DeleteStudent
  <2>2. \A i \in Student : account'[i] = None \/ account'[i] = account[i]
    BY <1>8 DEF DeleteStudent, TypeInv
  <2>3. QED
    BY <1>1, <2>1, <2>2, RowsWritten
<1>9. ASSUME NEW id \in Student, StartQuiz(w, id)
      PROVE  RowsInv'
  <2>1. job'[w].op = "start" /\ UNCHANGED <<account, held>>
    BY <1>9, BeginJob DEF StartQuiz
  <2>2. QED
    BY <1>1, <2>1, RowsQuiet
<1>10. QED
  BY <1>2, <1>3, <1>4, <1>5, <1>6, <1>7, <1>8, <1>9 DEF ProfileStep

\* What a rotation writes, given that its rows are still as it read them.
LEMMA RotatedRows ==
  ASSUME TypeInv, RotationsInv, NEW w \in Worker, RotateKeys(w), NEW id \in Student
  PROVE  \/ account'[id] = account[id]
         \/ /\ id \in DOMAIN job[w].rows /\ Available(id)
            /\ account'[id] = Rewrapped(account[id], account[id].hash)
<1>1. \/ account'[id] = account[id]
      \/ /\ id \in DOMAIN job[w].rows /\ Known(id)
         /\ account'[id] = Rewrapped(account[id], job[w].rows[id].hash)
  BY DEF RotateKeys, Rewrapped
<1>2. id \in DOMAIN job[w].rows => Available(id) /\ job[w].rows[id] = account[id]
  BY DEF RotateKeys, RotationsInv
<1>3. QED
  BY <1>1, <1>2

LEMMA PasswordStepRows ==
  ASSUME TypeInv, RowsInv, RotationsInv, NEW w \in Worker, PasswordStep(w)
  PROVE  RowsInv'
<1>1. Becomes(w, job'[w]) /\ job[w] \in Requests
  BY OneWorker DEF TypeInv
<1>2. ASSUME NEW t \in Teacher, Dismiss(w, t)
      PROVE  RowsInv'
  <2>1. job'[w].op # "put" /\ UNCHANGED <<account, held>>
    BY <1>2, BeginJob DEF Idle, Dismiss
  <2>2. QED
    BY <1>1, <2>1, RowsQuiet
<1>3. ASSUME NEW t \in Teacher, NEW id \in Student, AskPassword(w, t, id)
      PROVE  RowsInv'
  <2>1. job'[w].op # "put" /\ UNCHANGED <<account, held>>
    BY <1>3, BeginJob DEF AskPassword
  <2>2. QED
    BY <1>1, <2>1, RowsQuiet
<1>4. ASSUME NEW t \in Teacher, NEW id \in Student, NEW p \in Password, NEW k \in Key,
             ResetPassword(w, t, id, p, k)
      PROVE  RowsInv'
  <2> DEFINE new == Secured(account[id].seat, p, k)
  <2>1. Known(id) /\ account[id].seat \in Seat /\ account[id].seat \in held[id]
    BY <1>4, RowTypes DEF ResetPassword, RowsInv
  <2>2. Sound(new) /\ new.seat = account[id].seat
    BY <2>1, SecuredSound
  <2> HIDE DEF new
  <2>3. account' = [account EXCEPT ![id] = new] /\ UNCHANGED held
    BY <1>4 DEF ResetPassword, new
  <2>4. \A i \in Student : /\ i # id => account'[i] = account[i]
                           /\ account'[id] = new
    BY <2>3 DEF TypeInv
  <2>5. job'[w].op # "put"
    BY <1>4, BeginJob DEF ResetPassword, Idle
  <2>6. QED
    BY <1>1, <2>1, <2>2, <2>3, <2>4, <2>5, RowsWritten
<1>5. CASE CountReveals(w) \/ Reveal(w) \/ LockRows(w)
  <2>0. \/ job'[w] = Idle
        \/ job'[w] = [op |-> "reveal", by |-> job[w].by, id |-> job[w].id]
        \/ job'[w] = [op |-> "rotate",
                      rows |-> [id \in {i \in Student : Available(i)} |-> account[id]]]
    BY <1>5, PasswordJobs
  <2>1. job'[w].op # "put"
    BY <2>0 DEF Idle
  <2>2. UNCHANGED <<account, held>>
    BY <1>5 DEF CountReveals, Reveal, LockRows
  <2>3. QED
    BY <1>1, <2>1, <2>2, RowsQuiet
<1>6. CASE RotateKeys(w)
  <2>0. job'[w] = Idle /\ UNCHANGED held
    BY <1>6, PasswordJobs DEF RotateKeys
  <2>1. job'[w].op # "put" /\ UNCHANGED held
    BY <2>0 DEF Idle
  <2>2. ASSUME NEW id \in Student
        PROVE  \/ account'[id] = account[id] /\ held[id] \subseteq held'[id]
               \/ Sound(account'[id]) /\ account'[id].seat \in held'[id]
    <3>1. CASE account'[id] = account[id]
      BY <2>1, <3>1
    <3>2. CASE Available(id) /\ account'[id] = Rewrapped(account[id], account[id].hash)
      <4>1. account[id] \in Row /\ account[id].status = "available"
        BY <3>2, RowTypes DEF Available
      <4>2. account[id].hash \in Password
        BY <4>1 DEF Row
      <4> DEFINE new == Rewrapped(account[id], account[id].hash)
      <4>3. Sound(new) /\ new.seat = account[id].seat
        BY <4>1, <4>2, RewrappedRow, RewrappedSound
      <4> HIDE DEF new
      <4>4. account'[id] = new
        BY <3>2 DEF new
      <4>5. QED
        BY <2>1, <3>2, <4>3, <4>4 DEF RowsInv, Available
    <3>3. QED
      BY <1>6, <3>1, <3>2, RotatedRows
  <2>3. QED
    BY <1>1, <2>1, <2>2, RowsWritten
<1>7. QED
  BY <1>2, <1>3, <1>4, <1>5, <1>6 DEF PasswordStep

LEMMA StepRows ==
  ASSUME TypeInv, RowsInv, RotationsInv, [AccountsNext]_accountVars
  PROVE  RowsInv'
<1>1. CASE UNCHANGED accountVars \/ TimePasses
  BY <1>1 DEF accountVars, TimePasses, RowsInv, Known
<1>2. QED
  BY <1>1, TokenStepRows, ProfileStepRows, PasswordStepRows DEF AccountsNext

-----------------------------------------------------------------------------
(* What belongs to a student, and his seat *)

LEMMA OwnedKept ==
  ASSUME TypeInv, OwnedInv, NEW w \in Worker, Becomes(w, job'[w]),
         job'[w].op \in {"rename", "start"} => job'[w].seat \in held'[job'[w].id],
         \A id \in Student : held[id] \subseteq held'[id],
         \A id \in Student : token'[id] # None => account'[id] # None,
         \A id \in Student :
           snapshot'[id] # None => account'[id] # None /\ snapshot'[id] \in held'[id]
  PROVE  OwnedInv'
<1>1. ASSUME NEW v \in Worker, job'[v].op \in {"rename", "start"}
      PROVE  job'[v].seat \in held'[job'[v].id]
  <2>1. CASE v = w
    BY <1>1, <2>1
  <2>2. CASE v # w
    <3>1. job'[v] = job[v] /\ job[v] \in Requests
      BY <2>2 DEF Becomes, TypeInv
    <3>2. job[v].id \in Student
      BY <1>1, <3>1, RequestFacts
    <3>3. QED
      BY <1>1, <3>1, <3>2 DEF OwnedInv
  <2>3. QED
    BY <2>1, <2>2
<1>2. QED
  BY <1>1 DEF OwnedInv, Known

LEMMA OwnedQuiet ==
  ASSUME TypeInv, OwnedInv, NEW w \in Worker, Becomes(w, job'[w]),
         job'[w].op \in {"rename", "start"} => job'[w].seat \in held[job'[w].id],
         UNCHANGED <<account, held, snapshot>>,
         \A id \in Student : token'[id] # None => token[id] # None \/ Known(id)
  PROVE  OwnedInv'
<1>1. \A id \in Student : token'[id] # None => account'[id] # None
  BY DEF OwnedInv, Known
<1>2. QED
  BY <1>1, OwnedKept DEF OwnedInv, Known

LEMMA TokenStepOwned ==
  ASSUME TypeInv, OwnedInv, NEW w \in Worker, TokenStep(w)
  PROVE  OwnedInv'
<1>1. /\ Becomes(w, job'[w]) /\ UNCHANGED <<account, held, snapshot>>
      /\ job'[w].op \notin {"rename", "start"}
  BY TokenJobs
<1>2. \A id \in Student : token'[id] # None => token[id] # None \/ Known(id)
  <2>1. CASE ReadToken(w)
    BY <2>1 DEF ReadToken
  <2>2. CASE IssueToken(w)
    BY <2>2 DEF IssueToken, Without, TypeInv
  <2>3. CASE DropToken(w)
    BY <2>3 DEF DropToken, Without, TypeInv
  <2>4. QED
    BY <2>1, <2>2, <2>3 DEF TokenStep, Authenticate, Login
<1>3. QED
  BY <1>1, <1>2, OwnedQuiet

LEMMA ProfileStepOwned ==
  ASSUME TypeInv, RowsInv, OwnedInv, NEW w \in Worker, ProfileStep(w)
  PROVE  OwnedInv'
<1>1. Becomes(w, job'[w]) /\ job[w] \in Requests
  BY OneWorker DEF TypeInv
<1>2. ASSUME NEW seat \in Seat, NEW p \in Password, Register(w, seat, p)
      PROVE  OwnedInv'
  <2>1. job'[w].op = "register" /\ UNCHANGED <<account, held, snapshot, token>>
    BY <1>2, BeginJob DEF Register
  <2>2. QED
    BY <1>1, <2>1, OwnedQuiet
<1>3. ASSUME NEW id \in Student, NEW k \in Key, InsertStudent(w, id, k)
      PROVE  OwnedInv'
  <2> DEFINE r == job[w]
  <2>1. r.seat \in Seat /\ r.password \in Password
    BY <1>1, <1>3, RequestFacts DEF InsertStudent
  <2>2. Secured(r.seat, r.password, k) # None
    BY <2>1, SecuredRow
  <2>3. job'[w].op \notin {"rename", "start"}
    BY <1>3, ContinueJob DEF InsertStudent, Idle
  <2>4. CASE UniqueSeat(r.seat, id)
    <3>1. /\ account' = [account EXCEPT ![id] = Secured(r.seat, r.password, k)]
          /\ held' = [held EXCEPT ![id] = {r.seat}]
          /\ token' = [token EXCEPT ![id] = Token(r.n)]
          /\ held[id] = {} /\ UNCHANGED snapshot
      BY <1>3, <2>4 DEF InsertStudent
    <3>2. \A i \in Student :
            /\ i # id => account'[i] = account[i] /\ held'[i] = held[i] /\ token'[i] = token[i]
            /\ account'[id] # None /\ held[id] \subseteq held'[id]
      BY <2>2, <3>1 DEF TypeInv
    <3>3. \A i \in Student : snapshot'[i] # None => i # id
      BY <3>1 DEF OwnedInv
    <3>4. /\ \A i \in Student : held[i] \subseteq held'[i]
          /\ \A i \in Student : token'[i] # None => account'[i] # None
      BY <3>2 DEF OwnedInv, Known
    <3>5. \A i \in Student :
            snapshot'[i] # None => account'[i] # None /\ snapshot'[i] \in held'[i]
      BY <3>1, <3>2, <3>3 DEF OwnedInv, Known
    <3>6. QED
      BY <1>1, <2>3, <3>4, <3>5, OwnedKept
  <2>5. CASE ~UniqueSeat(r.seat, id)
    BY <1>1, <1>3, <2>3, <2>5, OwnedQuiet DEF InsertStudent
  <2>6. QED
    BY <2>4, <2>5
<1>4. ASSUME NEW t \in Teacher, NEW id \in Student, FindToDelete(w, t, id)
      PROVE  OwnedInv'
  <2>1. job'[w].op = "delete" /\ UNCHANGED <<account, held, snapshot, token>>
    BY <1>4, BeginJob DEF FindToDelete
  <2>2. QED
    BY <1>1, <2>1, OwnedQuiet
<1>5. ASSUME NEW t \in Teacher, NEW id \in Student, NEW seat \in Seat \union {None},
             Put(w, t, id, seat)
      PROVE  OwnedInv'
  <2>1. job'[w].op = "put" /\ UNCHANGED <<account, held, snapshot, token>>
    BY <1>5, BeginJob DEF Put
  <2>2. QED
    BY <1>1, <2>1, OwnedQuiet
<1>6. CASE SaveStudent(w)
  <2> DEFINE r == job[w]
             seat == IF r.seat = None THEN r.row.seat ELSE r.seat
             rename == [op |-> "rename", id |-> r.id, seat |-> r.seat]
             moved == [r.row EXCEPT !.seat = seat]
  <2>1. r.id \in Student /\ r.row \in Row /\ r.seat \in Seat \union {None}
    BY <1>1, <1>6, RequestFacts DEF SaveStudent
  <2>2. seat \in Seat /\ (r.seat # None => seat = r.seat)
    BY <2>1 DEF Row
  <2>3. moved # None
    <3> HIDE DEF seat
    <3>1. moved \in Row
      BY <2>1, <2>2, MovedRow
    <3>2. QED
      BY <3>1
  <2>4. \/ job'[w] = Idle
        \/ job'[w] = rename /\ r.seat # None /\ UniqueSeat(r.seat, r.id)
    BY <1>6, ProfileJobs
  <2>5. UNCHANGED <<snapshot, token>>
    BY <1>6 DEF SaveStudent
  <2>6. CASE UniqueSeat(seat, r.id)
    <3>1. /\ account' = [account EXCEPT ![r.id] = moved]
          /\ held' = [held EXCEPT ![r.id] = @ \union {seat}]
      BY <1>6, <2>6 DEF SaveStudent
    <3> HIDE DEF moved, seat
    <3>2. /\ \A i \in Student : i # r.id => account'[i] = account[i] /\ held'[i] = held[i]
          /\ account'[r.id] = moved
          /\ held'[r.id] = held[r.id] \union {seat}
      BY <2>1, <3>1 DEF TypeInv
    <3>3. /\ \A i \in Student : held[i] \subseteq held'[i]
          /\ \A i \in Student : account[i] # None => account'[i] # None
      BY <2>3, <3>2
    <3>4. job'[w].op \in {"rename", "start"} => job'[w].seat \in held'[job'[w].id]
      BY <2>2, <2>4, <3>2 DEF Idle
    <3>5. \A i \in Student : token'[i] # None => account'[i] # None
      BY <2>5, <3>3 DEF OwnedInv, Known
    <3>6. \A i \in Student :
            snapshot'[i] # None => account'[i] # None /\ snapshot'[i] \in held'[i]
      BY <2>5, <3>3 DEF OwnedInv, Known
    <3>7. QED
      BY <1>1, <3>3, <3>4, <3>5, <3>6, OwnedKept
  <2>7. CASE ~UniqueSeat(seat, r.id)
    <3>1. job'[w] = Idle /\ UNCHANGED <<account, held>>
      BY <1>6, <2>2, <2>4, <2>7 DEF SaveStudent
    <3>2. job'[w].op \notin {"rename", "start"}
      BY <3>1 DEF Idle
    <3>3. QED
      BY <1>1, <2>5, <3>1, <3>2, OwnedQuiet
  <2>8. QED
    BY <2>6, <2>7
<1>7. CASE RenameSubmissions(w) \/ CreateSubmission(w)
  <2>1. job'[w].op \notin {"rename", "start"} /\ UNCHANGED <<account, held, token>>
    BY <1>7, ContinueJob DEF Idle, RenameSubmissions, CreateSubmission
  <2>2. job[w].op \in {"rename", "start"} /\ job[w].id \in Student
    BY <1>1, <1>7, RequestFacts DEF RenameSubmissions, CreateSubmission
  <2>3. job[w].seat \in held[job[w].id]
    BY <2>2 DEF OwnedInv
  <2>4. ASSUME NEW i \in Student, snapshot'[i] # None
        PROVE  Known(i) /\ snapshot'[i] \in held[i]
    <3>1. CASE i = job[w].id
      BY <1>7, <2>2, <2>3, <2>4, <3>1
      DEF RenameSubmissions, CreateSubmission, OwnedInv, TypeInv
    <3>2. CASE i # job[w].id
      BY <1>7, <2>4, <3>2 DEF RenameSubmissions, CreateSubmission, OwnedInv, TypeInv
    <3>3. QED
      BY <3>1, <3>2
  <2>5. QED
    BY <1>1, <2>1, <2>4, OwnedKept DEF OwnedInv, Known
<1>8. CASE DeleteStudent(w)
  <2>1. job'[w].op \notin {"rename", "start"} /\ UNCHANGED held
    BY <1>8, ContinueJob DEF Idle, DeleteStudent
  <2>2. job[w].id \in Student
    BY <1>1, <1>8, RequestFacts DEF DeleteStudent
  <2>3. \A i \in Student :
          /\ token'[i] # None => i # job[w].id /\ token'[i] = token[i]
          /\ snapshot'[i] # None => i # job[w].id /\ snapshot'[i] = snapshot[i]
          /\ i # job[w].id => account'[i] = account[i]
    BY <1>8, <2>2 DEF DeleteStudent, TypeInv
  <2>4. \A i \in Student : token'[i] # None => account'[i] # None
    BY <2>3 DEF OwnedInv, Known
  <2>5. \A i \in Student :
          snapshot'[i] # None => account'[i] # None /\ snapshot'[i] \in held'[i]
    BY <2>1, <2>3 DEF OwnedInv, Known
  <2>6. QED
    BY <1>1, <2>1, <2>4, <2>5, OwnedKept
<1>9. ASSUME NEW id \in Student, StartQuiz(w, id)
      PROVE  OwnedInv'
  <2>1. /\ job'[w].id = id /\ job'[w].seat = account[id].seat
        /\ UNCHANGED <<account, held, snapshot, token>>
    BY <1>9, BeginJob DEF StartQuiz
  <2>2. account[id].seat \in held[id]
    BY <1>9 DEF StartQuiz, RowsInv
  <2>3. QED
    BY <1>1, <2>1, <2>2, OwnedQuiet
<1>10. QED
  BY <1>2, <1>3, <1>4, <1>5, <1>6, <1>7, <1>8, <1>9 DEF ProfileStep

\* Resets and rotations keep who has a row.
LEMMA PasswordRows ==
  ASSUME TypeInv, NEW w \in Worker, PasswordStep(w), NEW i \in Student
  PROVE  /\ Known(i) <=> account'[i] # None
         /\ Known(i) => account'[i].seat = account[i].seat
         /\ token'[i] # None => token[i] # None
         /\ UNCHANGED <<held, snapshot>>
<1>1. account[i] # None => account[i] \in Row /\ account[i].seat \in Seat
  BY RowTypes DEF Known
<1>2. ASSUME NEW t \in Teacher, NEW id \in Student, NEW p \in Password, NEW k \in Key,
             ResetPassword(w, t, id, p, k)
      PROVE  /\ Known(i) <=> account'[i] # None
             /\ Known(i) => account'[i].seat = account[i].seat
             /\ token'[i] # None => token[i] # None
             /\ UNCHANGED <<held, snapshot>>
  <2> DEFINE new == Secured(account[id].seat, p, k)
  <2>1. Known(id) /\ account[id].seat \in Seat
    BY <1>2, RowTypes DEF ResetPassword
  <2>2. new # None /\ new.seat = account[id].seat
    BY <2>1, SecuredRow, SecuredSound
  <2> HIDE DEF new
  <2>3. account' = [account EXCEPT ![id] = new] /\ token' = [token EXCEPT ![id] = None]
        /\ UNCHANGED <<held, snapshot>>
    BY <1>2 DEF ResetPassword, new
  <2>4. /\ account'[i] = IF i = id THEN new ELSE account[i]
        /\ token'[i] = IF i = id THEN None ELSE token[i]
    BY <2>3 DEF TypeInv
  <2>5. QED
    BY <2>1, <2>2, <2>3, <2>4 DEF Known
<1>3. CASE RotateKeys(w)
  <2>1. job[w].rows \in Locked
    BY <1>3, RequestFacts DEF RotateKeys, TypeInv
  <2>2. \/ account'[i] = account[i]
        \/ /\ i \in DOMAIN job[w].rows /\ Known(i)
           /\ account'[i] = Rewrapped(account[i], job[w].rows[i].hash)
    BY <1>3 DEF RotateKeys, Rewrapped
  <2>3. ASSUME i \in DOMAIN job[w].rows, Known(i),
               account'[i] = Rewrapped(account[i], job[w].rows[i].hash)
        PROVE  account'[i] # None /\ account'[i].seat = account[i].seat
    <3> DEFINE p == job[w].rows[i].hash
    <3>1. p \in Password /\ account[i] \in Row
      BY <1>1, <2>1, <2>3, LockedFacts DEF Row, Known
    <3> HIDE DEF p
    <3>2. Rewrapped(account[i], p) \in Row /\ Rewrapped(account[i], p).seat = account[i].seat
      BY <3>1, RewrappedRow
    <3> DEFINE new == Rewrapped(account[i], p)
    <3> HIDE DEF new
    <3>3. new # None /\ new.seat = account[i].seat
      BY <3>2 DEF new
    <3>4. QED
      BY <2>3, <3>3 DEF new, p
  <2>4. QED
    BY <1>3, <2>2, <2>3 DEF RotateKeys, Known
<1>4. QED
  BY <1>2, <1>3 DEF PasswordStep, Dismiss, AskPassword, CountReveals, Reveal, LockRows, Known

LEMMA PasswordStepOwned ==
  ASSUME TypeInv, OwnedInv, NEW w \in Worker, PasswordStep(w)
  PROVE  OwnedInv'
<1>1. Becomes(w, job'[w])
  BY OneWorker
<1>2. job'[w].op \notin {"rename", "start"}
  <2>1. ASSUME NEW t \in Teacher, NEW id \in Student, AskPassword(w, t, id)
        PROVE  job'[w].op = "ask"
    BY <2>1, BeginJob DEF AskPassword
  <2>2. ASSUME NEW t \in Teacher, NEW id \in Student, NEW p \in Password, NEW k \in Key,
               ResetPassword(w, t, id, p, k)
        PROVE  job'[w].op = "idle"
    BY <2>2, BeginJob DEF ResetPassword, Idle
  <2>3. ASSUME NEW t \in Teacher, Dismiss(w, t)
        PROVE  job'[w].op = "idle"
    BY <2>3, BeginJob DEF Dismiss, Idle
  <2>4. CASE CountReveals(w) \/ Reveal(w) \/ LockRows(w) \/ RotateKeys(w)
    <3>1. \/ job'[w] = Idle
          \/ job'[w] = [op |-> "reveal", by |-> job[w].by, id |-> job[w].id]
          \/ job'[w] = [op |-> "rotate",
                        rows |-> [id \in {i \in Student : Available(i)} |-> account[id]]]
      BY <2>4, PasswordJobs
    <3>2. QED
      BY <3>1 DEF Idle
  <2>5. QED
    BY <2>1, <2>2, <2>3, <2>4 DEF PasswordStep
<1>3. QED
  BY <1>1, <1>2, PasswordRows, OwnedKept DEF OwnedInv, Known

LEMMA StepOwned ==
  ASSUME TypeInv, RowsInv, OwnedInv, [AccountsNext]_accountVars
  PROVE  OwnedInv'
<1>1. CASE UNCHANGED accountVars
  BY <1>1 DEF accountVars, OwnedInv, Known
<1>2. CASE TimePasses
  <2>1. \A id \in Student : token'[id] # None => token[id] # None
    BY <1>2, OlderToken
  <2>2. UNCHANGED <<account, held, snapshot, job>>
    BY <1>2 DEF TimePasses
  <2>3. QED
    BY <2>1, <2>2 DEF OwnedInv, Known
<1>3. QED
  BY <1>1, <1>2, TokenStepOwned, ProfileStepOwned, PasswordStepOwned DEF AccountsNext

\* Rows that go, or keep their seat.
LEMMA SeatsKept ==
  ASSUME OneSeatOneStudent,
         \A i \in Student : account'[i] = None \/ (Known(i) /\ account'[i].seat = account[i].seat)
  PROVE  OneSeatOneStudent'
  BY DEF OneSeatOneStudent, Known, Taken

\* A row whose seat nobody else has.
LEMMA SeatTaken ==
  ASSUME TypeInv, OneSeatOneStudent, NEW id \in Student, NEW row,
         account' = [account EXCEPT ![id] = row], UniqueSeat(row.seat, id)
  PROVE  OneSeatOneStudent'
<1>1. \A i \in Student : account'[i] = IF i = id THEN row ELSE account[i]
  BY DEF TypeInv
<1>2. QED
  BY <1>1 DEF OneSeatOneStudent, Known, Taken, UniqueSeat

LEMMA StepSeats ==
  ASSUME TypeInv, OneSeatOneStudent, [AccountsNext]_accountVars
  PROVE  OneSeatOneStudent'
<1>1. ASSUME UNCHANGED account
      PROVE  OneSeatOneStudent'
  BY <1>1 DEF OneSeatOneStudent, Known, Taken
<1>2. ASSUME NEW w \in Worker, TokenStep(w)
      PROVE  OneSeatOneStudent'
  BY <1>1, <1>2, TokenJobs
<1>3. ASSUME NEW w \in Worker, ProfileStep(w)
      PROVE  OneSeatOneStudent'
  <2>1. job[w] \in Requests
    BY DEF TypeInv
  <2>2. ASSUME NEW id \in Student, NEW k \in Key, InsertStudent(w, id, k)
        PROVE  OneSeatOneStudent'
    <3> DEFINE new == Secured(job[w].seat, job[w].password, k)
    <3>1. job[w].seat \in Seat /\ job[w].password \in Password
      BY <2>1, <2>2, RequestFacts DEF InsertStudent
    <3>2. new.seat = job[w].seat
      BY <3>1, SecuredSound
    <3> HIDE DEF new
    <3>3. \/ UNCHANGED account
          \/ account' = [account EXCEPT ![id] = new] /\ UniqueSeat(job[w].seat, id)
      BY <2>2 DEF InsertStudent, new
    <3>4. QED
      BY <1>1, <3>2, <3>3, SeatTaken
  <2>3. CASE SaveStudent(w)
    <3> DEFINE r == job[w]
               seat == IF r.seat = None THEN r.row.seat ELSE r.seat
               moved == [r.row EXCEPT !.seat = seat]
    <3>1. r.id \in Student /\ r.row \in Row /\ r.seat \in Seat \union {None}
      BY <2>1, <2>3, RequestFacts DEF SaveStudent
    <3>2. seat \in Seat
      BY <3>1 DEF Row
    <3>3. \/ UNCHANGED account
          \/ account' = [account EXCEPT ![r.id] = moved] /\ UniqueSeat(seat, r.id)
      BY <2>3 DEF SaveStudent
    <3> HIDE DEF seat
    <3>4. moved.seat = seat
      BY <3>1, <3>2, MovedRow
    <3> HIDE DEF moved
    <3>5. QED
      BY <1>1, <3>1, <3>3, <3>4, SeatTaken
  <2>4. CASE DeleteStudent(w)
    <3>1. \A i \in Student : account'[i] = None \/ account'[i] = account[i]
      BY <2>4 DEF DeleteStudent, TypeInv
    <3>2. QED
      BY <3>1, SeatsKept DEF Known
  <2>5. QED
    BY <1>1, <1>3, <2>2, <2>3, <2>4
    DEF ProfileStep, Register, FindToDelete, Put, RenameSubmissions, StartQuiz, CreateSubmission
<1>4. ASSUME NEW w \in Worker, PasswordStep(w)
      PROVE  OneSeatOneStudent'
  BY <1>4, PasswordRows, SeatsKept
<1>5. CASE TimePasses \/ UNCHANGED accountVars
  BY <1>1, <1>5 DEF TimePasses, accountVars
<1>6. QED
  BY <1>2, <1>3, <1>4, <1>5 DEF AccountsNext

-----------------------------------------------------------------------------
(* Rotations keep their rows *)

\* Nobody writes a row that another request has locked.
LEMMA RotationsKept ==
  ASSUME TypeInv, RotationsInv, NEW w \in Worker, Becomes(w, job'[w]),
         job'[w].op # "rotate",
         \A id \in Student : account'[id] # account[id] =>
           \A v \in Worker : v # w /\ job[v].op = "rotate" => id \notin DOMAIN job[v].rows
  PROVE  RotationsInv'
<1>1. ASSUME NEW v \in Worker, job'[v].op = "rotate"
      PROVE  v # w /\ job'[v] = job[v] /\ DOMAIN job[v].rows \subseteq Student
  <2>1. v # w /\ job'[v] = job[v]
    BY <1>1 DEF Becomes
  <2>2. job[v].rows \in Locked
    BY <1>1, <2>1, RequestFacts DEF TypeInv
  <2>3. QED
    BY <2>1, <2>2, LockedFacts
<1>2. ASSUME NEW v \in Worker, job'[v].op = "rotate", NEW id \in DOMAIN job'[v].rows
      PROVE  Available(id)' /\ job'[v].rows[id] = account'[id]
  <2>1. id \in Student /\ job[v].op = "rotate" /\ id \in DOMAIN job[v].rows
    BY <1>1, <1>2
  <2>2. account'[id] = account[id]
    BY <1>1, <1>2, <2>1
  <2>3. Available(id) /\ job[v].rows[id] = account[id]
    BY <2>1 DEF RotationsInv
  <2>4. QED
    BY <1>1, <1>2, <2>2, <2>3 DEF Available, Known
<1>3. QED
  BY <1>1, <1>2 DEF RotationsInv

LEMMA TokenStepRotations ==
  ASSUME TypeInv, RotationsInv, NEW w \in Worker, TokenStep(w)
  PROVE  RotationsInv'
  BY TokenJobs, RotationsKept

\* A row under a lock is known.
LEMMA LockedRow ==
  ASSUME RotationsInv, NEW v \in Worker, job[v].op = "rotate", NEW id \in DOMAIN job[v].rows
  PROVE  RowLocked(id) /\ Known(id)
  BY DEF RotationsInv, RowLocked, Available

LEMMA ProfileStepRotations ==
  ASSUME TypeInv, RowsInv, RotationsInv, NEW w \in Worker, ProfileStep(w)
  PROVE  RotationsInv'
<1>1. Becomes(w, job'[w]) /\ job[w] \in Requests
  BY OneWorker DEF TypeInv
<1>2. job'[w].op # "rotate"
  <2>1. ASSUME NEW seat \in Seat, NEW p \in Password, Register(w, seat, p)
        PROVE  job'[w].op # "rotate"
    BY <2>1, BeginJob DEF Register
  <2>2. ASSUME NEW id \in Student, NEW k \in Key, InsertStudent(w, id, k)
        PROVE  job'[w].op # "rotate"
    BY <2>2, ContinueJob DEF InsertStudent, Idle
  <2>3. ASSUME NEW t \in Teacher, NEW id \in Student, FindToDelete(w, t, id)
        PROVE  job'[w].op # "rotate"
    BY <2>3, BeginJob DEF FindToDelete
  <2>4. ASSUME NEW t \in Teacher, NEW id \in Student, NEW seat \in Seat \union {None},
               Put(w, t, id, seat)
        PROVE  job'[w].op # "rotate"
    BY <2>4, BeginJob DEF Put
  <2>5. CASE SaveStudent(w)
    <3>1. \/ job'[w] = Idle
          \/ job'[w] = [op |-> "rename", id |-> job[w].id, seat |-> job[w].seat]
      BY <2>5, ProfileJobs
    <3>2. QED
      BY <3>1 DEF Idle
  <2>6. CASE RenameSubmissions(w) \/ DeleteStudent(w) \/ CreateSubmission(w)
    BY <2>6, ContinueJob DEF RenameSubmissions, DeleteStudent, CreateSubmission, Idle
  <2>7. ASSUME NEW id \in Student, StartQuiz(w, id)
        PROVE  job'[w].op # "rotate"
    BY <2>7, BeginJob DEF StartQuiz
  <2>8. QED
    BY <2>1, <2>2, <2>3, <2>4, <2>5, <2>6, <2>7 DEF ProfileStep
<1>3. ASSUME NEW i \in Student, account'[i] # account[i]
      PROVE  ~RowLocked(i) \/ ~Known(i)
  <2>1. ASSUME NEW id \in Student, NEW k \in Key, InsertStudent(w, id, k)
        PROVE  ~Known(i)
    <3>1. held[id] = {} /\ i = id
      BY <1>3, <2>1 DEF InsertStudent, TypeInv
    <3>2. QED
      BY <3>1 DEF RowsInv
  <2>2. CASE SaveStudent(w)
    BY <1>3, <2>2 DEF SaveStudent, TypeInv
  <2>3. CASE DeleteStudent(w)
    BY <1>3, <2>3 DEF DeleteStudent, TypeInv
  <2>4. QED
    BY <1>3, <2>1, <2>2, <2>3
    DEF ProfileStep, Register, FindToDelete, Put, RenameSubmissions, StartQuiz, CreateSubmission
<1>4. \A id \in Student : account'[id] # account[id] =>
        \A v \in Worker : v # w /\ job[v].op = "rotate" => id \notin DOMAIN job[v].rows
  BY <1>3, LockedRow
<1>5. QED
  BY <1>1, <1>2, <1>4, RotationsKept

LEMMA PasswordStepRotations ==
  ASSUME TypeInv, RotationsInv, NEW w \in Worker, PasswordStep(w)
  PROVE  RotationsInv'
<1>1. Becomes(w, job'[w]) /\ job[w] \in Requests
  BY OneWorker DEF TypeInv
<1>2. ASSUME job'[w].op # "rotate", UNCHANGED account
      PROVE  RotationsInv'
  BY <1>1, <1>2, RotationsKept
<1>3. ASSUME NEW t \in Teacher, Dismiss(w, t)
      PROVE  RotationsInv'
  <2>1. job'[w].op # "rotate" /\ UNCHANGED account
    BY <1>3, BeginJob DEF Dismiss, Idle
  <2>2. QED
    BY <1>2, <2>1
<1>4. ASSUME NEW t \in Teacher, NEW id \in Student, AskPassword(w, t, id)
      PROVE  RotationsInv'
  <2>1. job'[w].op # "rotate" /\ UNCHANGED account
    BY <1>4, BeginJob DEF AskPassword
  <2>2. QED
    BY <1>2, <2>1
<1>5. ASSUME NEW t \in Teacher, NEW id \in Student, NEW p \in Password, NEW k \in Key,
             ResetPassword(w, t, id, p, k)
      PROVE  RotationsInv'
  <2>1. job'[w].op # "rotate"
    BY <1>5, BeginJob DEF ResetPassword, Idle
  <2>2. \A i \in Student : account'[i] # account[i] => ~RowLocked(i)
    BY <1>5 DEF ResetPassword, TypeInv
  <2>3. QED
    BY <1>1, <2>1, <2>2, LockedRow, RotationsKept
<1>6. CASE CountReveals(w) \/ Reveal(w)
  <2>1. \/ job'[w] = Idle
        \/ job'[w] = [op |-> "reveal", by |-> job[w].by, id |-> job[w].id]
    BY <1>6, PasswordJobs
  <2>2. job'[w].op # "rotate"
    BY <2>1 DEF Idle
  <2>3. QED
    BY <1>2, <1>6, <2>2 DEF CountReveals, Reveal
<1>7. CASE LockRows(w)
  <2> DEFINE rows == [id \in {i \in Student : Available(i)} |-> account[id]]
  <2>1. job'[w] = [op |-> "rotate", rows |-> rows]
    BY <1>7, PasswordJobs
  <2>2. /\ \A id \in DOMAIN rows : Available(id) /\ rows[id] = account[id]
        /\ DOMAIN rows \subseteq Student
    OBVIOUS
  <2> HIDE DEF rows
  <2>3. job'[w].op = "rotate" /\ job'[w].rows = rows
    BY <2>1
  <2>4. UNCHANGED account /\ \A id \in Student : ~RowLocked(id)
    BY <1>7 DEF LockRows
  <2>5. ASSUME NEW v \in Worker, v # w, job'[v].op = "rotate"
        PROVE  job[v].op = "rotate" /\ job'[v] = job[v]
               /\ DOMAIN job[v].rows \cap DOMAIN rows = {}
    <3>1. job'[v] = job[v] /\ job[v].op = "rotate"
      BY <1>1, <2>5 DEF Becomes
    <3>2. \A id \in DOMAIN job[v].rows : RowLocked(id)
      BY <3>1, LockedRow
    <3>3. QED
      BY <2>2, <2>4, <3>1, <3>2
  <2>6. ASSUME NEW v \in Worker, job'[v].op = "rotate", NEW id \in DOMAIN job'[v].rows
        PROVE  Available(id)' /\ job'[v].rows[id] = account'[id]
    <3>1. Available(id) /\ job'[v].rows[id] = account[id]
      <4>1. CASE v = w
        BY <2>2, <2>3, <2>6, <4>1
      <4>2. CASE v # w
        BY <2>5, <2>6, <4>2 DEF RotationsInv
      <4>3. QED
        BY <4>1, <4>2
    <3>2. QED
      BY <2>4, <3>1 DEF Available, Known
  <2>7. ASSUME NEW u \in Worker, NEW v \in Worker, u # v,
               job'[u].op = "rotate", job'[v].op = "rotate"
        PROVE  DOMAIN job'[u].rows \cap DOMAIN job'[v].rows = {}
    <3>1. CASE u = w \/ v = w
      BY <2>3, <2>5, <2>7, <3>1
    <3>2. CASE u # w /\ v # w
      BY <2>5, <2>7, <3>2 DEF RotationsInv
    <3>3. QED
      BY <3>1, <3>2
  <2>8. QED
    BY <2>6, <2>7 DEF RotationsInv
<1>8. CASE RotateKeys(w)
  <2>1. job'[w] = Idle /\ job[w].op = "rotate"
    BY <1>8, PasswordJobs DEF RotateKeys
  <2>2. job'[w].op # "rotate"
    BY <2>1 DEF Idle
  <2>3. \A id \in Student : account'[id] # account[id] => id \in DOMAIN job[w].rows
    BY <1>8 DEF RotateKeys
  <2>4. \A id \in Student : account'[id] # account[id] =>
          \A v \in Worker : v # w /\ job[v].op = "rotate" => id \notin DOMAIN job[v].rows
    BY <2>1, <2>3 DEF RotationsInv
  <2>5. QED
    BY <1>1, <2>2, <2>4, RotationsKept
<1>9. QED
  BY <1>3, <1>4, <1>5, <1>6, <1>7, <1>8 DEF PasswordStep

LEMMA StepRotations ==
  ASSUME TypeInv, RowsInv, RotationsInv, [AccountsNext]_accountVars
  PROVE  RotationsInv'
<1>1. CASE UNCHANGED accountVars \/ TimePasses
  BY <1>1 DEF accountVars, TimePasses, RotationsInv, Available, Known
<1>2. QED
  BY <1>1, TokenStepRotations, ProfileStepRotations, PasswordStepRotations DEF AccountsNext

-----------------------------------------------------------------------------
(* No more passwords are shown than the limit *)

Told(S) == {a \in S : a.told}

LEMMA RevealsKept ==
  ASSUME TypeInv, RevealsInv, NEW w \in Worker, Becomes(w, job'[w]),
         job'[w].op # "reveal", UNCHANGED reveals
  PROVE  RevealsInv'
  BY DEF RevealsInv, RevealsBounded, Recent, Becomes

LEMMA ProfileStepReveals ==
  ASSUME TypeInv, RevealsInv, NEW w \in Worker, ProfileStep(w)
  PROVE  RevealsInv'
<1>1. Becomes(w, job'[w])
  BY OneWorker
<1>2. UNCHANGED reveals
  BY DEF ProfileStep, Register, InsertStudent, FindToDelete, Put, SaveStudent, RenameSubmissions,
     DeleteStudent, StartQuiz, CreateSubmission
<1>3. job'[w].op # "reveal"
  <2>1. ASSUME NEW seat \in Seat, NEW p \in Password, Register(w, seat, p)
        PROVE  job'[w].op # "reveal"
    BY <2>1, BeginJob DEF Register
  <2>2. ASSUME NEW id \in Student, NEW k \in Key, InsertStudent(w, id, k)
        PROVE  job'[w].op # "reveal"
    BY <2>2, ContinueJob DEF InsertStudent, Idle
  <2>3. ASSUME NEW t \in Teacher, NEW id \in Student, FindToDelete(w, t, id)
        PROVE  job'[w].op # "reveal"
    BY <2>3, BeginJob DEF FindToDelete
  <2>4. ASSUME NEW t \in Teacher, NEW id \in Student, NEW seat \in Seat \union {None},
               Put(w, t, id, seat)
        PROVE  job'[w].op # "reveal"
    BY <2>4, BeginJob DEF Put
  <2>5. CASE SaveStudent(w)
    <3>1. \/ job'[w] = Idle
          \/ job'[w] = [op |-> "rename", id |-> job[w].id, seat |-> job[w].seat]
      BY <2>5, ProfileJobs
    <3>2. QED
      BY <3>1 DEF Idle
  <2>6. CASE RenameSubmissions(w) \/ DeleteStudent(w) \/ CreateSubmission(w)
    BY <2>6, ContinueJob DEF RenameSubmissions, DeleteStudent, CreateSubmission, Idle
  <2>7. ASSUME NEW id \in Student, StartQuiz(w, id)
        PROVE  job'[w].op # "reveal"
    BY <2>7, BeginJob DEF StartQuiz
  <2>8. QED
    BY <2>1, <2>2, <2>3, <2>4, <2>5, <2>6, <2>7 DEF ProfileStep
<1>4. QED
  BY <1>1, <1>2, <1>3, RevealsKept

\* An audit of teacher t, after which none of his requests is past the count.
LEMMA Audited ==
  ASSUME TypeInv, RevealsInv, NEW w \in Worker, Becomes(w, job'[w]), job'[w].op # "reveal",
         NEW t \in Teacher, NEW told, Audit(t, told),
         told => Recent(t) < RevealLimit,
         \A v \in Worker : v # w /\ job[v].op = "reveal" => job[v].by # t
  PROVE  RevealsInv'
<1> DEFINE new == [n |-> FreeKey(t), told |-> told, age |-> 0]
<1>1. reveals' = [reveals EXCEPT ![t] = @ \union {new}] /\ (new.told <=> told)
  BY DEF Audit
<1> HIDE DEF new
<1>2. /\ reveals'[t] = reveals[t] \union {new}
      /\ \A u \in Teacher : u # t => reveals'[u] = reveals[u]
  BY <1>1 DEF TypeInv
<1>3. IsFiniteSet(reveals[t]) /\ Recent(t) \in Nat
  BY FS_CardinalityType DEF TypeInv, Recent
<1>4. Cardinality(Told(reveals'[t])) <= RevealLimit
  <2>1. CASE told
    <3>0. /\ IsFiniteSet(reveals[t] \union {new})
          /\ Cardinality(reveals[t] \union {new}) \in {Recent(t), Recent(t) + 1}
      BY <1>3, FS_AddElement DEF Recent
    <3>1. IsFiniteSet(reveals'[t]) /\ Cardinality(reveals'[t]) <= Recent(t) + 1
      BY <1>2, <1>3, <3>0
    <3>2. IsFiniteSet(Told(reveals'[t])) /\ Cardinality(Told(reveals'[t])) <= Cardinality(reveals'[t])
      BY <3>1, FS_Subset DEF Told
    <3>3. Cardinality(Told(reveals'[t])) \in Nat /\ Cardinality(reveals'[t]) \in Nat
      BY <3>1, <3>2, FS_CardinalityType
    <3>4. QED
      BY <1>3, <2>1, <3>1, <3>2, <3>3
  <2>2. CASE ~told
    <3>1. Told(reveals'[t]) = Told(reveals[t])
      BY <1>1, <1>2, <2>2 DEF Told
    <3>2. QED
      BY <3>1 DEF RevealsInv, RevealsBounded, Told
  <2>3. QED
    BY <2>1, <2>2
<1>5. RevealsBounded'
  <2>1. \A u \in Teacher : Cardinality(Told(reveals'[u])) <= RevealLimit
    BY <1>2, <1>4 DEF RevealsInv, RevealsBounded, Told
  <2>2. QED
    BY <2>1 DEF RevealsBounded, Told
<1>6. ASSUME NEW v \in Worker, job'[v].op = "reveal"
      PROVE  /\ v # w /\ job'[v] = job[v]
             /\ Cardinality(reveals'[job[v].by]) < RevealLimit
  <2>1. v # w /\ job'[v] = job[v]
    BY <1>6 DEF Becomes
  <2>2. job[v].op = "reveal" /\ job[v].by \in Teacher /\ job[v].by # t
    BY <1>6, <2>1, RequestFacts DEF TypeInv
  <2>3. Recent(job[v].by) < RevealLimit /\ reveals'[job[v].by] = reveals[job[v].by]
    BY <1>2, <2>2 DEF RevealsInv
  <2>4. QED
    BY <2>1, <2>3 DEF Recent
<1>7. QED
  BY <1>5, <1>6 DEF RevealsInv, Recent

LEMMA PasswordStepReveals ==
  ASSUME TypeInv, RevealsInv, NEW w \in Worker, PasswordStep(w)
  PROVE  RevealsInv'
<1>1. Becomes(w, job'[w]) /\ job[w] \in Requests
  BY OneWorker DEF TypeInv
<1>2. ASSUME NEW t \in Teacher, Dismiss(w, t)
      PROVE  RevealsInv'
  <2>1. job'[w].op # "reveal" /\ UNCHANGED reveals
    BY <1>2, BeginJob DEF Dismiss, Idle
  <2>2. QED
    BY <1>1, <2>1, RevealsKept
<1>3. ASSUME NEW t \in Teacher, NEW id \in Student, AskPassword(w, t, id)
      PROVE  RevealsInv'
  <2>1. job'[w].op # "reveal" /\ UNCHANGED reveals
    BY <1>3, BeginJob DEF AskPassword
  <2>2. QED
    BY <1>1, <2>1, RevealsKept
<1>4. ASSUME NEW t \in Teacher, NEW id \in Student, NEW p \in Password, NEW k \in Key,
             ResetPassword(w, t, id, p, k)
      PROVE  RevealsInv'
  <2>1. job'[w].op # "reveal" /\ UNCHANGED reveals
    BY <1>4, BeginJob DEF ResetPassword, Idle
  <2>2. QED
    BY <1>1, <2>1, RevealsKept
<1>5. CASE CountReveals(w)
  <2> DEFINE t == job[w].by
  <2>1. t \in Teacher
    BY <1>1, <1>5, RequestFacts DEF CountReveals
  <2>2. \A v \in Worker : job[v].op = "reveal" => job[v].by # t
    BY <1>5 DEF CountReveals, TeacherLocked
  <2>3. CASE Continue(w, Idle) /\ Audit(t, FALSE)
    <3>1. job'[w].op # "reveal"
      BY <2>3, ContinueJob DEF Idle
    <3>2. QED
      BY <1>1, <2>1, <2>2, <2>3, <3>1, Audited
  <2>4. CASE t \in staff /\ Recent(t) < RevealLimit /\ UNCHANGED reveals
    <3>1. \/ job'[w] = Idle
          \/ job'[w] = [op |-> "reveal", by |-> t, id |-> job[w].id]
      BY <1>5, PasswordJobs
    <3>2. job'[w].op = "idle" \/ (job'[w].op = "reveal" /\ job'[w].by = t)
      BY <3>1 DEF Idle
    <3>3. QED
      BY <1>1, <2>2, <2>4, <3>2 DEF RevealsInv, RevealsBounded, Recent, Becomes
  <2>5. QED
    BY <1>5, <2>3, <2>4 DEF CountReveals
<1>6. CASE Reveal(w)
  <2> DEFINE t == job[w].by
  <2>1. t \in Teacher /\ job[w].op = "reveal"
    BY <1>1, <1>6, RequestFacts DEF Reveal
  <2>2. Recent(t) < RevealLimit /\ \A v \in Worker : v # w /\ job[v].op = "reveal" => job[v].by # t
    BY <2>1 DEF RevealsInv
  <2>3. job'[w].op # "reveal"
    BY <1>6, ContinueJob DEF Reveal, Idle
  <2>4. PICK told : Audit(t, told)
    BY <1>6 DEF Reveal
  <2> HIDE DEF t
  <2>5. QED
    BY <1>1, <2>1, <2>2, <2>3, <2>4, Audited
<1>7. CASE LockRows(w) \/ RotateKeys(w)
  <2>1. \/ job'[w] = Idle
        \/ job'[w] = [op |-> "rotate",
                      rows |-> [id \in {i \in Student : Available(i)} |-> account[id]]]
    BY <1>7, PasswordJobs
  <2>2. job'[w].op # "reveal"
    BY <2>1 DEF Idle
  <2>3. UNCHANGED reveals
    BY <1>7 DEF LockRows, RotateKeys
  <2>4. QED
    BY <1>1, <2>2, <2>3, RevealsKept
<1>8. QED
  BY <1>2, <1>3, <1>4, <1>5, <1>6, <1>7 DEF PasswordStep

LEMMA TimeReveals ==
  ASSUME TypeInv, RevealsInv, TimePasses
  PROVE  RevealsInv'
<1>1. ASSUME NEW t \in Teacher
      PROVE  /\ Cardinality(reveals'[t]) \in Nat /\ Recent(t) \in Nat
             /\ Cardinality(reveals'[t]) <= Recent(t)
             /\ Cardinality(Told(reveals'[t])) <= RevealLimit
  <2>1. IsFiniteSet(reveals[t]) /\ \A b \in reveals[t] : AuditRecord(b)
    BY DEF TypeInv
  <2>2. \A a \in reveals'[t] : \E b \in reveals[t] : a = Older(b)
    BY DEF TimePasses
  <2>3. IsFiniteSet(reveals'[t]) /\ Cardinality(reveals'[t]) <= Cardinality(reveals[t])
    BY <2>1, <2>2, OlderSet
  <2>4. IsFiniteSet(Told(reveals[t]))
    BY <2>1, FS_Subset DEF Told
  <2>5. \A a \in Told(reveals'[t]) : \E b \in Told(reveals[t]) : a = Older(b)
    BY <2>1, <2>2, OlderRecord DEF Told
  <2>6. /\ IsFiniteSet(Told(reveals'[t]))
        /\ Cardinality(Told(reveals'[t])) <= Cardinality(Told(reveals[t]))
    BY <2>4, <2>5, OlderSet
  <2>7. Cardinality(Told(reveals[t])) <= RevealLimit
    BY DEF RevealsInv, RevealsBounded, Told
  <2>8. /\ Cardinality(reveals'[t]) \in Nat /\ Cardinality(reveals[t]) \in Nat
        /\ Cardinality(Told(reveals'[t])) \in Nat /\ Cardinality(Told(reveals[t])) \in Nat
    BY <2>1, <2>3, <2>4, <2>6, FS_CardinalityType
  <2>9. QED
    BY <2>3, <2>6, <2>7, <2>8 DEF Recent
<1>2. RevealsBounded'
  BY <1>1 DEF RevealsBounded, Told
<1>3. UNCHANGED job
  BY DEF TimePasses
<1>4. ASSUME NEW w \in Worker, job[w].op = "reveal"
      PROVE  Cardinality(reveals'[job[w].by]) < RevealLimit
  <2>1. job[w].by \in Teacher /\ Recent(job[w].by) < RevealLimit
    BY <1>4, RequestFacts DEF TypeInv, RevealsInv
  <2>2. QED
    BY <1>1, <2>1
<1>5. QED
  BY <1>2, <1>3, <1>4 DEF RevealsInv, Recent

LEMMA StepReveals ==
  ASSUME TypeInv, RevealsInv, [AccountsNext]_accountVars
  PROVE  RevealsInv'
<1>1. CASE UNCHANGED accountVars
  BY <1>1 DEF accountVars, RevealsInv, RevealsBounded, Recent
<1>2. ASSUME NEW w \in Worker, TokenStep(w)
      PROVE  RevealsInv'
  BY <1>2, TokenJobs, RevealsKept
<1>3. QED
  BY <1>1, <1>2, ProfileStepReveals, PasswordStepReveals, TimeReveals DEF AccountsNext

-----------------------------------------------------------------------------
(* Tokens and the requests that name them *)

\* The numbers in requests and tokens are numbers.
LEMMA KeyTypes ==
  ASSUME TypeInv
  PROVE  /\ jobs \in Nat
         /\ \A id \in Student : token[id] # None => token[id].key \in Nat
         /\ \A w \in Worker : Issuing(job[w]) => job[w].n \in Nat
         /\ \A w \in Worker : \A k : Removing(job[w], k) => k \in Nat
  BY RequestFacts DEF TypeInv, Session, Issuing, Removing

\* The request neither issues nor removes a token.
Silent(r) == ~Issuing(r) /\ r.op \notin {"expire", "logout"}

LEMMA SilentRemoves ==
  ASSUME NEW r, Silent(r)
  PROVE  \A k : ~Removing(r, k)
  BY DEF Silent, Issuing, Removing

\* Tokens stay, go, or are issued by the request that ends.
LEMMA KeysIssued ==
  ASSUME TypeInv, KeysInv, NEW w \in Worker, Becomes(w, job'[w]), Silent(job'[w]),
         \A id \in Student :
           \/ token'[id] = None
           \/ token'[id] = token[id]
           \/ Issuing(job[w]) /\ token'[id] = Token(job[w].n)
  PROVE  KeysInv'
<1>1. /\ jobs \in Nat /\ jobs' \in Nat /\ jobs <= jobs'
      /\ \A v \in Worker : v # w => job'[v] = job[v]
  BY KeyTypes DEF Becomes
<1>2. \A n : Token(n) = [key |-> n, age |-> 0] /\ Token(n).key = n
  BY DEF Token
<1>3. ASSUME NEW v \in Worker, Issuing(job'[v])
      PROVE  v # w /\ job'[v] = job[v] /\ job[v].n <= jobs' /\ Issuing(job[v])
  <2>1. v # w /\ job'[v] = job[v]
    BY <1>1, <1>3 DEF Silent
  <2>2. job[v].n \in Nat /\ job[v].n <= jobs
    BY <1>3, <2>1, KeyTypes DEF KeysInv
  <2>3. QED
    BY <1>1, <1>3, <2>1, <2>2
<1>4. ASSUME NEW v \in Worker, NEW k \in Nat, Removing(job'[v], k)
      PROVE  v # w /\ job'[v] = job[v] /\ k <= jobs'
  <2>1. v # w /\ job'[v] = job[v]
    BY <1>1, <1>4, SilentRemoves
  <2>2. k <= jobs
    BY <1>4, <2>1 DEF KeysInv
  <2>3. QED
    BY <1>1, <2>1, <2>2
<1>5. ASSUME NEW id \in Student, token'[id] # None
      PROVE  token'[id].key <= jobs'
  <2>1. CASE token'[id] = token[id]
    <3>1. token[id].key \in Nat /\ token[id].key <= jobs
      BY <1>5, <2>1, KeyTypes DEF KeysInv
    <3>2. QED
      BY <1>1, <2>1, <3>1
  <2>2. CASE Issuing(job[w]) /\ token'[id] = Token(job[w].n)
    <3>1. job[w].n \in Nat /\ job[w].n <= jobs
      BY <2>2, KeyTypes DEF KeysInv
    <3>2. QED
      BY <1>1, <1>2, <2>2, <3>1
  <2>3. QED
    BY <1>5, <2>1, <2>2
<1>6. ASSUME NEW v \in Worker, NEW id \in Student, Issuing(job'[v]), token'[id] # None
      PROVE  token'[id].key # job'[v].n
  <2>1. v # w /\ job'[v] = job[v] /\ Issuing(job[v])
    BY <1>3, <1>6
  <2>2. CASE token'[id] = token[id]
    BY <1>6, <2>1, <2>2 DEF KeysInv
  <2>3. CASE Issuing(job[w]) /\ token'[id] = Token(job[w].n)
    BY <1>2, <2>1, <2>3 DEF KeysInv
  <2>4. QED
    BY <1>6, <2>2, <2>3
<1>7. ASSUME NEW u \in Worker, NEW v \in Worker, u # v, Issuing(job'[u])
      PROVE  /\ Issuing(job'[v]) => job'[v].n # job'[u].n
             /\ ~Removing(job'[v], job'[u].n)
  <2>1. job'[u] = job[u] /\ Issuing(job[u])
    BY <1>3, <1>7
  <2>2. CASE v = w
    BY <2>2, SilentRemoves DEF Silent
  <2>3. CASE v # w
    BY <1>1, <1>7, <2>1, <2>3 DEF KeysInv
  <2>4. QED
    BY <2>2, <2>3
<1>8. ASSUME NEW v \in Worker, NEW id \in Student, job'[v].op \in {"expire", "issue"},
             id = job'[v].id, token'[id] # None, Removing(job'[v], token'[id].key)
      PROVE  Expired(token'[id])
  <2>1. v # w /\ job'[v] = job[v]
    BY <1>1, <1>8, SilentRemoves
  <2>2. CASE token'[id] = token[id]
    BY <1>8, <2>1, <2>2 DEF KeysInv
  <2>3. CASE Issuing(job[w]) /\ token'[id] = Token(job[w].n)
    <3>1. Removing(job[v], job[w].n)
      BY <1>2, <1>8, <2>1, <2>3
    <3>2. QED
      BY <2>1, <2>3, <3>1 DEF KeysInv
  <2>4. QED
    BY <1>8, <2>2, <2>3
<1>9. QED
  BY <1>3, <1>4, <1>5, <1>6, <1>7, <1>8 DEF KeysInv, Expired

\* A request is given the next number for the token it may issue.
LEMMA KeysNumbered ==
  ASSUME TypeInv, KeysInv, NEW w \in Worker, Becomes(w, job'[w]),
         job'[w].op \in {"login", "register"}, job'[w].n = jobs + 1, jobs' = jobs + 1,
         UNCHANGED token
  PROVE  KeysInv'
<1>1. /\ jobs \in Nat
      /\ \A v \in Worker : v # w => job'[v] = job[v]
  BY KeyTypes DEF Becomes
<1>2. \A k : ~Removing(job'[w], k)
  BY DEF Removing
<1>3. \A v \in Worker : v # w /\ Issuing(job[v]) => job[v].n \in Nat /\ job[v].n <= jobs
  BY KeyTypes DEF KeysInv
<1>4. \A v \in Worker : \A k : Removing(job[v], k) => k \in Nat /\ k <= jobs
  BY KeyTypes DEF KeysInv
<1>5. \A id \in Student : token[id] # None => token[id].key \in Nat /\ token[id].key <= jobs
  BY KeyTypes DEF KeysInv
<1>6. ASSUME NEW v \in Worker, Issuing(job'[v])
      PROVE  job'[v].n <= jobs'
  <2>1. CASE v = w
    BY <1>1, <2>1
  <2>2. CASE v # w
    BY <1>1, <1>3, <1>6, <2>2
  <2>3. QED
    BY <2>1, <2>2
<1>7. ASSUME NEW v \in Worker, NEW k \in Nat, Removing(job'[v], k)
      PROVE  v # w /\ job'[v] = job[v] /\ k <= jobs'
  <2>1. v # w /\ job'[v] = job[v]
    BY <1>1, <1>2, <1>7
  <2>2. k <= jobs
    BY <1>4, <1>7, <2>1
  <2>3. QED
    BY <1>1, <2>1, <2>2
<1>8. \A id \in Student : token[id] # None => token[id].key <= jobs'
  BY <1>1, <1>5
<1>9. ASSUME NEW v \in Worker, NEW id \in Student, Issuing(job'[v]), token[id] # None
      PROVE  token[id].key # job'[v].n
  <2>1. CASE v = w
    BY <1>1, <1>5, <1>9, <2>1
  <2>2. CASE v # w
    BY <1>1, <1>9, <2>2 DEF KeysInv
  <2>3. QED
    BY <2>1, <2>2
<1>10. ASSUME NEW u \in Worker, NEW v \in Worker, u # v, Issuing(job'[u])
       PROVE  /\ Issuing(job'[v]) => job'[v].n # job'[u].n
              /\ ~Removing(job'[v], job'[u].n)
  <2>1. CASE u = w
    <3>1. job'[v] = job[v] /\ job'[u].n = jobs + 1
      BY <1>1, <1>10, <2>1
    <3>2. Issuing(job[v]) => job[v].n # jobs + 1
      BY <1>1, <1>3, <1>10, <2>1
    <3>3. ~Removing(job[v], jobs + 1)
      BY <1>1, <1>4
    <3>4. QED
      BY <3>1, <3>2, <3>3
  <2>2. CASE v = w
    <3>1. job'[u] = job[u] /\ job'[v].n = jobs + 1 /\ Issuing(job[u])
      BY <1>1, <1>10, <2>2
    <3>2. job[u].n # jobs + 1
      BY <1>1, <1>3, <1>10, <2>2, <3>1
    <3>3. QED
      BY <1>2, <2>2, <3>1, <3>2
  <2>3. CASE u # w /\ v # w
    BY <1>1, <1>10, <2>3 DEF KeysInv
  <2>4. QED
    BY <2>1, <2>2, <2>3
<1>11. ASSUME NEW v \in Worker, NEW id \in Student, job'[v].op \in {"expire", "issue"},
              id = job'[v].id, token[id] # None, Removing(job'[v], token[id].key)
       PROVE  Expired(token[id])
  BY <1>1, <1>2, <1>11 DEF KeysInv
<1>12. QED
  BY <1>6, <1>7, <1>8, <1>9, <1>10, <1>11 DEF KeysInv, Expired

\* A request that names the token it read, to remove it: the token is over,
\* unless the request is a logout.  It may keep the number it has.
LEMMA KeysNamed ==
  ASSUME TypeInv, KeysInv, NEW w \in Worker, Becomes(w, job'[w]),
         job'[w].op \in {"issue", "expire", "logout"}, UNCHANGED token,
         job'[w].op = "issue" => Issuing(job[w]) /\ job'[w].n = job[w].n,
         \A k : Removing(job'[w], k) =>
           \/ Issuing(job[w]) /\ k = job[w].n
           \/ \E i \in Student : token[i] # None /\ k = token[i].key,
         \A id \in Student :
           /\ id = job'[w].id /\ token[id] # None /\ Removing(job'[w], token[id].key)
           => Expired(token[id]) \/ job'[w].op = "logout"
  PROVE  KeysInv'
<1>1. /\ jobs \in Nat /\ jobs' \in Nat /\ jobs <= jobs'
      /\ \A v \in Worker : v # w => job'[v] = job[v]
  BY KeyTypes DEF Becomes
<1>2. \A k : Removing(job'[w], k) => k \in Nat /\ k <= jobs
  BY KeyTypes DEF KeysInv
<1>3. ASSUME NEW v \in Worker, Issuing(job'[v])
      PROVE  Issuing(job[v]) /\ job'[v].n = job[v].n
  BY <1>1, <1>3 DEF Issuing
<1>4. \A v \in Worker : Issuing(job'[v]) => job'[v].n \in Nat /\ job'[v].n <= jobs
  BY <1>3, KeyTypes DEF KeysInv
<1>5. \A v \in Worker : \A k \in Nat : Removing(job'[v], k) => k <= jobs
  BY <1>1, <1>2 DEF KeysInv
<1>6. \A id \in Student : token[id] # None => token[id].key \in Nat /\ token[id].key <= jobs
  BY KeyTypes DEF KeysInv
<1>7. /\ \A v \in Worker : Issuing(job'[v]) => job'[v].n <= jobs'
      /\ \A v \in Worker, k \in Nat : Removing(job'[v], k) => k <= jobs'
      /\ \A id \in Student : token[id] # None => token[id].key <= jobs'
  BY <1>1, <1>4, <1>5, <1>6
<1>8. \A v \in Worker, id \in Student :
        Issuing(job'[v]) /\ token[id] # None => token[id].key # job'[v].n
  BY <1>3 DEF KeysInv
<1>9. ASSUME NEW u \in Worker, NEW v \in Worker, u # v, Issuing(job'[u])
      PROVE  /\ Issuing(job'[v]) => job'[v].n # job'[u].n
             /\ ~Removing(job'[v], job'[u].n)
  <2>1. Issuing(job'[v]) => job'[v].n # job'[u].n
    BY <1>3, <1>9 DEF KeysInv
  <2>2. CASE v = w
    <3>1. job'[u].n = job[u].n /\ Issuing(job[u])
      BY <1>3, <1>9
    <3>2. ~Removing(job'[w], job[u].n)
      BY <1>9, <2>2, <3>1 DEF KeysInv
    <3>3. QED
      BY <2>1, <2>2, <3>1, <3>2
  <2>3. CASE v # w
    BY <1>1, <1>3, <1>9, <2>1, <2>3 DEF KeysInv
  <2>4. QED
    BY <2>2, <2>3
<1>10. ASSUME NEW v \in Worker, NEW id \in Student, job'[v].op \in {"expire", "issue"},
              id = job'[v].id, token[id] # None, Removing(job'[v], token[id].key)
       PROVE  Expired(token[id])
  <2>1. CASE v = w
    BY <1>10, <2>1
  <2>2. CASE v # w
    BY <1>1, <1>10, <2>2 DEF KeysInv
  <2>3. QED
    BY <2>1, <2>2
<1>11. QED
  BY <1>7, <1>8, <1>9, <1>10 DEF KeysInv, Expired

LEMMA TokenStepKeys ==
  ASSUME TypeInv, KeysInv, NEW w \in Worker, TokenStep(w)
  PROVE  KeysInv'
<1>1. Becomes(w, job'[w]) /\ job[w] \in Requests
  BY OneWorker DEF TypeInv
<1>2. CASE ReadToken(w)
  <2> DEFINE id == job[w].id
             old == IF token[id] = None THEN job[w].n ELSE token[id].key
             issue == [op |-> "issue", id |-> id, n |-> job[w].n, old |-> old]
  <2>1. id \in Student /\ Issuing(job[w])
    BY <1>1, <1>2, RequestFacts DEF ReadToken, Issuing
  <2>2. CASE job'[w] = Idle
    <3>1. Silent(job'[w])
      BY <2>2 DEF Silent, Issuing, Idle
    <3>2. UNCHANGED token
      BY <1>2 DEF ReadToken
    <3>3. QED
      BY <1>1, <3>1, <3>2, KeysIssued
  <2>3. CASE ~ValidToken(id) /\ job'[w] = issue
    <3>1. old = job[w].n \/ (token[id] # None /\ old = token[id].key)
      OBVIOUS
    <3> HIDE DEF old, id
    <3>2. /\ job'[w].op = "issue" /\ job'[w].n = job[w].n /\ job'[w].id = id
          /\ job'[w].old = old
      BY <2>3
    <3>3. \A k : Removing(job'[w], k) => k = old
      BY <3>2 DEF Removing
    <3>4. token[id] # None => Expired(token[id])
      BY <2>3 DEF ValidToken
    <3>5. UNCHANGED token
      BY <1>2 DEF ReadToken
    <3>6. \A k : Removing(job'[w], k) =>
            \/ Issuing(job[w]) /\ k = job[w].n
            \/ \E i \in Student : token[i] # None /\ k = token[i].key
      BY <2>1, <3>1, <3>3
    <3>7. QED
      BY <1>1, <2>1, <3>2, <3>4, <3>5, <3>6, KeysNamed
  <2>4. QED
    BY <1>2, <2>2, <2>3, ContinueJob DEF ReadToken
<1>3. CASE IssueToken(w)
  <2> DEFINE id == job[w].id
             left == Without(token[id], job[w].old)
  <2>1. id \in Student /\ Issuing(job[w])
    BY <1>1, <1>3, RequestFacts DEF IssueToken, Issuing
  <2>2. left = None \/ left = token[id]
    BY DEF Without
  <2>3. token' = [token EXCEPT ![id] = IF left = None /\ Known(id) THEN Token(job[w].n) ELSE left]
    BY <1>3 DEF IssueToken
  <2> HIDE DEF left, id
  <2>4. \A i \in Student : \/ token'[i] = None \/ token'[i] = token[i]
                           \/ token'[i] = Token(job[w].n)
    BY <2>1, <2>2, <2>3 DEF TypeInv
  <2>5. Silent(job'[w])
    BY <1>3, ContinueJob DEF IssueToken, Silent, Issuing, Idle
  <2>6. QED
    BY <1>1, <2>1, <2>4, <2>5, KeysIssued
<1>4. CASE DropToken(w)
  <2>1. \A i \in Student : token'[i] = None \/ token'[i] = token[i]
    BY <1>4 DEF DropToken, Without, TypeInv
  <2>2. Silent(job'[w])
    BY <1>4, ContinueJob DEF DropToken, Silent, Issuing, Idle
  <2>3. QED
    BY <1>1, <2>1, <2>2, KeysIssued
<1>5. ASSUME NEW id \in Student, Authenticate(w, id)
      PROVE  KeysInv'
  <2>1. /\ job'[w].op = IF Expired(token[id]) THEN "expire" ELSE "logout"
        /\ job'[w].id = id /\ job'[w].key = token[id].key
        /\ token[id] # None /\ UNCHANGED token
    BY <1>5, BeginJob DEF Authenticate
  <2>2. \A k : Removing(job'[w], k) => k = token[id].key
    BY <2>1 DEF Removing
  <2>3. \A k : Removing(job'[w], k) =>
          \/ Issuing(job[w]) /\ k = job[w].n
          \/ \E i \in Student : token[i] # None /\ k = token[i].key
    BY <2>1, <2>2
  <2>4. job'[w].op \in {"expire", "logout"} /\ (job'[w].op # "logout" => Expired(token[id]))
    BY <2>1
  <2>5. QED
    BY <1>1, <2>1, <2>3, <2>4, KeysNamed
<1>6. ASSUME NEW id \in Student, NEW p \in Password, Login(w, id, p)
      PROVE  KeysInv'
  <2>1. /\ job'[w].op = "login" /\ job'[w].n = jobs + 1 /\ jobs' = jobs + 1
        /\ UNCHANGED token
    BY <1>6, BeginJob DEF Login
  <2>2. QED
    BY <1>1, <2>1, KeysNumbered
<1>7. QED
  BY <1>2, <1>3, <1>4, <1>5, <1>6 DEF TokenStep

LEMMA ProfileStepKeys ==
  ASSUME TypeInv, KeysInv, NEW w \in Worker, ProfileStep(w)
  PROVE  KeysInv'
<1>1. Becomes(w, job'[w]) /\ job[w] \in Requests
  BY OneWorker DEF TypeInv
<1>2. ASSUME Silent(job'[w]), \A i \in Student : token'[i] = None \/ token'[i] = token[i]
      PROVE  KeysInv'
  BY <1>1, <1>2, KeysIssued
<1>3. ASSUME NEW seat \in Seat, NEW p \in Password, Register(w, seat, p)
      PROVE  KeysInv'
  <2>1. /\ job'[w].op = "register" /\ job'[w].n = jobs + 1 /\ jobs' = jobs + 1
        /\ UNCHANGED token
    BY <1>3, BeginJob DEF Register
  <2>2. QED
    BY <1>1, <2>1, KeysNumbered
<1>4. ASSUME NEW id \in Student, NEW k \in Key, InsertStudent(w, id, k)
      PROVE  KeysInv'
  <2>1. Silent(job'[w])
    BY <1>4, ContinueJob DEF InsertStudent, Silent, Issuing, Idle
  <2>2. Issuing(job[w])
    BY <1>4 DEF InsertStudent, Issuing
  <2>3. \A i \in Student : token'[i] = token[i] \/ token'[i] = Token(job[w].n)
    BY <1>4 DEF InsertStudent, TypeInv
  <2>4. QED
    BY <1>1, <2>1, <2>2, <2>3, KeysIssued
<1>5. ASSUME NEW t \in Teacher, NEW id \in Student, FindToDelete(w, t, id)
      PROVE  KeysInv'
  <2>1. Silent(job'[w]) /\ UNCHANGED token
    BY <1>5, BeginJob DEF FindToDelete, Silent, Issuing
  <2>2. QED
    BY <1>2, <2>1
<1>6. ASSUME NEW t \in Teacher, NEW id \in Student, NEW seat \in Seat \union {None},
             Put(w, t, id, seat)
      PROVE  KeysInv'
  <2>1. Silent(job'[w]) /\ UNCHANGED token
    BY <1>6, BeginJob DEF Put, Silent, Issuing
  <2>2. QED
    BY <1>2, <2>1
<1>7. CASE SaveStudent(w)
  <2>1. \/ job'[w] = Idle
        \/ job'[w] = [op |-> "rename", id |-> job[w].id, seat |-> job[w].seat]
    BY <1>7, ProfileJobs
  <2>2. Silent(job'[w])
    BY <2>1 DEF Silent, Issuing, Idle
  <2>3. QED
    BY <1>2, <1>7, <2>2 DEF SaveStudent
<1>8. CASE RenameSubmissions(w) \/ DeleteStudent(w) \/ CreateSubmission(w)
  <2>1. Silent(job'[w])
    BY <1>8, ContinueJob
    DEF RenameSubmissions, DeleteStudent, CreateSubmission, Silent, Issuing, Idle
  <2>2. \A i \in Student : token'[i] = None \/ token'[i] = token[i]
    BY <1>8 DEF RenameSubmissions, DeleteStudent, CreateSubmission, TypeInv
  <2>3. QED
    BY <1>2, <2>1, <2>2
<1>9. ASSUME NEW id \in Student, StartQuiz(w, id)
      PROVE  KeysInv'
  <2>1. Silent(job'[w]) /\ UNCHANGED token
    BY <1>9, BeginJob DEF StartQuiz, Silent, Issuing
  <2>2. QED
    BY <1>2, <2>1
<1>10. QED
  BY <1>3, <1>4, <1>5, <1>6, <1>7, <1>8, <1>9 DEF ProfileStep

LEMMA PasswordStepKeys ==
  ASSUME TypeInv, KeysInv, NEW w \in Worker, PasswordStep(w)
  PROVE  KeysInv'
<1>1. Becomes(w, job'[w]) /\ job[w] \in Requests
  BY OneWorker DEF TypeInv
<1>2. Silent(job'[w])
  <2>1. ASSUME NEW t \in Teacher, NEW id \in Student, AskPassword(w, t, id)
        PROVE  Silent(job'[w])
    BY <2>1, BeginJob DEF AskPassword, Silent, Issuing
  <2>2. ASSUME NEW t \in Teacher, NEW id \in Student, NEW p \in Password, NEW k \in Key,
               ResetPassword(w, t, id, p, k)
        PROVE  Silent(job'[w])
    BY <2>2, BeginJob DEF ResetPassword, Idle, Silent, Issuing
  <2>3. ASSUME NEW t \in Teacher, Dismiss(w, t)
        PROVE  Silent(job'[w])
    BY <2>3, BeginJob DEF Dismiss, Idle, Silent, Issuing
  <2>4. CASE CountReveals(w) \/ Reveal(w) \/ LockRows(w) \/ RotateKeys(w)
    <3>1. \/ job'[w] = Idle
          \/ job'[w] = [op |-> "reveal", by |-> job[w].by, id |-> job[w].id]
          \/ job'[w] = [op |-> "rotate",
                        rows |-> [id \in {i \in Student : Available(i)} |-> account[id]]]
      BY <2>4, PasswordJobs
    <3>2. QED
      BY <3>1 DEF Idle, Silent, Issuing
  <2>5. QED
    BY <2>1, <2>2, <2>3, <2>4 DEF PasswordStep
<1>3. \A i \in Student : token'[i] = None \/ token'[i] = token[i]
  <2>1. ASSUME NEW t \in Teacher, NEW id \in Student, NEW p \in Password, NEW k \in Key,
               ResetPassword(w, t, id, p, k)
        PROVE  \A i \in Student : token'[i] = None \/ token'[i] = token[i]
    BY <2>1 DEF ResetPassword, TypeInv
  <2>2. QED
    BY <2>1
    DEF PasswordStep, Dismiss, AskPassword, CountReveals, Reveal, LockRows, RotateKeys
<1>4. QED
  BY <1>1, <1>2, <1>3, KeysIssued

LEMMA StepKeys ==
  ASSUME TypeInv, KeysInv, [AccountsNext]_accountVars
  PROVE  KeysInv'
<1>1. CASE UNCHANGED accountVars
  BY <1>1 DEF accountVars, KeysInv, Expired
<1>2. CASE TimePasses
  <2>1. \A id \in Student : token'[id] # None =>
          /\ token[id] # None /\ token'[id].key = token[id].key
          /\ Expired(token[id]) => token'[id] = token[id]
    BY <1>2, OlderToken
  <2>2. job' = job /\ jobs' = jobs
    BY <1>2 DEF TimePasses
  <2>3. \A id \in Student : token'[id] # None => token'[id].key <= jobs'
    BY <2>1, <2>2 DEF KeysInv
  <2>4. \A w \in Worker, id \in Student :
          Issuing(job[w]) /\ token'[id] # None => token'[id].key # job[w].n
    BY <2>1 DEF KeysInv
  <2>5. ASSUME NEW w \in Worker, NEW id \in Student, job[w].op \in {"expire", "issue"},
               id = job[w].id, token'[id] # None, Removing(job[w], token'[id].key)
        PROVE  Expired(token'[id])
    BY <2>1, <2>5 DEF KeysInv
  <2>6. QED
    BY <2>2, <2>3, <2>4, <2>5 DEF KeysInv, Expired
<1>3. QED
  BY <1>1, <1>2, TokenStepKeys, ProfileStepKeys, PasswordStepKeys DEF AccountsNext

-----------------------------------------------------------------------------
(* The theorems *)

LEMMA InitAccounts ==
  ASSUME AccountsInit
  PROVE  AccountsIInv
<1>1. ASSUME NEW id \in Student, Known(id)
      PROVE  account[id] \in Row /\ Sound(account[id])
  BY <1>1, SecuredRow, LegacyRow, SecuredSound, LegacySound DEF AccountsInit, Known
<1>2. \A w \in Worker : job[w] = Idle /\ job[w].op = "idle"
  BY DEF AccountsInit, Idle
<1>3. ASSUME NEW id \in Student
      PROVE  /\ account[id] \in Row \union {None}
             /\ held[id] \in SUBSET Seat
             /\ Known(id) => account[id].seat \in held[id]
  <2>1. held[id] = IF Known(id) THEN {account[id].seat} ELSE {}
    BY DEF AccountsInit
  <2>2. Known(id) => account[id].seat \in Seat
    BY <1>1 DEF Row
  <2>3. QED
    BY <1>1, <2>1, <2>2 DEF Known
<1>4. token \in [Student -> {None, [key |-> 0, age |-> TokenLife]}]
  BY DEF AccountsInit
<1>5. [key |-> 0, age |-> TokenLife] \in Session
  BY DEF Session
<1>6. token \in [Student -> Session \union {None}]
  BY <1>4, <1>5
<1>7. TypeInv
  <2>1. /\ account = [id \in Student |-> account[id]] /\ held = [id \in Student |-> held[id]]
        /\ snapshot = [id \in Student |-> None] /\ reveals = [t \in Teacher |-> {}]
        /\ staff = Teacher /\ job = [w \in Worker |-> Idle] /\ jobs = 0
    BY DEF AccountsInit
  <2>2. account \in [Student -> Row \union {None}] /\ held \in [Student -> SUBSET Seat]
    BY <1>3, <2>1
  <2>3. /\ reveals = [t \in Teacher |-> reveals[t]]
        /\ \A t \in Teacher : IsFiniteSet(reveals[t]) /\ \A a \in reveals[t] : AuditRecord(a)
    BY <2>1, FS_EmptySet
  <2>4. QED
    BY <1>6, <2>1, <2>2, <2>3, IdleRequest DEF TypeInv
<1>8. RowsInv
  BY <1>1, <1>2, <1>3 DEF RowsInv
<1>9. OwnedInv
  BY <1>2 DEF OwnedInv, AccountsInit
<1>10. OneSeatOneStudent
  BY DEF OneSeatOneStudent, AccountsInit
<1>11. RotationsInv
  BY <1>2 DEF RotationsInv
<1>12. RevealsInv
  <2>1. \A t \in Teacher : {a \in reveals[t] : a.told} = {}
    BY DEF AccountsInit
  <2>2. Cardinality({}) = 0
    BY FS_EmptySet
  <2>3. RevealsBounded
    <3>1. ASSUME NEW t \in Teacher
          PROVE  Cardinality({a \in reveals[t] : a.told}) <= RevealLimit
      <4>1. Cardinality({a \in reveals[t] : a.told}) = 0
        BY <2>1, <2>2
      <4>2. QED
        BY <4>1
    <3>2. QED
      BY <3>1 DEF RevealsBounded
  <2>4. QED
    BY <1>2, <2>3 DEF RevealsInv
<1>13. KeysInv
  <2>1. \A id \in Student : token[id] # None => token[id].key = 0
    BY <1>4
  <2>2. jobs = 0 /\ \A w \in Worker : ~Issuing(job[w]) /\ \A k : ~Removing(job[w], k)
    BY <1>2 DEF AccountsInit, Issuing, Removing
  <2>3. \A id \in Student : token[id] # None => token[id].key <= jobs
    BY <2>1, <2>2
  <2>4. QED
    BY <2>2, <2>3 DEF KeysInv
<1>14. QED
  BY <1>7, <1>8, <1>9, <1>10, <1>11, <1>12, <1>13 DEF AccountsIInv

\* The invariant of Accounts holds for any students, workers, keys and limits.
THEOREM AccountsIInvHolds == AccountsSpec => []AccountsIInv
<1>1. AccountsIInv /\ [AccountsNext]_accountVars => AccountsIInv'
  BY StepType, StepRows, StepOwned, StepSeats, StepRotations, StepReveals, StepKeys
  DEF AccountsIInv
<1>2. QED
  BY InitAccounts, <1>1, PTL DEF AccountsSpec

\* Accounts hold together: whatever requests overlap, a row is what its columns
\* say, no two students share a seat, tokens and submissions have their student,
\* and the identity in a submission is one he has had (AccountsInv).
THEOREM AccountsHoldTogether == AccountsSpec => []AccountsInv
<1>1. ASSUME AccountsIInv
      PROVE  AccountsInv
  <2>1. TypeInv /\ RowsInv /\ OwnedInv /\ OneSeatOneStudent
    BY <1>1 DEF AccountsIInv
  <2>2. ASSUME NEW id \in Student, Known(id)
        PROVE  /\ account[id] \in Row
               /\ (account[id].status = "available") = (account[id].cipher # None)
               /\ (account[id].cipher = None) = (account[id].key = None)
    BY <2>1, <2>2, RowTypes DEF RowsInv, Sound
  <2>3. \A id \in Student : token[id] # None => Known(id) /\ token[id] \in Session
    BY <2>1 DEF OwnedInv, TypeInv
  <2>4. \A id \in Student : snapshot[id] # None =>
          Known(id) /\ snapshot[id] \in Seat /\ snapshot[id] \in held[id]
    BY <2>1 DEF OwnedInv, TypeInv
  <2>5. QED
    BY <2>1, <2>2, <2>3, <2>4 DEF AccountsInv, AccountsTypeOK, SnapshotsHeld
<1>2. QED
  BY <1>1, AccountsIInvHolds, PTL

\* A password shown to a teacher is the one that lets the student in, and no
\* more of them are shown in a minute than the limit, whatever resets, edits,
\* rotations and questions overlap (PasswordsInv).
THEOREM PasswordsAreTrue == AccountsSpec => []PasswordsInv
<1>1. ASSUME AccountsIInv
      PROVE  PasswordsInv
  BY <1>1 DEF AccountsIInv, PasswordsInv, RecoverableIsTrue, RowsInv, Sound, Available,
     RevealsInv
<1>2. QED
  BY <1>1, AccountsIInvHolds, PTL

\* No login and no removal of an expired token ends a session that is not over,
\* only the logout with this very token does (FreshTokenStays).
THEOREM FreshTokensStay == AccountsSpec => FreshTokenStays
<1> DEFINE Fresh == \A w \in Worker, id \in Student :
              (IssueToken(w) \/ DropToken(w)) /\ ValidToken(id) /\ token'[id] # token[id]
                => job[w].op = "logout" /\ job[w].key = token[id].key
<1>1. ASSUME AccountsIInv
      PROVE  Fresh
  <2> SUFFICES ASSUME NEW w \in Worker, NEW id \in Student, IssueToken(w) \/ DropToken(w),
                      ValidToken(id), token'[id] # token[id]
               PROVE  job[w].op = "logout" /\ job[w].key = token[id].key
    OBVIOUS
  <2>1. TypeInv /\ KeysInv /\ job[w] \in Requests
    BY <1>1 DEF AccountsIInv, TypeInv
  <2>2. token[id] # None /\ ~Expired(token[id])
    BY DEF ValidToken
  <2>3. CASE IssueToken(w)
    <3>1. id = job[w].id /\ token[id].key = job[w].old
      BY <2>1, <2>2, <2>3 DEF IssueToken, Without, TypeInv
    <3>2. Removing(job[w], token[id].key) /\ job[w].op = "issue"
      BY <2>3, <3>1 DEF IssueToken, Removing
    <3>3. QED
      BY <2>1, <2>2, <3>1, <3>2 DEF KeysInv
  <2>4. CASE DropToken(w)
    <3>1. id = job[w].id /\ token[id].key = job[w].key
      BY <2>1, <2>2, <2>4 DEF DropToken, Without, TypeInv
    <3>2. Removing(job[w], token[id].key) /\ job[w].op \in {"expire", "logout"}
      BY <2>4, <3>1 DEF DropToken, Removing
    <3>3. QED
      BY <2>1, <2>2, <3>1, <3>2 DEF KeysInv
  <2>5. QED
    BY <2>3, <2>4
<1>2. QED
  BY <1>1, AccountsIInvHolds, PTL DEF FreshTokenStays
=============================================================================
